------------------------- MODULE HawkReceiveProofs -------------------------
(***************************************************************************)
(* Proofs about HawkReceive.  Of verification, that its verdict is exact,  *)
(* for every degree, every length of a salt and a hash, every size and     *)
(* alignment of the buffer, and every mix of flaws.  Of the codes, for     *)
(* every number of values and of low bits, every limit and every size:     *)
(* that a decoder accepts nothing but encodings, and that what is encoded  *)
(* is decoded.  Of key generation, that the solver finds each polynomial   *)
(* where it reads it, and that a key pair is made of one seed.             *)
(***************************************************************************)
EXTENDS HawkReceive, DataTheorems

HN == Verify!HN

\* Half of the degree.
LEMMA HalfFacts ==
    /\ N \in Nat /\ N > 0 /\ HN \in Nat /\ HN > 0 /\ N = 2 * HN
    /\ SaltLen \in Nat /\ SaltLen > 0 /\ SaltLen <= 4 * N
    /\ HpubLen \in Nat /\ HpubLen > 0 /\ Round \in Nat /\ Round > 0
BY SizeAssumption DEF HN, Verify!HN

-----------------------------------------------------------------------------
(***************************************************************************)
(* Memory.                                                                 *)
(***************************************************************************)
Memory(m) == m = [c \in DOMAIN m |-> m[c]] /\ DOMAIN m \subseteq Int

\* Nothing has changed but between two cells.
Frame(m, k, lo, hi) ==
    /\ Memory(k) /\ DOMAIN k = DOMAIN m
    /\ \A c \in DOMAIN m : c < lo \/ hi <= c => k[c] = m[c]

\* A part of a half.
LEMMA HalfOf ==
    ASSUME NEW u \in Nat
    PROVE  /\ (2 * u) \div 2 = u /\ (2 * u) % 2 = 0
           /\ (2 * u + 1) \div 2 = u /\ (2 * u + 1) % 2 = 1
OBVIOUS

\* A polynomial that is written is there, and nothing else has changed.
LEMMA Put16Facts ==
    ASSUME NEW m, Memory(m), NEW at \in Int, NEW term, NEW count \in Nat
    PROVE  /\ Frame(m, Verify!Put16(m, at, term, count), at, at + count)
           /\ at .. at + count - 1 \subseteq DOMAIN m =>
                 Verify!Holds16(Verify!Put16(m, at, term, count), at, term, count)
<1> DEFINE k == Verify!Put16(m, at, term, count)
<1>1. /\ DOMAIN k = DOMAIN m /\ k = [c \in DOMAIN k |-> k[c]]
      /\ \A c \in DOMAIN m : k[c] = IF c \in at .. at + count - 1
                                    THEN <<term, c - at, "all">> ELSE m[c]
  BY DEF Verify!Put16
<1> HIDE DEF k
<1>2. Frame(m, k, at, at + count)
  BY <1>1 DEF Frame, Memory
<1>3. ASSUME at .. at + count - 1 \subseteq DOMAIN m
      PROVE  Verify!Holds16(k, at, term, count)
  <2> SUFFICES ASSUME NEW u \in 0 .. count - 1
               PROVE  at + u \in DOMAIN k /\ k[at + u] = <<term, u, "all">>
    BY DEF Verify!Holds16
  <2>1. at + u \in at .. at + count - 1 /\ (at + u) - at = u
    OBVIOUS
  <2>2. QED
    BY <1>1, <1>3, <2>1
<1>4. QED
  BY <1>2, <1>3 DEF k

\* The same of one whose elements take two cells.
LEMMA Put32Facts ==
    ASSUME NEW m, Memory(m), NEW at \in Int, NEW term, NEW count \in Nat
    PROVE  /\ Frame(m, Verify!Put32(m, at, term, count), at, at + 2 * count)
           /\ at .. at + 2 * count - 1 \subseteq DOMAIN m =>
                 Verify!Holds32(Verify!Put32(m, at, term, count), at, term, count)
<1> DEFINE k == Verify!Put32(m, at, term, count)
<1>1. /\ DOMAIN k = DOMAIN m /\ k = [c \in DOMAIN k |-> k[c]]
      /\ \A c \in DOMAIN m :
            k[c] = IF c \in at .. at + 2 * count - 1
                   THEN <<term, (c - at) \div 2,
                          IF (c - at) % 2 = 0 THEN "low" ELSE "high">>
                   ELSE m[c]
  BY DEF Verify!Put32
<1> HIDE DEF k
<1>2. Frame(m, k, at, at + 2 * count)
  BY <1>1 DEF Frame, Memory
<1>3. ASSUME at .. at + 2 * count - 1 \subseteq DOMAIN m
      PROVE  Verify!Holds32(k, at, term, count)
  <2> SUFFICES ASSUME NEW u \in 0 .. count - 1
               PROVE  /\ at + 2 * u \in DOMAIN k
                      /\ k[at + 2 * u] = <<term, u, "low">>
                      /\ at + 2 * u + 1 \in DOMAIN k
                      /\ k[at + 2 * u + 1] = <<term, u, "high">>
    BY DEF Verify!Holds32
  <2>1. /\ at + 2 * u \in at .. at + 2 * count - 1
        /\ at + 2 * u + 1 \in at .. at + 2 * count - 1
        /\ (at + 2 * u) - at = 2 * u /\ (at + 2 * u + 1) - at = 2 * u + 1
    OBVIOUS
  <2>2. /\ (2 * u) \div 2 = u /\ (2 * u) % 2 = 0
        /\ (2 * u + 1) \div 2 = u /\ (2 * u + 1) % 2 = 1
    BY HalfOf
  <2>3. QED
    BY <1>1, <1>3, <2>1, <2>2
<1>4. QED
  BY <1>2, <1>3 DEF k

\* Reading where a whole polynomial is gives the polynomial.
LEMMA Get16Fact ==
    ASSUME NEW m, Memory(m), NEW at \in Int, NEW term, NEW count \in Nat \ {0},
           Verify!Holds16(m, at, term, count)
    PROVE  Verify!Get16(m, at, count) = term
<1>1. m[at][1] = term
  <2>1. 0 \in 0 .. count - 1 /\ at + 0 = at
    OBVIOUS
  <2>2. m[at] = <<term, 0, "all">>
    BY <2>1 DEF Verify!Holds16
  <2>3. QED
    BY <2>2
<1>2. m = Verify!Put16(m, at, term, count)
  <2> DEFINE k == Verify!Put16(m, at, term, count)
  <2>1. DOMAIN k = DOMAIN m /\ k = [c \in DOMAIN m |-> k[c]]
    BY DEF Verify!Put16
  <2>2. \A c \in DOMAIN m : k[c] = m[c]
    <3> SUFFICES ASSUME NEW c \in DOMAIN m PROVE k[c] = m[c]
      OBVIOUS
    <3>1. CASE c \in at .. at + count - 1
      <4>1. c - at \in 0 .. count - 1 /\ at + (c - at) = c
        BY <3>1
      <4>2. QED
        BY <3>1, <4>1 DEF Verify!Holds16, Verify!Put16
    <3>2. CASE c \notin at .. at + count - 1
      BY <3>2 DEF Verify!Put16
    <3>3. QED
      BY <3>1, <3>2
  <2> HIDE DEF k
  <2>3. QED
    BY <2>1, <2>2 DEF Memory, k
<1>3. QED
  BY <1>1, <1>2 DEF Verify!Get16

\* The same of one whose elements take two cells.
LEMMA Get32Fact ==
    ASSUME NEW m, Memory(m), NEW at \in Int, NEW term, NEW count \in Nat \ {0},
           Verify!Holds32(m, at, term, count)
    PROVE  Verify!Get32(m, at, count) = term
<1>1. m[at][1] = term
  <2>1. 0 \in 0 .. count - 1 /\ at + 2 * 0 = at
    OBVIOUS
  <2>2. m[at] = <<term, 0, "low">>
    BY <2>1 DEF Verify!Holds32
  <2>3. QED
    BY <2>2
<1>2. m = Verify!Put32(m, at, term, count)
  <2> DEFINE k == Verify!Put32(m, at, term, count)
  <2>1. /\ DOMAIN k = DOMAIN m /\ k = [c \in DOMAIN m |-> k[c]]
        /\ \A c \in DOMAIN m :
              k[c] = IF c \in at .. at + 2 * count - 1
                     THEN <<term, (c - at) \div 2,
                            IF (c - at) % 2 = 0 THEN "low" ELSE "high">>
                     ELSE m[c]
    BY DEF Verify!Put32
  <2> HIDE DEF k
  <2>2. \A c \in DOMAIN m : k[c] = m[c]
    <3> SUFFICES ASSUME NEW c \in DOMAIN m PROVE k[c] = m[c]
      OBVIOUS
    <3>1. CASE c \in at .. at + 2 * count - 1
      <4> DEFINE u == (c - at) \div 2
      <4>1. /\ c \in Int /\ u \in 0 .. count - 1
            /\ c = at + 2 * u \/ c = at + 2 * u + 1
            /\ (c - at) % 2 = 0 <=> c = at + 2 * u
        BY <3>1 DEF Memory
      <4> HIDE DEF u
      <4>2. k[c] = <<term, u, IF (c - at) % 2 = 0 THEN "low" ELSE "high">>
        BY <2>1, <3>1 DEF u
      <4>3. QED
        BY <4>1, <4>2 DEF Verify!Holds32
    <3>2. CASE c \notin at .. at + 2 * count - 1
      BY <2>1, <3>2
    <3>3. QED
      BY <3>1, <3>2
  <2>3. QED
    BY <2>1, <2>2 DEF Memory, k
<1>3. QED
  BY <1>1, <1>2 DEF Verify!Get32

\* Changes one after the other.
LEMMA FrameTrans ==
    ASSUME NEW m, NEW k, NEW j, NEW lo \in Int, NEW hi \in Int,
           Memory(m), Frame(m, k, lo, hi), Frame(k, j, lo, hi)
    PROVE  Frame(m, j, lo, hi)
BY DEF Frame, Memory

\* A frame may be drawn wider.
LEMMA FrameWider ==
    ASSUME NEW m, NEW k, NEW lo \in Int, NEW hi \in Int,
           NEW lower \in Int, NEW higher \in Int, lower <= lo, hi <= higher,
           Memory(m), Frame(m, k, lo, hi)
    PROVE  Frame(m, k, lower, higher)
BY DEF Frame, Memory

\* What lies elsewhere is kept.
LEMMA Kept16 ==
    ASSUME NEW m, NEW k, NEW lo \in Int, NEW hi \in Int, Frame(m, k, lo, hi),
           NEW at \in Int, NEW term, NEW count \in Nat,
           Verify!Holds16(m, at, term, count), at + count <= lo \/ hi <= at
    PROVE  Verify!Holds16(k, at, term, count)
BY DEF Frame, Verify!Holds16

\* The same of a polynomial whose elements take two cells.
LEMMA Kept32 ==
    ASSUME NEW m, NEW k, NEW lo \in Int, NEW hi \in Int, Frame(m, k, lo, hi),
           NEW at \in Int, NEW term, NEW count \in Nat,
           Verify!Holds32(m, at, term, count), at + 2 * count <= lo \/ hi <= at
    PROVE  Verify!Holds32(k, at, term, count)
<1> SUFFICES ASSUME NEW u \in 0 .. count - 1
             PROVE  /\ at + 2 * u \in DOMAIN k /\ k[at + 2 * u] = <<term, u, "low">>
                    /\ at + 2 * u + 1 \in DOMAIN k
                    /\ k[at + 2 * u + 1] = <<term, u, "high">>
  BY DEF Verify!Holds32
<1>1. /\ at + 2 * u \in DOMAIN m /\ m[at + 2 * u] = <<term, u, "low">>
      /\ at + 2 * u + 1 \in DOMAIN m /\ m[at + 2 * u + 1] = <<term, u, "high">>
  BY DEF Verify!Holds32
<1>2. \A c \in {at + 2 * u, at + 2 * u + 1} : c < lo \/ hi <= c
  OBVIOUS
<1>3. QED
  BY <1>1, <1>2 DEF Frame

-----------------------------------------------------------------------------
(***************************************************************************)
(* Widening in place.                                                      *)
(***************************************************************************)
\* A turn reads what no turn before it has written, and writes the next two
\* cells.
LEMMA WidenTurn ==
    ASSUME NEW m, Memory(m), NEW to \in Int, NEW from \in Int, NEW term,
           NEW count \in Nat, Verify!Holds16(m, from, term, count),
           from >= to + count \/ from + count <= to,
           to .. to + 2 * count - 1 \subseteq DOMAIN m,
           NEW u \in 1 .. count
    PROVE  Verify!Put32(m, to, term, u) =
              Verify!WidenOne(Verify!Put32(m, to, term, u - 1), to, from, u - 1)
<1> DEFINE k == Verify!Put32(m, to, term, u - 1)
           j == Verify!Put32(m, to, term, u)
           v == u - 1
<1>1. v \in Nat /\ v < count /\ u = v + 1 /\ v \in 0 .. count - 1
  OBVIOUS
<1>2. /\ DOMAIN k = DOMAIN m /\ k = [c \in DOMAIN m |-> k[c]]
      /\ \A c \in DOMAIN m :
            k[c] = IF c \in to .. to + 2 * v - 1
                   THEN <<term, (c - to) \div 2,
                          IF (c - to) % 2 = 0 THEN "low" ELSE "high">>
                   ELSE m[c]
  BY DEF Verify!Put32
<1>3. /\ DOMAIN j = DOMAIN m /\ j = [c \in DOMAIN m |-> j[c]]
      /\ \A c \in DOMAIN m :
            j[c] = IF c \in to .. to + 2 * u - 1
                   THEN <<term, (c - to) \div 2,
                          IF (c - to) % 2 = 0 THEN "low" ELSE "high">>
                   ELSE m[c]
  BY DEF Verify!Put32
<1>4. k[from + v] = <<term, v, "all">>
  <2>1. from + v \in DOMAIN m /\ m[from + v] = <<term, v, "all">>
    BY <1>1 DEF Verify!Holds16
  <2>2. from + v \notin to .. to + 2 * v - 1
    BY <1>1
  <2>3. QED
    BY <1>2, <2>1, <2>2
<1> DEFINE low == to + 2 * v
           high == to + 2 * v + 1
           w == Verify!WidenOne(k, to, from, v)
<1> HIDE DEF k, j
<1>5. w = [k EXCEPT ![low] = <<term, v, "low">>, ![high] = <<term, v, "high">>]
  <2>1. /\ k[from + v][1] = term /\ k[from + v][2] = v /\ k[from + v][3] = "all"
    BY <1>4
  <2>2. QED
    BY <2>1 DEF Verify!WidenOne
<1>6. low \in DOMAIN m /\ high \in DOMAIN m /\ low # high /\ DOMAIN m \subseteq Int
  BY <1>1 DEF Memory
<1>7. j[low] = <<term, v, "low">> /\ j[high] = <<term, v, "high">>
  <2>1. /\ low \in to .. to + 2 * u - 1 /\ high \in to .. to + 2 * u - 1
        /\ low - to = 2 * v /\ high - to = 2 * v + 1
    BY <1>1
  <2>2. /\ (2 * v) \div 2 = v /\ (2 * v) % 2 = 0
        /\ (2 * v + 1) \div 2 = v /\ (2 * v + 1) % 2 = 1
    BY <1>1, HalfOf
  <2> HIDE DEF low, high, v
  <2>3. QED
    BY <1>3, <1>6, <2>1, <2>2
<1>8. \A c \in DOMAIN m : c # low /\ c # high => j[c] = k[c]
  <2> SUFFICES ASSUME NEW c \in DOMAIN m, c # low, c # high
               PROVE  j[c] = k[c]
    OBVIOUS
  <2>1. c \in to .. to + 2 * u - 1 <=> c \in to .. to + 2 * v - 1
    BY <1>1, <1>6
  <2>2. QED
    BY <1>2, <1>3, <2>1
<1>9. DOMAIN w = DOMAIN m /\ w = [c \in DOMAIN m |-> w[c]]
  BY <1>2, <1>5
<1>10. \A c \in DOMAIN m : w[c] = j[c]
  <2> HIDE DEF low, high, v, w
  <2>1. \A c \in DOMAIN m : w[c] = IF c = low THEN <<term, v, "low">>
                                   ELSE IF c = high THEN <<term, v, "high">>
                                   ELSE k[c]
    BY <1>2, <1>5, <1>6
  <2>2. QED
    BY <1>7, <1>8, <2>1
<1> HIDE DEF w
<1>11. j = w
  BY <1>3, <1>9, <1>10
<1>12. QED
  BY <1>11 DEF j, k, w

\* The loop widens the polynomial whole, from the half of its room that the
\* elements come from: each is read before the words of others go over it.
LEMMA WidenFacts ==
    ASSUME NEW m, Memory(m), NEW to \in Int, NEW from \in Int, NEW term,
           NEW count \in Nat, Verify!Holds16(m, from, term, count),
           from >= to + count \/ from + count <= to,
           to .. to + 2 * count - 1 \subseteq DOMAIN m
    PROVE  Verify!Widen(m, to, from, count) = Verify!Put32(m, to, term, count)
<1> DEFINE Turns(g) ==
               g = [u \in 0 .. count |->
                      IF u = 0 THEN m ELSE Verify!WidenOne(g[u - 1], to, from, u - 1)]
           whole == [u \in 0 .. count |-> Verify!Put32(m, to, term, u)]
           turn == CHOOSE g : Turns(g)
<1>1. Verify!Put32(m, to, term, 0) = m
  <2>1. to .. to + 2 * 0 - 1 = {}
    OBVIOUS
  <2>2. Verify!Put32(m, to, term, 0) = [c \in DOMAIN m |-> m[c]]
    BY <2>1 DEF Verify!Put32
  <2>3. QED
    BY <2>2 DEF Memory
<1>2. \A u \in 1 .. count :
         Verify!Put32(m, to, term, u) =
            Verify!WidenOne(Verify!Put32(m, to, term, u - 1), to, from, u - 1)
  BY WidenTurn
<1>3. Turns(whole)
  <2>1. \A u \in 0 .. count :
           whole[u] = IF u = 0 THEN m
                      ELSE Verify!WidenOne(whole[u - 1], to, from, u - 1)
    BY <1>1, <1>2
  <2>2. whole = [u \in 0 .. count |-> whole[u]]
    OBVIOUS
  <2> HIDE DEF whole
  <2>3. QED
    BY <2>1, <2>2, Zenon
<1>4. Turns(turn)
  BY <1>3
<1>5. Verify!Widen(m, to, from, count) = turn[count]
  BY Zenon DEF Verify!Widen
<1> HIDE DEF turn
<1>6. \A u \in 0 .. count :
         turn[u] = IF u = 0 THEN m
                   ELSE Verify!WidenOne(turn[u - 1], to, from, u - 1)
  BY <1>4
<1> DEFINE Wrong == {u \in 0 .. count : turn[u] # Verify!Put32(m, to, term, u)}
<1>7. ASSUME Wrong # {} PROVE FALSE
  <2>1. PICK u \in Wrong : \A w \in Wrong : u <= w
    <3>1. Wrong \subseteq Nat
      OBVIOUS
    <3> HIDE DEF Wrong
    <3>2. QED
      BY <1>7, <3>1, LeastNatural
  <2>2. u # 0
    BY <1>1, <1>6
  <2>3. u \in 1 .. count /\ u - 1 \in 0 .. count /\ u - 1 \notin Wrong
    BY <2>1, <2>2
  <2>4. turn[u - 1] = Verify!Put32(m, to, term, u - 1)
    BY <2>3
  <2>5. turn[u] = Verify!Put32(m, to, term, u)
    BY <1>2, <1>6, <2>2, <2>3, <2>4
  <2>6. QED
    BY <2>5
<1>8. turn[count] = Verify!Put32(m, to, term, count)
  BY <1>7
<1>9. QED
  BY <1>5, <1>8

-----------------------------------------------------------------------------
(***************************************************************************)
(* The key and the signature, and the loading of a polynomial.             *)
(***************************************************************************)
\* A key that lies elsewhere is kept.
LEMMA KeptPub ==
    ASSUME NEW m, NEW k, NEW lo \in Int, NEW hi \in Int, Frame(m, k, lo, hi),
           NEW at \in Int, Verify!HoldsPub(m, at),
           at + Verify!PubLen <= lo \/ hi <= at
    PROVE  Verify!HoldsPub(k, at)
<1>1. /\ at + HN <= lo \/ hi <= at
      /\ at + HN + N <= lo \/ hi <= at + HN
      /\ at + HN + N + HpubLen <= lo \/ hi <= at + HN + N
      /\ at + HN \in Int /\ at + HN + N \in Int
  BY HalfFacts DEF Verify!PubLen, HN
<1>2. /\ Verify!Holds16(k, at, "q00", HN) /\ Verify!Holds16(k, at + HN, "q01", N)
      /\ Verify!Holds16(k, at + HN + N, "hpub", HpubLen)
  BY <1>1, HalfFacts, Kept16 DEF Verify!HoldsPub, HN
<1>3. QED
  BY <1>2 DEF Verify!HoldsPub, HN

\* The same of a signature.
LEMMA KeptSig ==
    ASSUME NEW m, NEW k, NEW lo \in Int, NEW hi \in Int, Frame(m, k, lo, hi),
           NEW at \in Int, Verify!HoldsSig(m, at),
           at + Verify!SigLen <= lo \/ hi <= at
    PROVE  Verify!HoldsSig(k, at)
<1>1. /\ at + N <= lo \/ hi <= at
      /\ (at + N) + SaltLen <= lo \/ hi <= at + N
      /\ at + N \in Int
  BY HalfFacts DEF Verify!SigLen
<1>2. Verify!Holds16(k, at, "s1", N) /\ Verify!Holds16(k, at + N, "salt", SaltLen)
  BY <1>1, HalfFacts, Kept16 DEF Verify!HoldsSig
<1>3. QED
  BY <1>2 DEF Verify!HoldsSig

\* Decoding a key writes all of it and nothing else.
LEMMA PutPubFacts ==
    ASSUME NEW m, Memory(m), NEW at \in Int,
           at .. at + Verify!PubLen - 1 \subseteq DOMAIN m
    PROVE  /\ Frame(m, Verify!PutPubHash(m, at), at, at + Verify!PubLen)
           /\ Verify!HoldsPub(Verify!PutPubHash(m, at), at)
<1> DEFINE a == at + HN
           b == at + HN + N
           top == at + Verify!PubLen
           k == Verify!Put16(m, at, "q00", HN)
           j == Verify!Put16(k, a, "q01", N)
           w == Verify!Put16(j, b, "hpub", HpubLen)
<1>1. Verify!PutPubHash(m, at) = w
  BY DEF Verify!PutPubHash, Verify!PutPub, HN
<1>2. /\ a \in Int /\ b \in Int /\ top \in Int /\ at <= a /\ a <= b /\ b <= top
      /\ a = at + HN /\ b = a + N /\ top = b + HpubLen
  BY HalfFacts DEF Verify!PubLen, HN
<1>3. at .. at + HN - 1 \subseteq DOMAIN m /\ a .. a + N - 1 \subseteq DOMAIN m
      /\ b .. b + HpubLen - 1 \subseteq DOMAIN m
  <2>1. at .. top - 1 \subseteq DOMAIN m
    BY HalfFacts DEF Verify!PubLen, HN
  <2> HIDE DEF top, a, b
  <2>2. QED
    BY <1>2, <2>1, HalfFacts
<1> HIDE DEF top, a, b
<1>4. Frame(m, k, at, a) /\ Verify!Holds16(k, at, "q00", HN)
  BY <1>2, <1>3, HalfFacts, Put16Facts
<1>5. Memory(k) /\ DOMAIN k = DOMAIN m
  BY <1>4 DEF Frame
<1> HIDE DEF k
<1>6. Frame(k, j, a, b) /\ Verify!Holds16(j, a, "q01", N)
  BY <1>2, <1>3, <1>5, HalfFacts, Put16Facts
<1>7. Memory(j) /\ DOMAIN j = DOMAIN m
  BY <1>5, <1>6 DEF Frame
<1> HIDE DEF j
<1>8. Frame(j, w, b, top) /\ Verify!Holds16(w, b, "hpub", HpubLen)
  BY <1>2, <1>3, <1>7, HalfFacts, Put16Facts
<1>9. Memory(w)
  BY <1>8 DEF Frame
<1> HIDE DEF w
<1>10. Verify!Holds16(w, at, "q00", HN) /\ Verify!Holds16(w, a, "q01", N)
  <2>1. Verify!Holds16(j, at, "q00", HN)
    BY <1>2, <1>4, <1>6, HalfFacts, Kept16
  <2>2. QED
    BY <1>2, <1>6, <1>8, <2>1, HalfFacts, Kept16
<1>11. Frame(m, w, at, top)
  <2>1. Frame(m, k, at, top) /\ Frame(k, j, at, top) /\ Frame(j, w, at, top)
    BY <1>2, <1>4, <1>5, <1>6, <1>7, <1>8, FrameWider
  <2>2. QED
    BY <1>2, <1>5, <2>1, FrameTrans
<1>12. QED
  BY <1>1, <1>8, <1>10, <1>11 DEF Verify!HoldsPub, a, b, top, HN

\* The same of a signature.
LEMMA PutSigFacts ==
    ASSUME NEW m, Memory(m), NEW at \in Int,
           at .. at + Verify!SigLen - 1 \subseteq DOMAIN m
    PROVE  /\ Frame(m, Verify!PutSig(m, at), at, at + Verify!SigLen)
           /\ Verify!HoldsSig(Verify!PutSig(m, at), at)
<1> DEFINE a == at + N
           top == at + Verify!SigLen
           k == Verify!Put16(m, at, "s1", N)
           j == Verify!Put16(k, a, "salt", SaltLen)
<1>1. Verify!PutSig(m, at) = j
  BY DEF Verify!PutSig
<1>2. /\ a \in Int /\ top \in Int /\ at <= a /\ a <= top
      /\ a = at + N /\ top = a + SaltLen
  BY HalfFacts DEF Verify!SigLen
<1>3. at .. at + N - 1 \subseteq DOMAIN m /\ a .. a + SaltLen - 1 \subseteq DOMAIN m
  <2>1. at .. top - 1 \subseteq DOMAIN m
    BY HalfFacts DEF Verify!SigLen
  <2> HIDE DEF top, a
  <2>2. QED
    BY <1>2, <2>1, HalfFacts
<1> HIDE DEF top, a
<1>4. Frame(m, k, at, a) /\ Verify!Holds16(k, at, "s1", N)
  BY <1>2, <1>3, HalfFacts, Put16Facts
<1>5. Memory(k) /\ DOMAIN k = DOMAIN m
  BY <1>4 DEF Frame
<1> HIDE DEF k
<1>6. Frame(k, j, a, top) /\ Verify!Holds16(j, a, "salt", SaltLen)
  BY <1>2, <1>3, <1>5, HalfFacts, Put16Facts
<1> HIDE DEF j
<1>7. Verify!Holds16(j, at, "s1", N)
  BY <1>2, <1>4, <1>6, HalfFacts, Kept16
<1>8. Frame(m, j, at, top)
  <2>1. Frame(m, k, at, top) /\ Frame(k, j, at, top)
    BY <1>2, <1>4, <1>5, <1>6, FrameWider
  <2>2. QED
    BY <1>2, <2>1, FrameTrans
<1>9. QED
  BY <1>1, <1>6, <1>7, <1>8 DEF Verify!HoldsSig, a, top

\* Writing what is there changes nothing.
LEMMA Put16Same ==
    ASSUME NEW m, Memory(m), NEW at \in Int, NEW term, NEW count \in Nat,
           Verify!Holds16(m, at, term, count)
    PROVE  Verify!Put16(m, at, term, count) = m
<1> DEFINE k == Verify!Put16(m, at, term, count)
<1>1. DOMAIN k = DOMAIN m /\ k = [c \in DOMAIN m |-> k[c]]
  BY DEF Verify!Put16
<1>2. \A c \in DOMAIN m : k[c] = m[c]
  <2> SUFFICES ASSUME NEW c \in DOMAIN m PROVE k[c] = m[c]
    OBVIOUS
  <2>1. CASE c \in at .. at + count - 1
    <3>1. c - at \in 0 .. count - 1 /\ at + (c - at) = c
      BY <2>1
    <3>2. QED
      BY <2>1, <3>1 DEF Verify!Holds16, Verify!Put16
  <2>2. CASE c \notin at .. at + count - 1
    BY <2>2 DEF Verify!Put16
  <2>3. QED
    BY <2>1, <2>2
<1> HIDE DEF k
<1>3. k = m
  BY <1>1, <1>2 DEF Memory
<1>4. QED
  BY <1>3 DEF k

\* A polynomial is widened and transformed in its place.
LEMMA LoadFacts ==
    ASSUME NEW m, Memory(m), NEW to \in Int, NEW from \in Int, NEW term,
           NEW count \in Nat \ {0}, NEW full \in Nat, count <= full, NEW k,
           Verify!Holds16(m, from, term, count),
           from >= to + count \/ from + count <= to,
           to .. to + 2 * full - 1 \subseteq DOMAIN m
    PROVE  LET r == Verify!LoadInto(m, to, from, count, full, k)
           IN  /\ Frame(m, r, to, to + 2 * full)
               /\ Verify!Holds32(r, to, Verify!Transform(k, term), full)
<1> DEFINE whole == Verify!Widen(m, to, from, count)
           r == Verify!Put32(whole, to, Verify!Transform(k, term), full)
<1>1. count \in Nat /\ to .. to + 2 * count - 1 \subseteq DOMAIN m
  OBVIOUS
<1>2. whole = Verify!Put32(m, to, term, count)
  BY <1>1, WidenFacts
<1> HIDE DEF whole
<1>3. Frame(m, whole, to, to + 2 * count) /\ Verify!Holds32(whole, to, term, count)
  BY <1>1, <1>2, Put32Facts
<1>4. Memory(whole) /\ DOMAIN whole = DOMAIN m
  BY <1>3 DEF Frame
<1>5. Verify!Get32(whole, to, count) = term
  BY <1>3, <1>4, Get32Fact
<1>6. Verify!LoadInto(m, to, from, count, full, k) = r
  <2>1. Verify!LoadInto(m, to, from, count, full, k) =
           Verify!Put32(whole, to, Verify!Transform(k, Verify!Get32(whole, to, count)), full)
    BY Zenon DEF Verify!LoadInto, whole
  <2>2. QED
    BY <1>5, <2>1, Zenon
<1>7. /\ Frame(whole, r, to, to + 2 * full)
      /\ Verify!Holds32(r, to, Verify!Transform(k, term), full)
  BY <1>4, Put32Facts
<1> HIDE DEF r
<1>8. Frame(m, whole, to, to + 2 * full)
  BY <1>1, <1>3, FrameWider
<1>9. Frame(m, r, to, to + 2 * full)
  BY <1>7, <1>8, FrameTrans
<1>10. QED
  BY <1>6, <1>7, <1>9

-----------------------------------------------------------------------------
(***************************************************************************)
(* The buffer.                                                             *)
(***************************************************************************)
\* Where it is, and what the polynomials' places are.
LEMMA Layout ==
    ASSUME Verify!BufferInv
    PROVE  /\ tt \in Nat /\ room \in Nat /\ vsig \in Int /\ vpub \in Int
           /\ Memory(mem) /\ 0 .. tt + room - 1 \subseteq DOMAIN mem
           /\ Verify!Need = 5 * N /\ Verify!Encoded = -1
           /\ room >= Verify!Need => tt .. tt + 5 * N - 1 \subseteq DOMAIN mem
           /\ Verify!PubLen = HN + N + HpubLen /\ Verify!PubLen \in Nat
           /\ Verify!SigLen = N + SaltLen /\ Verify!SigLen \in Nat
           /\ Verify!CallersPub \in Int /\ Verify!CallersSig \in Int
           /\ Verify!CallersPub + Verify!PubLen <= tt
           /\ Verify!CallersSig + Verify!SigLen <= tt
           /\ Verify!fq00 = tt /\ Verify!fq01 = tt + N /\ Verify!ft1 = tt + 3 * N
           /\ Verify!t0 = tt /\ Verify!c1 = tt + N /\ Verify!c2 = tt + 3 * N
<1>1. tt \in Nat /\ room \in Nat /\ vsig \in Int /\ vpub \in Int
  BY DEF Verify!BufferInv
<1>2. /\ Verify!PubLen = HN + N + HpubLen /\ Verify!PubLen \in Nat
      /\ Verify!SigLen = N + SaltLen /\ Verify!SigLen \in Nat
      /\ Verify!Need = 5 * N /\ Verify!Encoded = -1
  BY HalfFacts DEF Verify!PubLen, Verify!SigLen, Verify!Need, Verify!Encoded, HN
<1>3. /\ Verify!CallersPub \in Int /\ Verify!CallersSig \in Int
      /\ Verify!CallersPub + Verify!PubLen <= tt
      /\ Verify!CallersSig + Verify!SigLen <= tt
  BY <1>1, <1>2 DEF Verify!CallersPub, Verify!CallersSig
<1>4. /\ DOMAIN mem = 0 .. tt + room - 1 \cup Verify!Callers
      /\ mem = [c \in DOMAIN mem |-> mem[c]]
  BY DEF Verify!BufferInv
<1>5. Verify!Callers \subseteq Int
  BY <1>2, <1>3 DEF Verify!Callers
<1>6. Memory(mem) /\ 0 .. tt + room - 1 \subseteq DOMAIN mem
  BY <1>4, <1>5 DEF Memory
<1>7. room >= Verify!Need => tt .. tt + 5 * N - 1 \subseteq DOMAIN mem
  BY <1>1, <1>2, <1>6, HalfFacts
<1>8. /\ Verify!fq00 = tt /\ Verify!fq01 = tt + N /\ Verify!ft1 = tt + 3 * N
      /\ Verify!t0 = tt /\ Verify!c1 = tt + N /\ Verify!c2 = tt + 3 * N
  BY DEF Verify!fq00, Verify!fq01, Verify!ft1, Verify!t0, Verify!c1, Verify!c2
<1>9. QED
  BY <1>1, <1>2, <1>3, <1>6, <1>7, <1>8

\* A step that writes to the buffer leaves alone what lies below it.
LEMMA BufferKept ==
    ASSUME Verify!BufferInv, UNCHANGED Verify!place,
           NEW hi \in Int, Frame(mem, mem', tt, hi)
    PROVE  Verify!BufferInv'
<1>1. vsig' = vsig /\ vpub' = vpub /\ tt' = tt /\ room' = room
  BY DEF Verify!place
<1>2. DOMAIN mem' = DOMAIN mem /\ Memory(mem')
  BY DEF Frame
<1>3. DOMAIN mem = 0 .. tt + room - 1 \cup Verify!Callers
  BY DEF Verify!BufferInv
<1>4. mem' = [c \in 0 .. tt' + room' - 1 \cup Verify!Callers |-> mem'[c]]
  BY <1>1, <1>2, <1>3 DEF Memory
<1>5. /\ Verify!HoldsPub(mem', Verify!CallersPub)
      /\ Verify!HoldsSig(mem', Verify!CallersSig)
  BY Layout, KeptPub, KeptSig DEF Verify!BufferInv
<1>6. vsig # Verify!Encoded => vsig + Verify!SigLen <= tt /\ Verify!HoldsSig(mem', vsig)
  BY Layout, KeptSig DEF Verify!BufferInv
<1>7. vpub # Verify!Encoded => vpub + Verify!PubLen <= tt /\ Verify!HoldsPub(mem', vpub)
  BY Layout, KeptPub DEF Verify!BufferInv
<1>8. tt' \in Nat /\ room' \in Nat /\ vsig' \in Int /\ vpub' \in Int
  BY <1>1, Layout
<1>9. QED
  BY <1>1, <1>4, <1>5, <1>6, <1>7, <1>8 DEF Verify!BufferInv

\* What has no wrong writes in it is the caller's still.
LEMMA CallersMemory ==
    ASSUME Verify!BufferInv
    PROVE  mem = Verify!PutSig(Verify!PutPubHash(mem, Verify!CallersPub), Verify!CallersSig)
<1> DEFINE p == Verify!CallersPub
           s == Verify!CallersSig
<1>1. Memory(mem) /\ p \in Int /\ s \in Int
  BY Layout
<1>2. Verify!HoldsPub(mem, p) /\ Verify!HoldsSig(mem, s)
  BY DEF Verify!BufferInv
<1> HIDE DEF p, s
<1>3. /\ Verify!Put16(mem, p, "q00", HN) = mem
      /\ Verify!Put16(mem, p + HN, "q01", N) = mem
      /\ Verify!Put16(mem, p + HN + N, "hpub", HpubLen) = mem
  BY <1>1, <1>2, HalfFacts, Put16Same DEF Verify!HoldsPub, HN
<1>4. /\ Verify!Put16(mem, s, "s1", N) = mem
      /\ Verify!Put16(mem, s + N, "salt", SaltLen) = mem
  BY <1>1, <1>2, HalfFacts, Put16Same DEF Verify!HoldsSig
<1>5. Verify!PutPubHash(mem, p) = mem
  BY <1>3 DEF Verify!PutPubHash, Verify!PutPub, HN
<1>6. Verify!PutSig(mem, s) = mem
  BY <1>4 DEF Verify!PutSig
<1>7. QED
  BY <1>5, <1>6 DEF p, s

\* A polynomial of the key, from wherever it is, is loaded.
LEMMA LoadKey ==
    ASSUME Verify!BufferInv, room >= Verify!Need,
           NEW m, Frame(mem, m, tt, tt + 5 * N),
           NEW term, NEW offset, NEW count,
           \/ term = "q00" /\ offset = 0 /\ count = HN
           \/ term = "q01" /\ offset = HN /\ count = N,
           NEW to \in Int, NEW at \in Int, NEW hi \in Int, NEW full \in Nat, NEW k,
           tt <= to, to + count <= at, at + count <= hi,
           count <= full, to + 2 * full <= hi, hi <= tt + 5 * N
    PROVE  LET r == Verify!LoadInto(Verify!Fetch(m, term, count, at), to,
                                    Verify!Source(offset, at), count, full, k)
           IN  /\ Frame(m, r, to, hi)
               /\ Verify!Holds32(r, to, Verify!Transform(k, term), full)
<1> DEFINE f == Verify!Fetch(m, term, count, at)
           from == Verify!Source(offset, at)
           r == Verify!LoadInto(f, to, from, count, full, k)
<1>1. Memory(m) /\ DOMAIN m = DOMAIN mem
  BY DEF Frame
<1>2. count \in Nat \ {0}
  BY HalfFacts
<1>3. tt \in Nat /\ tt .. tt + 5 * N - 1 \subseteq DOMAIN m
  BY <1>1, Layout
<1>4. /\ at .. at + count - 1 \subseteq DOMAIN m
      /\ to .. to + 2 * full - 1 \subseteq DOMAIN m
  BY <1>2, <1>3, HalfFacts
<1>5. /\ Frame(m, f, to, hi) /\ Verify!Holds16(f, from, term, count)
      /\ from \in Int /\ (from >= to + count \/ from + count <= to)
  <2>1. CASE vpub = Verify!Encoded
    <3>1. f = Verify!Put16(m, at, term, count) /\ from = at
      BY <2>1 DEF Verify!Fetch, Verify!Source
    <3> HIDE DEF f, from
    <3>2. Frame(m, f, at, at + count) /\ Verify!Holds16(f, from, term, count)
      BY <1>1, <1>2, <1>4, <3>1, Put16Facts
    <3>3. to <= at
      BY <1>2
    <3>4. Frame(m, f, to, hi)
      BY <1>1, <1>2, <3>2, <3>3, FrameWider
    <3>5. QED
      BY <3>1, <3>2, <3>4
  <2>2. CASE vpub # Verify!Encoded
    <3>1. f = m /\ from = vpub + offset
      BY <2>2 DEF Verify!Fetch, Verify!Source
    <3>2. vpub + Verify!PubLen <= tt /\ Verify!HoldsPub(mem, vpub)
      BY <2>2 DEF Verify!BufferInv
    <3>3. Verify!HoldsPub(m, vpub)
      BY <3>2, Layout, HalfFacts, KeptPub
    <3> HIDE DEF f, from
    <3>4. from \in Int /\ from + count <= to
      BY <3>1, <3>2, Layout, HalfFacts
    <3>5. Verify!Holds16(f, from, term, count)
      <4>1. vpub + 0 = vpub
        BY Layout
      <4>2. QED
        BY <3>1, <3>3, <4>1 DEF Verify!HoldsPub, HN
    <3>6. Frame(m, f, to, hi)
      BY <1>1, <3>1 DEF Frame
    <3>7. QED
      BY <3>4, <3>5, <3>6
  <2>3. QED
    BY <2>1, <2>2
<1> HIDE DEF f, from
<1>6. Memory(f) /\ DOMAIN f = DOMAIN m
  BY <1>5 DEF Frame
<1>7. /\ Frame(f, r, to, to + 2 * full)
      /\ Verify!Holds32(r, to, Verify!Transform(k, term), full)
  BY <1>2, <1>4, <1>5, <1>6, LoadFacts
<1> HIDE DEF r
<1>8. Frame(f, r, to, hi)
  BY <1>6, <1>7, FrameWider
<1>9. Frame(m, r, to, hi)
  BY <1>1, <1>5, <1>8, FrameTrans
<1>10. QED
  BY <1>7, <1>9 DEF f, from, r

-----------------------------------------------------------------------------
(***************************************************************************)
(* The checks and the norms.                                               *)
(***************************************************************************)
\* What a step of verification that is not rejected has found to be right.
LEMMA Passed ==
    ASSUME NEW here, NEW there, Verify!From(here, there)
    PROVE  /\ vpc = here /\ vpc' = there
           /\ here = "pub" /\ Verify!FastPub => flaws \cap Verify!PubFlaws = {}
           /\ here = "sig" /\ Verify!FastSig => flaws \cap Verify!SigFlaws = {}
           /\ here = "decode" => ~(room < Verify!Need)
           /\ here = "decode" /\ vsig = Verify!Encoded => flaws \cap Verify!SigFlaws = {}
           /\ here = "t1" => "order" \notin flaws
           /\ here = "q00" => "head" \notin flaws
           /\ here = "q00" /\ vpub = Verify!Encoded => "q00" \notin flaws
           /\ here = "q01" /\ vpub = Verify!Encoded => flaws \cap {"q01", "padding"} = {}
           /\ here = "divide" => "division" \notin flaws
           /\ here = "s0" => "s0" \notin flaws
           /\ here = "compare" /\ i = 2 => "residues" \notin flaws
           /\ here = "bound" => "bound" \notin flaws
<1>1. vpc = here /\ vpc' = there /\ flaws \cap Verify!Checked = {}
  BY DEF Verify!From, Verify!Fails
<1>2. here = "decode" => ~(room < Verify!Need)
  BY DEF Verify!From, Verify!Fails
<1>3. QED
  BY <1>1, <1>2 DEF Verify!Checked

\* The steps of the loop and before it, and where they lead.
Turns == {<<"decode", "hash">>, <<"hash", "t1">>, <<"t1", "q00">>, <<"q00", "q01">>,
          <<"q01", "divide">>, <<"divide", "s0">>, <<"s0", "t1 again">>,
          <<"t1 again", "inverse">>, <<"inverse", "product">>, <<"product", "sum">>,
          <<"sum", "compare">>}

\* A step that is not rejected goes on with what it has found to be right.
LEMMA FlawsKept ==
    ASSUME Verify!BufferInv, Verify!FlawInv,
           UNCHANGED Verify!place, UNCHANGED result,
           NEW here, NEW there, Verify!From(here, there), <<here, there>> \in Turns
    PROVE  Verify!FlawInv'
<1> USE DEF Verify!InLoop, Verify!AfterS0, Verify!AfterDivide, Verify!AfterQ01,
            Verify!AfterQ00, Verify!AfterT1, Verify!AfterHash, Verify!AfterDecode
<1>1. /\ vsig' = vsig /\ vpub' = vpub /\ flaws' = flaws /\ tt' = tt /\ room' = room
      /\ result' = result
  BY DEF Verify!place
<1>2. vpc = here /\ vpc' = there
  BY Passed
<1>3. /\ flaws \subseteq Verify!Flaws /\ ~result
      /\ vsig # Verify!Encoded => flaws \cap Verify!SigFlaws = {}
      /\ vpub # Verify!Encoded => flaws \cap Verify!PubFlaws = {}
  BY <1>2 DEF Verify!FlawInv, Turns
<1>4. vpc' \in Verify!AfterDecode => room >= Verify!Need /\ flaws \cap Verify!SigFlaws = {}
  <2>1. here = "decode" => room >= Verify!Need /\ flaws \cap Verify!SigFlaws = {}
    BY <1>3, Passed, Layout, HalfFacts
  <2>2. here # "decode" => room >= Verify!Need /\ flaws \cap Verify!SigFlaws = {}
    BY <1>2 DEF Verify!FlawInv, Turns
  <2>3. QED
    BY <2>1, <2>2
<1>5. vpc' \in Verify!AfterT1 => "order" \notin flaws
  BY <1>2, Passed DEF Verify!FlawInv, Turns
<1>6. vpc' \in Verify!AfterQ00 => flaws \cap {"head", "q00"} = {}
  BY <1>2, <1>3, Passed DEF Verify!FlawInv, Turns, Verify!PubFlaws
<1>7. vpc' \in Verify!AfterQ01 => flaws \cap {"q01", "padding"} = {}
  BY <1>2, <1>3, Passed DEF Verify!FlawInv, Turns, Verify!PubFlaws
<1>8. vpc' \in Verify!AfterDivide => "division" \notin flaws
  BY <1>2, Passed DEF Verify!FlawInv, Turns
<1>9. vpc' \in Verify!AfterS0 => "s0" \notin flaws
  BY <1>2, Passed DEF Verify!FlawInv, Turns
<1>10. vpc' # "bound" /\ vpc' # "done"
  BY <1>2 DEF Turns
<1> HIDE DEF Verify!InLoop, Verify!AfterS0, Verify!AfterDivide, Verify!AfterQ01,
             Verify!AfterQ00, Verify!AfterT1, Verify!AfterHash, Verify!AfterDecode
<1>11. QED
  BY <1>1, <1>3, <1>4, <1>5, <1>6, <1>7, <1>8, <1>9, <1>10 DEF Verify!FlawInv

\* The norms are left alone by the steps that do not compute any.
LEMMA NormsKept ==
    ASSUME Verify!NormInv, UNCHANGED <<i, norm, result>>,
           NEW here, NEW there, vpc = here, vpc' = there, ~result,
           <<here, there>> \in Turns \ {<<"product", "sum">>, <<"sum", "compare">>}
    PROVE  Verify!NormInv'
<1> USE DEF Verify!InLoop, Verify!AfterS0, Verify!AfterDivide, Verify!AfterQ01,
            Verify!AfterQ00, Verify!AfterT1, Verify!AfterHash, Verify!AfterDecode,
            Verify!Calling
<1>1. /\ i \in {1, 2}
      /\ norm = [k \in 1 .. Len(norm) |-> norm[k]] /\ Len(norm) \in 0 .. 2
      /\ \A k \in 1 .. Len(norm) : norm[k] = Verify!TheNorm(k)
  BY DEF Verify!NormInv, Turns
<1>2. vpc' \in Verify!Calling \ (Verify!AfterS0 \cup {"done"}) => i = 1 /\ Len(norm) = 0
  BY DEF Verify!NormInv, Turns
<1>3. vpc' \in {"t1 again", "inverse", "product"} => Len(norm) = i - 1
  <2>1. here = "s0" => Len(norm) = i - 1
    <3>1. here = "s0" => i = 1 /\ Len(norm) = 0
      BY DEF Verify!NormInv
    <3> HIDE DEF Verify!Calling
    <3>2. QED
      BY <3>1
  <2>2. here # "s0" /\ vpc' \in {"inverse", "product"} => Len(norm) = i - 1
    BY DEF Verify!NormInv, Turns
  <2>3. here # "s0" => vpc' # "t1 again"
    BY DEF Turns
  <2>4. QED
    BY <2>1, <2>2, <2>3
<1>4. vpc' \notin {"sum", "compare", "bound"}
  BY DEF Turns
<1>5. QED
  BY <1>1, <1>2, <1>3, <1>4 DEF Verify!NormInv

\* A step of the loop or before it that computes no norm keeps the invariant if
\* it writes to the buffer only and makes there what is to be there.
LEMMA TurnKept ==
    ASSUME Verify!VerifyInv, UNCHANGED Verify!place, UNCHANGED <<i, norm, result>>,
           NEW here, NEW there, Verify!From(here, there),
           <<here, there>> \in Turns \ {<<"product", "sum">>, <<"sum", "compare">>},
           NEW hi \in Int, Frame(mem, mem', tt, hi), Verify!TermInv'
    PROVE  Verify!VerifyInv'
<1>1. vpc = here /\ vpc' = there
  BY Passed
<1>2. ~result
  BY <1>1 DEF Verify!VerifyInv, Verify!FlawInv, Turns
<1>3. Verify!BufferInv'
  BY BufferKept DEF Verify!VerifyInv
<1>4. Verify!FlawInv'
  BY FlawsKept DEF Verify!VerifyInv
<1>5. Verify!NormInv'
  BY <1>1, <1>2, NormsKept DEF Verify!VerifyInv
<1>6. vpc' \in Verify!Calling
  BY <1>1 DEF Turns, Verify!InLoop, Verify!AfterS0, Verify!AfterDivide, Verify!AfterQ01,
              Verify!AfterQ00, Verify!AfterT1, Verify!AfterHash, Verify!AfterDecode,
              Verify!Calling
<1>7. QED
  BY <1>3, <1>4, <1>5, <1>6 DEF Verify!VerifyInv
-----------------------------------------------------------------------------
(***************************************************************************)
(* The steps.                                                              *)
(***************************************************************************)
LEMMA DecodeStep ==
    ASSUME Verify!VerifyInv, Verify!Decode
    PROVE  Verify!VerifyInv'
<1>1. /\ Verify!From("decode", "hash") /\ UNCHANGED Verify!place
      /\ UNCHANGED <<i, norm, result, h>>
      /\ mem' = IF vsig = Verify!Encoded THEN Verify!PutSig(mem, tt) ELSE mem
  BY DEF Verify!Decode, Verify!Turn
<1>2. vpc' = "hash" /\ room >= Verify!Need
  <2>1. vpc' = "hash" /\ ~(room < Verify!Need)
    BY <1>1, Passed
  <2>2. QED
    BY <2>1, HalfFacts, Layout DEF Verify!VerifyInv
<1>3. Verify!BufferInv
  BY DEF Verify!VerifyInv
<1>4. Memory(mem) /\ tt \in Nat
  BY <1>3, Layout
<1>5. Frame(mem, mem', tt, tt + 5 * N)
  <2>1. CASE vsig = Verify!Encoded
    <3>1. tt .. tt + Verify!SigLen - 1 \subseteq DOMAIN mem
      BY <1>2, <1>3, Layout, HalfFacts
    <3>2. Frame(mem, mem', tt, tt + Verify!SigLen)
      BY <1>1, <1>4, <2>1, <3>1, PutSigFacts
    <3>3. tt + Verify!SigLen <= tt + 5 * N
      BY <1>3, Layout, HalfFacts
    <3>4. QED
      BY <1>3, <1>4, <3>2, <3>3, FrameWider, Layout, HalfFacts
  <2>2. CASE vsig # Verify!Encoded
    BY <1>1, <1>4, <2>2 DEF Frame
  <2>3. QED
    BY <2>1, <2>2
<1>6. vsig = Verify!Encoded => Verify!HoldsSig(mem', tt)
  <2>1. tt .. tt + Verify!SigLen - 1 \subseteq DOMAIN mem
    BY <1>2, <1>3, Layout, HalfFacts
  <2>2. QED
    BY <1>1, <1>4, <2>1, PutSigFacts
<1>7. vsig' = vsig /\ tt' = tt
  BY <1>1 DEF Verify!place
<1>8. Verify!TermInv'
  BY <1>2, <1>6, <1>7 DEF Verify!TermInv, Verify!InLoop, Verify!AfterS0,
       Verify!AfterDivide, Verify!AfterQ01, Verify!AfterQ00, Verify!AfterT1,
       Verify!AfterHash
<1>9. <<"decode", "hash">> \in Turns \ {<<"product", "sum">>, <<"sum", "compare">>}
  BY DEF Turns
<1>10. tt + 5 * N \in Int
  BY <1>4, HalfFacts
<1>11. QED
  BY <1>1, <1>5, <1>8, <1>9, <1>10, TurnKept

\* The hash is of the key and the salt, wherever they are.
LEMMA HashStep ==
    ASSUME Verify!VerifyInv, Verify!Hash
    PROVE  Verify!VerifyInv'
<1>1. /\ Verify!From("hash", "t1") /\ UNCHANGED Verify!place
      /\ UNCHANGED <<i, norm, result>>
  BY DEF Verify!Hash, Verify!Turn
<1>2. vpc = "hash" /\ vpc' = "t1"
  BY <1>1, Passed
<1>3. Verify!BufferInv /\ room >= Verify!Need
  <2>1. Verify!BufferInv /\ Verify!FlawInv
    BY DEF Verify!VerifyInv
  <2>2. QED
    BY <1>2, <2>1 DEF Verify!FlawInv, Verify!InLoop, Verify!AfterS0, Verify!AfterDivide,
       Verify!AfterQ01, Verify!AfterQ00, Verify!AfterT1, Verify!AfterHash,
       Verify!AfterDecode
<1>4. /\ Memory(mem) /\ tt \in Nat /\ N \in Nat /\ HN \in Nat \ {0} /\ N = 2 * HN
      /\ tt .. tt + 5 * N - 1 \subseteq DOMAIN mem
  BY <1>3, Layout, HalfFacts
<1>5. vsig' = vsig /\ vpub' = vpub /\ tt' = tt /\ room' = room /\ i' = i
  BY <1>1 DEF Verify!place
<1>6. /\ mem' = mem
      /\ h' = Verify!HashOf(IF vpub = Verify!Encoded THEN "hpub"
                            ELSE Verify!Get16(mem, vpub + HN + N, HpubLen),
                            Verify!Get16(mem, Verify!SigAt + N, SaltLen))
  BY DEF Verify!Hash, HN
<1>7. vpub # Verify!Encoded => Verify!Get16(mem, vpub + HN + N, HpubLen) = "hpub"
  <2>1. vpub # Verify!Encoded => Verify!HoldsPub(mem, vpub)
    BY <1>3 DEF Verify!BufferInv
  <2>2. vpub + HN + N \in Int /\ HpubLen \in Nat \ {0}
    BY <1>3, <1>4, Layout, HalfFacts
  <2>3. QED
    BY <1>4, <2>1, <2>2, Get16Fact DEF Verify!HoldsPub, HN
<1>8. Verify!Get16(mem, Verify!SigAt + N, SaltLen) = "salt"
  <2>1. Verify!HoldsSig(mem, Verify!SigAt)
    BY <1>2, <1>3 DEF Verify!SigAt, Verify!BufferInv, Verify!VerifyInv, Verify!TermInv
  <2>2. Verify!SigAt + N \in Int /\ SaltLen \in Nat \ {0}
    BY <1>3, <1>4, Layout, HalfFacts DEF Verify!SigAt
  <2>3. QED
    BY <1>4, <2>1, <2>2, Get16Fact DEF Verify!HoldsSig
<1>9. h' = Verify!TheH
  BY <1>6, <1>7, <1>8 DEF Verify!TheH
<1>10. Frame(mem, mem', tt, tt + 5 * N)
  BY <1>4, <1>6 DEF Frame
<1>11. Verify!TermInv'
  <2>1. vsig = Verify!Encoded => Verify!HoldsSig(mem, tt)
    BY <1>2 DEF Verify!VerifyInv, Verify!TermInv
  <2>2. QED
    BY <1>2, <1>5, <1>6, <1>9, <2>1 DEF Verify!TermInv, Verify!InLoop, Verify!AfterS0,
       Verify!AfterDivide, Verify!AfterQ01, Verify!AfterQ00, Verify!AfterT1,
       Verify!AfterHash
<1>12. <<"hash", "t1">> \in Turns \ {<<"product", "sum">>, <<"sum", "compare">>}
  BY DEF Turns
<1>13. tt + 5 * N \in Int
  BY <1>4
<1>14. QED
  BY <1>1, <1>10, <1>11, <1>12, <1>13, TurnKept

\* t1 is made of the hash and of s1.
LEMMA MakeT1Step ==
    ASSUME Verify!VerifyInv, Verify!MakeT1
    PROVE  Verify!VerifyInv'
<1>1. /\ Verify!From("t1", "q00") /\ UNCHANGED Verify!place
      /\ UNCHANGED <<i, norm, result>>
  BY DEF Verify!MakeT1, Verify!Turn
<1>2. vpc = "t1" /\ vpc' = "q00"
  BY <1>1, Passed
<1>3. Verify!BufferInv /\ room >= Verify!Need
  <2>1. Verify!BufferInv /\ Verify!FlawInv
    BY DEF Verify!VerifyInv
  <2>2. QED
    BY <1>2, <2>1 DEF Verify!FlawInv, Verify!InLoop, Verify!AfterS0, Verify!AfterDivide,
       Verify!AfterQ01, Verify!AfterQ00, Verify!AfterT1, Verify!AfterHash,
       Verify!AfterDecode
<1>4. /\ Memory(mem) /\ tt \in Nat /\ N \in Nat /\ HN \in Nat \ {0} /\ N = 2 * HN
      /\ tt .. tt + 5 * N - 1 \subseteq DOMAIN mem
  BY <1>3, Layout, HalfFacts
<1>5. vsig' = vsig /\ vpub' = vpub /\ tt' = tt /\ room' = room /\ i' = i
  BY <1>1 DEF Verify!place
<1>6. /\ h' = h
      /\ mem' = Verify!Put32(mem, Verify!ft1,
                   Verify!FFT(Verify!T1(h, Verify!Get16(mem, Verify!SigAt, N))), N)
  BY DEF Verify!MakeT1
<1>7. h = Verify!TheH
  BY <1>2 DEF Verify!VerifyInv, Verify!TermInv, Verify!AfterHash
<1>8. Verify!Get16(mem, Verify!SigAt, N) = "s1"
  <2>1. Verify!HoldsSig(mem, Verify!SigAt)
    BY <1>2, <1>3 DEF Verify!SigAt, Verify!BufferInv, Verify!VerifyInv, Verify!TermInv
  <2>2. Verify!SigAt \in Int /\ N \in Nat \ {0}
    BY <1>3, <1>4, Layout, HalfFacts DEF Verify!SigAt
  <2>3. QED
    BY <1>4, <2>1, <2>2, Get16Fact DEF Verify!HoldsSig
<1>9. mem' = Verify!Put32(mem, tt + 3 * N, Verify!FFT(Verify!TheT1), N)
  BY <1>3, <1>6, <1>7, <1>8, Layout DEF Verify!TheT1
<1>10. tt + 3 * N .. (tt + 3 * N) + 2 * N - 1 \subseteq DOMAIN mem
  BY <1>4
<1>11. /\ Frame(mem, mem', tt + 3 * N, (tt + 3 * N) + 2 * N)
       /\ Verify!Holds32(mem', tt + 3 * N, Verify!FFT(Verify!TheT1), N)
  BY <1>4, <1>9, <1>10, Put32Facts
<1>12. Frame(mem, mem', tt, tt + 5 * N)
  BY <1>4, <1>11, FrameWider
<1>13. Verify!TermInv'
  <2>1. (Verify!ft1)' = tt + 3 * N
    BY <1>3, <1>5, Layout DEF Verify!ft1
  <2>2. QED
    BY <1>2, <1>5, <1>6, <1>7, <1>11, <2>1 DEF Verify!TermInv, Verify!InLoop, Verify!AfterS0,
       Verify!AfterDivide, Verify!AfterQ01, Verify!AfterQ00, Verify!AfterT1,
       Verify!AfterHash
<1>14. <<"t1", "q00">> \in Turns \ {<<"product", "sum">>, <<"sum", "compare">>}
  BY DEF Turns
<1>15. tt + 5 * N \in Int
  BY <1>4
<1>16. QED
  BY <1>1, <1>12, <1>13, <1>14, <1>15, TurnKept

\* q00 is loaded below t1.
LEMMA MakeQ00Step ==
    ASSUME Verify!VerifyInv, Verify!MakeQ00
    PROVE  Verify!VerifyInv'
<1>1. /\ Verify!From("q00", "q01") /\ UNCHANGED Verify!place
      /\ UNCHANGED <<i, norm, result>> /\ h' = h
  BY DEF Verify!MakeQ00, Verify!Turn
<1>2. vpc = "q00" /\ vpc' = "q01"
  BY <1>1, Passed
<1>3. Verify!BufferInv /\ room >= Verify!Need
  <2>1. Verify!BufferInv /\ Verify!FlawInv
    BY DEF Verify!VerifyInv
  <2>2. QED
    BY <1>2, <2>1 DEF Verify!FlawInv, Verify!InLoop, Verify!AfterS0, Verify!AfterDivide,
       Verify!AfterQ01, Verify!AfterQ00, Verify!AfterT1, Verify!AfterHash,
       Verify!AfterDecode
<1>4. /\ Memory(mem) /\ tt \in Nat /\ N \in Nat /\ HN \in Nat \ {0} /\ N = 2 * HN
      /\ tt .. tt + 5 * N - 1 \subseteq DOMAIN mem
  BY <1>3, Layout, HalfFacts
<1>5. vsig' = vsig /\ vpub' = vpub /\ tt' = tt /\ room' = room /\ i' = i
  BY <1>1 DEF Verify!place
<1>6. h = Verify!TheH
  BY <1>2 DEF Verify!VerifyInv, Verify!TermInv, Verify!InLoop, Verify!AfterS0,
     Verify!AfterDivide, Verify!AfterQ01, Verify!AfterQ00, Verify!AfterT1,
     Verify!AfterHash
<1>7. /\ Verify!fq00 = tt /\ Verify!UpperHalf(Verify!fq01) = tt + 2 * N
      /\ Verify!ft1 = tt + 3 * N
  BY <1>3, <1>4, Layout DEF Verify!UpperHalf
<1> DEFINE at == tt + 2 * N
<1>8. mem' = Verify!LoadInto(Verify!Fetch(mem, "q00", HN, at), tt, Verify!Source(0, at),
                             HN, N, Verify!Floating)
  BY <1>7 DEF Verify!MakeQ00, HN
<1>9. Frame(mem, mem, tt, tt + 5 * N)
  BY <1>4 DEF Frame
<1>10. /\ Frame(mem, mem', tt, tt + 3 * N)
       /\ Verify!Holds32(mem', tt, Verify!Transform(Verify!Floating, "q00"), N)
  <2>1. /\ at \in Int /\ tt + 3 * N \in Int /\ tt <= tt /\ tt + HN <= at
        /\ at + HN <= tt + 3 * N /\ HN <= N /\ tt + 2 * N <= tt + 3 * N
        /\ tt + 3 * N <= tt + 5 * N /\ tt \in Int
    BY <1>4
  <2> HIDE DEF at
  <2>2. QED
    BY <1>3, <1>4, <1>8, <1>9, <2>1, LoadKey
<1>11. Verify!Holds32(mem', tt, Verify!FFT("q00"), HN)
  BY <1>4, <1>10 DEF Verify!Holds32, Verify!Transform
<1>12. Verify!Holds32(mem', tt + 3 * N, Verify!FFT(Verify!TheT1), N)
  <2>1. Verify!Holds32(mem, tt + 3 * N, Verify!FFT(Verify!TheT1), N)
    BY <1>2, <1>7 DEF Verify!VerifyInv, Verify!TermInv
  <2>2. QED
    BY <1>4, <1>10, <2>1, Kept32
<1>13. Frame(mem, mem', tt, tt + 5 * N)
  BY <1>4, <1>10, FrameWider
<1>14. Verify!TermInv'
  <2>1. (Verify!ft1)' = tt + 3 * N /\ (Verify!fq00)' = tt
    BY <1>4, <1>5 DEF Verify!ft1, Verify!fq00
  <2>2. QED
    BY <1>1, <1>2, <1>5, <1>6, <1>11, <1>12, <2>1 DEF Verify!TermInv, Verify!InLoop, Verify!AfterS0,
       Verify!AfterDivide, Verify!AfterQ01, Verify!AfterQ00, Verify!AfterT1,
       Verify!AfterHash, HN
<1>15. <<"q00", "q01">> \in Turns \ {<<"product", "sum">>, <<"sum", "compare">>}
  BY DEF Turns
<1>16. tt + 5 * N \in Int
  BY <1>4
<1>17. QED
  BY <1>1, <1>13, <1>14, <1>15, <1>16, TurnKept

\* q01 is loaded between q00 and t1, over the half of q00 that is zero.
LEMMA MakeQ01Step ==
    ASSUME Verify!VerifyInv, Verify!MakeQ01
    PROVE  Verify!VerifyInv'
<1>1. /\ Verify!From("q01", "divide") /\ UNCHANGED Verify!place
      /\ UNCHANGED <<i, norm, result>> /\ h' = h
  BY DEF Verify!MakeQ01, Verify!Turn
<1>2. vpc = "q01" /\ vpc' = "divide"
  BY <1>1, Passed
<1>3. Verify!BufferInv /\ room >= Verify!Need
  <2>1. Verify!BufferInv /\ Verify!FlawInv
    BY DEF Verify!VerifyInv
  <2>2. QED
    BY <1>2, <2>1 DEF Verify!FlawInv, Verify!InLoop, Verify!AfterS0, Verify!AfterDivide,
       Verify!AfterQ01, Verify!AfterQ00, Verify!AfterT1, Verify!AfterHash,
       Verify!AfterDecode
<1>4. /\ Memory(mem) /\ tt \in Nat /\ N \in Nat /\ HN \in Nat \ {0} /\ N = 2 * HN
      /\ tt .. tt + 5 * N - 1 \subseteq DOMAIN mem
  BY <1>3, Layout, HalfFacts
<1>5. vsig' = vsig /\ vpub' = vpub /\ tt' = tt /\ room' = room /\ i' = i
  BY <1>1 DEF Verify!place
<1>6. h = Verify!TheH
  BY <1>2 DEF Verify!VerifyInv, Verify!TermInv, Verify!InLoop, Verify!AfterS0,
     Verify!AfterDivide, Verify!AfterQ01, Verify!AfterQ00, Verify!AfterT1,
     Verify!AfterHash
<1>7. /\ Verify!fq00 = tt /\ Verify!fq01 = tt + N /\ Verify!UpperHalf(Verify!fq01) = tt + 2 * N
      /\ Verify!ft1 = tt + 3 * N
  BY <1>3, <1>4, Layout DEF Verify!UpperHalf
<1> DEFINE at == tt + 2 * N
           to == tt + N
<1>8. mem' = Verify!LoadInto(Verify!Fetch(mem, "q01", N, at), to, Verify!Source(HN, at),
                             N, N, Verify!Floating)
  BY <1>7 DEF Verify!MakeQ01, HN
<1>9. Frame(mem, mem, tt, tt + 5 * N)
  BY <1>4 DEF Frame
<1>10. /\ Frame(mem, mem', tt + N, tt + 3 * N)
       /\ Verify!Holds32(mem', tt + N, Verify!Transform(Verify!Floating, "q01"), N)
  <2>1. /\ at \in Int /\ to \in Int /\ tt + 3 * N \in Int /\ tt <= to /\ to + N <= at
        /\ at + N <= tt + 3 * N /\ N <= N /\ to + 2 * N <= tt + 3 * N
        /\ tt + 3 * N <= tt + 5 * N
    BY <1>4
  <2> HIDE DEF at, to
  <2>2. /\ Frame(mem, mem', to, tt + 3 * N)
        /\ Verify!Holds32(mem', to, Verify!Transform(Verify!Floating, "q01"), N)
    BY <1>3, <1>4, <1>8, <1>9, <2>1, LoadKey
  <2>3. QED
    BY <2>2 DEF to
<1>11. Verify!Holds32(mem', tt + N, Verify!FFT("q01"), N)
  BY <1>10 DEF Verify!Transform
<1>12. /\ Verify!Holds32(mem', tt + 3 * N, Verify!FFT(Verify!TheT1), N)
       /\ Verify!Holds32(mem', tt, Verify!FFT("q00"), HN)
  <2>1. /\ Verify!Holds32(mem, tt + 3 * N, Verify!FFT(Verify!TheT1), N)
        /\ Verify!Holds32(mem, tt, Verify!FFT("q00"), HN)
    BY <1>2, <1>7 DEF Verify!VerifyInv, Verify!TermInv, HN
  <2>2. tt + 2 * HN <= tt + N
    BY <1>4
  <2>3. QED
    BY <1>4, <1>10, <2>1, <2>2, Kept32
<1>13. Frame(mem, mem', tt, tt + 5 * N)
  BY <1>4, <1>10, FrameWider
<1>14. Verify!TermInv'
  <2>1. (Verify!ft1)' = tt + 3 * N /\ (Verify!fq00)' = tt /\ (Verify!fq01)' = tt + N
    BY <1>4, <1>5 DEF Verify!ft1, Verify!fq00, Verify!fq01
  <2>2. QED
    BY <1>1, <1>2, <1>5, <1>6, <1>11, <1>12, <2>1 DEF Verify!TermInv, Verify!InLoop, Verify!AfterS0,
       Verify!AfterDivide, Verify!AfterQ01, Verify!AfterQ00, Verify!AfterT1,
       Verify!AfterHash, HN
<1>15. <<"q01", "divide">> \in Turns \ {<<"product", "sum">>, <<"sum", "compare">>}
  BY DEF Turns
<1>16. tt + 5 * N \in Int
  BY <1>4
<1>17. QED
  BY <1>1, <1>13, <1>14, <1>15, <1>16, TurnKept

\* The quotient goes over q01.
LEMMA DivideStep ==
    ASSUME Verify!VerifyInv, Verify!Divide
    PROVE  Verify!VerifyInv'
<1>1. /\ Verify!From("divide", "s0") /\ UNCHANGED Verify!place
      /\ UNCHANGED <<i, norm, result>> /\ h' = h
  BY DEF Verify!Divide, Verify!Turn
<1>2. vpc = "divide" /\ vpc' = "s0"
  BY <1>1, Passed
<1>3. Verify!BufferInv /\ room >= Verify!Need
  <2>1. Verify!BufferInv /\ Verify!FlawInv
    BY DEF Verify!VerifyInv
  <2>2. QED
    BY <1>2, <2>1 DEF Verify!FlawInv, Verify!InLoop, Verify!AfterS0, Verify!AfterDivide,
       Verify!AfterQ01, Verify!AfterQ00, Verify!AfterT1, Verify!AfterHash,
       Verify!AfterDecode
<1>4. /\ Memory(mem) /\ tt \in Nat /\ N \in Nat /\ HN \in Nat \ {0} /\ N = 2 * HN
      /\ tt .. tt + 5 * N - 1 \subseteq DOMAIN mem
  BY <1>3, Layout, HalfFacts
<1>5. vsig' = vsig /\ vpub' = vpub /\ tt' = tt /\ room' = room /\ i' = i
  BY <1>1 DEF Verify!place
<1>6. h = Verify!TheH
  BY <1>2 DEF Verify!VerifyInv, Verify!TermInv, Verify!InLoop, Verify!AfterS0,
     Verify!AfterDivide, Verify!AfterQ01, Verify!AfterQ00, Verify!AfterT1,
     Verify!AfterHash
<1>7. /\ Verify!fq00 = tt /\ Verify!fq01 = tt + N /\ Verify!ft1 = tt + 3 * N
  BY <1>3, <1>4, Layout
<1>8. /\ Verify!Holds32(mem, tt + 3 * N, Verify!FFT(Verify!TheT1), N)
      /\ Verify!Holds32(mem, tt + N, Verify!FFT("q01"), N)
      /\ Verify!Holds32(mem, tt, Verify!FFT("q00"), HN)
  BY <1>2, <1>7 DEF Verify!VerifyInv, Verify!TermInv, HN
<1> DEFINE ratio == Verify!Ratio(Verify!FFT("q01"), Verify!FFT(Verify!TheT1), Verify!FFT("q00"))
<1>9. mem' = Verify!Put32(mem, tt + N, ratio, N)
  <2>1. /\ Verify!Get32(mem, tt + 3 * N, N) = Verify!FFT(Verify!TheT1)
        /\ Verify!Get32(mem, tt + N, N) = Verify!FFT("q01")
        /\ Verify!Get32(mem, tt, HN) = Verify!FFT("q00")
    BY <1>4, <1>8, Get32Fact
  <2>2. QED
    BY <1>7, <2>1 DEF Verify!Divide, HN
<1> HIDE DEF ratio
<1>10. /\ Frame(mem, mem', tt + N, (tt + N) + 2 * N)
       /\ Verify!Holds32(mem', tt + N, ratio, N)
  <2>1. tt + N \in Int /\ tt + N .. (tt + N) + 2 * N - 1 \subseteq DOMAIN mem
    BY <1>4
  <2>2. QED
    BY <1>4, <1>9, <2>1, Put32Facts
<1>11. Frame(mem, mem', tt, tt + 5 * N)
  BY <1>4, <1>10, FrameWider
<1>12. Verify!TermInv'
  <2>1. (Verify!fq01)' = tt + N
    BY <1>4, <1>5 DEF Verify!fq01
  <2>2. QED
    BY <1>1, <1>2, <1>5, <1>6, <1>10, <2>1 DEF Verify!TermInv, Verify!InLoop, Verify!AfterS0,
       Verify!AfterDivide, Verify!AfterQ01, Verify!AfterQ00, Verify!AfterT1,
       Verify!AfterHash, ratio
<1>13. <<"divide", "s0">> \in Turns \ {<<"product", "sum">>, <<"sum", "compare">>}
  BY DEF Turns
<1>14. tt + 5 * N \in Int
  BY <1>4
<1>15. QED
  BY <1>1, <1>11, <1>12, <1>13, <1>14, TurnKept

\* t0 goes where q00 was.
LEMMA MakeT0Step ==
    ASSUME Verify!VerifyInv, Verify!MakeT0
    PROVE  Verify!VerifyInv'
<1>1. /\ Verify!From("s0", "t1 again") /\ UNCHANGED Verify!place
      /\ UNCHANGED <<i, norm, result>> /\ h' = h
  BY DEF Verify!MakeT0, Verify!Turn
<1>2. vpc = "s0" /\ vpc' = "t1 again"
  BY <1>1, Passed
<1>3. Verify!BufferInv /\ room >= Verify!Need
  <2>1. Verify!BufferInv /\ Verify!FlawInv
    BY DEF Verify!VerifyInv
  <2>2. QED
    BY <1>2, <2>1 DEF Verify!FlawInv, Verify!InLoop, Verify!AfterS0, Verify!AfterDivide,
       Verify!AfterQ01, Verify!AfterQ00, Verify!AfterT1, Verify!AfterHash,
       Verify!AfterDecode
<1>4. /\ Memory(mem) /\ tt \in Nat /\ N \in Nat /\ HN \in Nat \ {0} /\ N = 2 * HN
      /\ tt .. tt + 5 * N - 1 \subseteq DOMAIN mem
  BY <1>3, Layout, HalfFacts
<1>5. vsig' = vsig /\ vpub' = vpub /\ tt' = tt /\ room' = room /\ i' = i
  BY <1>1 DEF Verify!place
<1>6. h = Verify!TheH
  BY <1>2 DEF Verify!VerifyInv, Verify!TermInv, Verify!InLoop, Verify!AfterS0,
     Verify!AfterDivide, Verify!AfterQ01, Verify!AfterQ00, Verify!AfterT1,
     Verify!AfterHash
<1>7. /\ Verify!fq01 = tt + N /\ Verify!t0 = tt
  BY <1>3, <1>4, Layout
<1> DEFINE ratio == Verify!Ratio(Verify!FFT("q01"), Verify!FFT(Verify!TheT1), Verify!FFT("q00"))
<1>8. Verify!Holds32(mem, tt + N, ratio, N)
  BY <1>2, <1>7 DEF Verify!VerifyInv, Verify!TermInv
<1>9. mem' = Verify!Put16(mem, tt, Verify!TheT0, N)
  <2>1. Verify!Get32(mem, tt + N, N) = ratio
    BY <1>4, <1>8, Get32Fact
  <2>2. QED
    BY <1>6, <1>7, <2>1 DEF Verify!MakeT0, Verify!TheT0
<1>10. Frame(mem, mem', tt, tt + N) /\ Verify!Holds16(mem', tt, Verify!TheT0, N)
  <2>1. tt \in Int /\ tt .. tt + N - 1 \subseteq DOMAIN mem
    BY <1>4
  <2>2. QED
    BY <1>4, <1>9, <2>1, Put16Facts
<1>11. Frame(mem, mem', tt, tt + 5 * N)
  BY <1>4, <1>10, FrameWider
<1>12. Verify!TermInv'
  <2>1. (Verify!t0)' = tt
    BY <1>5 DEF Verify!t0
  <2>2. QED
    BY <1>1, <1>2, <1>5, <1>6, <1>10, <2>1 DEF Verify!TermInv, Verify!InLoop, Verify!AfterS0,
       Verify!AfterDivide, Verify!AfterQ01, Verify!AfterQ00, Verify!AfterT1,
       Verify!AfterHash
<1>13. <<"s0", "t1 again">> \in Turns \ {<<"product", "sum">>, <<"sum", "compare">>}
  BY DEF Turns
<1>14. tt + 5 * N \in Int
  BY <1>4
<1>15. QED
  BY <1>1, <1>11, <1>12, <1>13, <1>14, TurnKept

\* s1 is decoded or copied, and t1 is loaded from where it was.
LEMMA AgainT1Step ==
    ASSUME Verify!VerifyInv, Verify!AgainT1
    PROVE  Verify!VerifyInv'
<1>1. /\ Verify!From("t1 again", "inverse") /\ UNCHANGED Verify!place
      /\ UNCHANGED <<i, norm, result>> /\ h' = h
  BY DEF Verify!AgainT1, Verify!Turn
<1>2. vpc = "t1 again" /\ vpc' = "inverse"
  BY <1>1, Passed
<1>3. Verify!BufferInv /\ room >= Verify!Need
  <2>1. Verify!BufferInv /\ Verify!FlawInv
    BY DEF Verify!VerifyInv
  <2>2. QED
    BY <1>2, <2>1 DEF Verify!FlawInv, Verify!InLoop, Verify!AfterS0, Verify!AfterDivide,
       Verify!AfterQ01, Verify!AfterQ00, Verify!AfterT1, Verify!AfterHash,
       Verify!AfterDecode
<1>4. /\ Memory(mem) /\ tt \in Nat /\ N \in Nat /\ HN \in Nat \ {0} /\ N = 2 * HN
      /\ tt .. tt + 5 * N - 1 \subseteq DOMAIN mem
  BY <1>3, Layout, HalfFacts
<1>5. vsig' = vsig /\ vpub' = vpub /\ tt' = tt /\ room' = room /\ i' = i
  BY <1>1 DEF Verify!place
<1>6. h = Verify!TheH
  BY <1>2 DEF Verify!VerifyInv, Verify!TermInv, Verify!InLoop, Verify!AfterS0,
     Verify!AfterDivide, Verify!AfterQ01, Verify!AfterQ00, Verify!AfterT1,
     Verify!AfterHash
<1>7. /\ Verify!c2 = tt + 3 * N /\ Verify!UpperHalf(Verify!c2) = tt + 4 * N
      /\ Verify!t0 = tt
  BY <1>3, <1>4, Layout DEF Verify!UpperHalf
<1> DEFINE at == tt + 4 * N
           to == tt + 3 * N
           top == tt + 5 * N
           s1 == IF vsig = Verify!Encoded THEN "s1" ELSE Verify!Get16(mem, vsig, N)
           decoded_s1 == Verify!Put16(mem, at, "s1", N)
           narrow == Verify!Put16(decoded_s1, at, Verify!TheT1, N)
<1>8. s1 = "s1"
  <2>1. vsig # Verify!Encoded => Verify!HoldsSig(mem, vsig) /\ vsig \in Int
    BY <1>3 DEF Verify!BufferInv
  <2>2. N \in Nat \ {0}
    BY <1>4
  <2>3. QED
    BY <1>4, <2>1, <2>2, Get16Fact DEF Verify!HoldsSig
<1>9. mem' = Verify!LoadInto(narrow, to, at, N, N, i)
  BY <1>6, <1>7, <1>8 DEF Verify!AgainT1, Verify!TheT1
<1>10. /\ at \in Int /\ to \in Int /\ top \in Int /\ at + N = top /\ to + 2 * N = top
       /\ to <= at /\ at >= to + N /\ tt + N <= to
       /\ at .. at + N - 1 \subseteq DOMAIN mem /\ to .. to + 2 * N - 1 \subseteq DOMAIN mem
  BY <1>4
<1> HIDE DEF at, to, top
<1>11. Frame(mem, decoded_s1, at, top)
  BY <1>4, <1>10, Put16Facts
<1>12. Memory(decoded_s1) /\ DOMAIN decoded_s1 = DOMAIN mem
  BY <1>11 DEF Frame
<1> HIDE DEF decoded_s1
<1>13. Frame(decoded_s1, narrow, at, top) /\ Verify!Holds16(narrow, at, Verify!TheT1, N)
  BY <1>4, <1>10, <1>12, Put16Facts
<1>14. Memory(narrow) /\ DOMAIN narrow = DOMAIN mem
  BY <1>12, <1>13 DEF Frame
<1> HIDE DEF narrow
<1>15. /\ Frame(narrow, mem', to, top)
       /\ Verify!Holds32(mem', to, Verify!Transform(i, Verify!TheT1), N)
  <2>1. N \in Nat \ {0} /\ N <= N
    BY <1>4
  <2>2. to .. to + 2 * N - 1 \subseteq DOMAIN narrow
    BY <1>10, <1>14
  <2>3. QED
    BY <1>9, <1>10, <1>13, <1>14, <2>1, <2>2, LoadFacts
<1>16. Verify!Transform(i, Verify!TheT1) = Verify!NTT(i, Verify!TheT1)
  <2>1. i \in {1, 2}
    BY DEF Verify!VerifyInv, Verify!NormInv
  <2>2. QED
    BY <2>1 DEF Verify!Transform, Verify!Floating
<1>17. Frame(mem, mem', to, top)
  <2>1. Frame(mem, decoded_s1, to, top) /\ Frame(decoded_s1, narrow, to, top)
    BY <1>4, <1>10, <1>11, <1>12, <1>13, FrameWider
  <2>2. Frame(mem, narrow, to, top)
    BY <1>4, <1>10, <2>1, FrameTrans
  <2>3. QED
    BY <1>4, <1>10, <1>15, <2>2, FrameTrans
<1>18. Verify!Holds16(mem', tt, Verify!TheT0, N)
  <2>1. Verify!Holds16(mem, tt, Verify!TheT0, N)
    BY <1>2, <1>7 DEF Verify!VerifyInv, Verify!TermInv, Verify!InLoop
  <2>2. QED
    BY <1>4, <1>10, <1>17, <2>1, Kept16
<1>19. Frame(mem, mem', tt, tt + 5 * N)
  <2>1. Frame(mem, mem', tt, top)
    BY <1>4, <1>10, <1>17, FrameWider
  <2>2. QED
    BY <2>1 DEF top
<1>20. Verify!TermInv'
  <2>1. (Verify!t0)' = tt /\ (Verify!c2)' = to
    BY <1>5 DEF Verify!t0, Verify!c2, to
  <2>2. QED
    BY <1>1, <1>2, <1>5, <1>6, <1>15, <1>16, <1>18, <2>1 DEF Verify!TermInv, Verify!InLoop, Verify!AfterS0,
       Verify!AfterDivide, Verify!AfterQ01, Verify!AfterQ00, Verify!AfterT1,
       Verify!AfterHash
<1>21. <<"t1 again", "inverse">> \in Turns \ {<<"product", "sum">>, <<"sum", "compare">>}
  BY DEF Turns
<1>22. tt + 5 * N \in Int
  BY <1>4
<1>23. QED
  BY <1>1, <1>19, <1>20, <1>21, <1>22, TurnKept

\* q00 is loaded for the loop, between t0 and t1.
LEMMA LoadQ00Facts ==
    ASSUME Verify!BufferInv, room >= Verify!Need, i \in {1, 2},
           NEW m, Frame(mem, m, tt, tt + 5 * N)
    PROVE  /\ Frame(m, Verify!LoadQ00(m), tt + N, tt + 3 * N)
           /\ Verify!Holds32(Verify!LoadQ00(m), tt + N, Verify!NTT(i, "q00"), HN)
<1> DEFINE at == tt + 2 * N
           to == tt + N
           hi == tt + 3 * N
<1>1. /\ tt \in Nat /\ N \in Nat /\ HN \in Nat \ {0} /\ N = 2 * HN
      /\ Verify!c1 = to /\ Verify!UpperHalf(Verify!c1) = at
  <2>1. tt \in Nat /\ N \in Nat /\ HN \in Nat \ {0} /\ N = 2 * HN
    BY Layout, HalfFacts
  <2>2. Verify!c1 = to
    BY Layout
  <2>3. to + N = at
    BY <2>1
  <2>4. QED
    BY <2>1, <2>2, <2>3 DEF Verify!UpperHalf
<1>2. Verify!LoadQ00(m) = Verify!LoadInto(Verify!Fetch(m, "q00", HN, at), to,
                                          Verify!Source(0, at), HN, HN, i)
  BY <1>1 DEF Verify!LoadQ00, HN
<1>3. /\ at \in Int /\ to \in Int /\ hi \in Int /\ tt <= to /\ to + HN <= at
      /\ at + HN <= hi /\ HN <= HN /\ to + 2 * HN <= hi /\ hi <= tt + 5 * N
  BY <1>1
<1> HIDE DEF at, to, hi
<1>4. /\ Frame(m, Verify!LoadQ00(m), to, hi)
      /\ Verify!Holds32(Verify!LoadQ00(m), to, Verify!Transform(i, "q00"), HN)
  BY <1>1, <1>2, <1>3, LoadKey
<1>5. QED
  BY <1>4 DEF Verify!Transform, Verify!Floating, to, hi

\* 1/q00 is made where q00 is loaded.
LEMMA InvertStep ==
    ASSUME Verify!VerifyInv, Verify!Invert
    PROVE  Verify!VerifyInv'
<1>1. /\ Verify!From("inverse", "product") /\ UNCHANGED Verify!place
      /\ UNCHANGED <<i, norm, result>> /\ h' = h
  BY DEF Verify!Invert, Verify!Turn
<1>2. vpc = "inverse" /\ vpc' = "product"
  BY <1>1, Passed
<1>3. Verify!BufferInv /\ room >= Verify!Need
  <2>1. Verify!BufferInv /\ Verify!FlawInv
    BY DEF Verify!VerifyInv
  <2>2. QED
    BY <1>2, <2>1 DEF Verify!FlawInv, Verify!InLoop, Verify!AfterS0, Verify!AfterDivide,
       Verify!AfterQ01, Verify!AfterQ00, Verify!AfterT1, Verify!AfterHash,
       Verify!AfterDecode
<1>4. /\ Memory(mem) /\ tt \in Nat /\ N \in Nat /\ HN \in Nat \ {0} /\ N = 2 * HN
      /\ tt .. tt + 5 * N - 1 \subseteq DOMAIN mem
  BY <1>3, Layout, HalfFacts
<1>5. vsig' = vsig /\ vpub' = vpub /\ tt' = tt /\ room' = room /\ i' = i
  BY <1>1 DEF Verify!place
<1>6. h = Verify!TheH
  BY <1>2 DEF Verify!VerifyInv, Verify!TermInv, Verify!InLoop, Verify!AfterS0,
     Verify!AfterDivide, Verify!AfterQ01, Verify!AfterQ00, Verify!AfterT1,
     Verify!AfterHash
<1>7. Verify!c1 = tt + N /\ Verify!c2 = tt + 3 * N /\ Verify!t0 = tt
  BY <1>3, Layout
<1> DEFINE to == tt + N
           hi == tt + 3 * N
           m == Verify!LoadQ00(mem)
           inv == Verify!Inverted(Verify!NTT(i, "q00"))
           inverse == Verify!Put32(m, to, inv, HN)
<1>8. i \in {1, 2}
  BY DEF Verify!VerifyInv, Verify!NormInv
<1>9. Frame(mem, m, to, hi) /\ Verify!Holds32(m, to, Verify!NTT(i, "q00"), HN)
  <2>1. Frame(mem, mem, tt, tt + 5 * N)
    BY <1>4 DEF Frame
  <2>2. QED
    BY <1>3, <1>8, <2>1, LoadQ00Facts
<1>10. Memory(m) /\ DOMAIN m = DOMAIN mem
  BY <1>9 DEF Frame
<1> HIDE DEF m
<1>11. /\ to \in Int /\ hi \in Int /\ to + N \in Int
       /\ to + 2 * HN = to + N /\ (to + N) + 2 * HN = hi
       /\ to <= to + N /\ to + N <= hi /\ tt + N <= to /\ hi <= tt + 5 * N
       /\ to .. to + 2 * HN - 1 \subseteq DOMAIN mem
       /\ to + N .. (to + N) + 2 * HN - 1 \subseteq DOMAIN mem
  BY <1>4
<1> HIDE DEF to, hi
<1>12. mem' = Verify!Put32(inverse, to + N, Junk, HN)
  <2>1. Verify!Get32(m, to, HN) = Verify!NTT(i, "q00")
    BY <1>4, <1>9, <1>10, <1>11, Get32Fact
  <2>2. QED
    BY <1>7, <2>1 DEF Verify!Invert, m, to, HN
<1>13. /\ Frame(m, inverse, to, to + N) /\ Verify!Holds32(inverse, to, inv, HN)
  BY <1>4, <1>10, <1>11, Put32Facts
<1>14. Memory(inverse) /\ DOMAIN inverse = DOMAIN mem
  BY <1>10, <1>13 DEF Frame
<1> HIDE DEF inverse, inv
<1>15. Frame(inverse, mem', to + N, hi)
  BY <1>4, <1>11, <1>12, <1>14, Put32Facts
<1>16. Verify!Holds32(mem', to, inv, HN)
  BY <1>4, <1>11, <1>13, <1>15, Kept32
<1>17. Frame(mem, mem', to, hi)
  <2>1. Frame(m, inverse, to, hi) /\ Frame(inverse, mem', to, hi)
    BY <1>10, <1>11, <1>13, <1>14, <1>15, FrameWider
  <2>2. Frame(mem, inverse, to, hi)
    BY <1>4, <1>9, <1>11, <2>1, FrameTrans
  <2>3. QED
    BY <1>4, <1>11, <2>1, <2>2, FrameTrans
<1>18. /\ Verify!Holds16(mem', tt, Verify!TheT0, N)
       /\ Verify!Holds32(mem', hi, Verify!NTT(i, Verify!TheT1), N)
  <2>1. /\ Verify!Holds16(mem, tt, Verify!TheT0, N)
        /\ Verify!Holds32(mem, hi, Verify!NTT(i, Verify!TheT1), N)
    BY <1>2, <1>7 DEF Verify!VerifyInv, Verify!TermInv, Verify!InLoop, hi
  <2>2. QED
    BY <1>4, <1>11, <1>17, <2>1, Kept16, Kept32
<1>19. Frame(mem, mem', tt, tt + 5 * N)
  <2>1. tt <= to
    BY <1>4, <1>11
  <2>2. tt + 5 * N \in Int
    BY <1>4
  <2>3. QED
    BY <1>4, <1>11, <1>17, <2>1, <2>2, FrameWider
<1>20. Verify!TermInv'
  <2>1. (Verify!t0)' = tt /\ (Verify!c1)' = to /\ (Verify!c2)' = hi
    BY <1>5 DEF Verify!t0, Verify!c1, Verify!c2, to, hi
  <2>2. QED
    BY <1>1, <1>2, <1>5, <1>6, <1>16, <1>18, <2>1 DEF Verify!TermInv, Verify!InLoop, Verify!AfterS0,
       Verify!AfterDivide, Verify!AfterQ01, Verify!AfterQ00, Verify!AfterT1,
       Verify!AfterHash, inv, HN
<1>21. <<"inverse", "product">> \in Turns \ {<<"product", "sum">>, <<"sum", "compare">>}
  BY DEF Turns
<1>22. tt + 5 * N \in Int
  BY <1>4
<1>23. QED
  BY <1>1, <1>19, <1>20, <1>21, <1>22, TurnKept

-----------------------------------------------------------------------------
(***************************************************************************)
(* The steps that make a norm.                                             *)
(***************************************************************************)
\* A function on the first natural numbers is a sequence.
LEMMA Sequence ==
    ASSUME NEW s, NEW n \in Nat, s = [k \in 1 .. n |-> s[k]]
    PROVE  s \in Seq({s[k] : k \in 1 .. n}) /\ Len(s) = n
<1> DEFINE S == {s[k] : k \in 1 .. n}
<1>1. s \in [1 .. n -> S]
  <2>1. \A k \in 1 .. n : s[k] \in S
    OBVIOUS
  <2> HIDE DEF S
  <2>2. QED
    BY <2>1
<1> HIDE DEF S
<1>2. s \in Seq(S)
  BY <1>1, SeqDef
<1>3. DOMAIN s = 1 .. n /\ DOMAIN s = 1 .. Len(s) /\ Len(s) \in Nat
  BY <1>1, <1>2, LenProperties
<1>4. Len(s) = n
  BY <1>3
<1>5. QED
  BY <1>2, <1>4 DEF S

\* The first part of a norm is appended to the norms.
LEMMA Appended ==
    ASSUME NEW s, NEW n \in Nat, s = [k \in 1 .. n |-> s[k]], NEW e
    PROVE  /\ Append(s, e) = [k \in 1 .. n + 1 |-> Append(s, e)[k]]
           /\ Len(Append(s, e)) = n + 1
           /\ Append(s, e)[n + 1] = e
           /\ \A k \in 1 .. n : Append(s, e)[k] = s[k]
<1> DEFINE S == {s[k] : k \in 1 .. n} \cup {e}
           t == Append(s, e)
<1>1. s \in Seq(S) /\ Len(s) = n /\ e \in S
  <2>1. s \in Seq({s[k] : k \in 1 .. n}) /\ Len(s) = n
    BY Sequence
  <2>2. {s[k] : k \in 1 .. n} \subseteq S
    OBVIOUS
  <2>3. QED
    BY <2>1, <2>2, SeqMonotonic
<1> HIDE DEF S
<1>2. /\ t \in Seq(S) /\ Len(t) = n + 1 /\ t[n + 1] = e
      /\ \A k \in 1 .. n : t[k] = s[k]
  BY <1>1, AppendProperties
<1> HIDE DEF t
<1>3. t \in [1 .. n + 1 -> S]
  BY <1>2, LenProperties
<1>4. t = [k \in 1 .. n + 1 |-> t[k]]
  BY <1>3
<1>5. QED
  BY <1>2, <1>4 DEF t

\* The norm is completed in its place.
LEMMA Completed ==
    ASSUME NEW s, NEW n \in Nat, s = [k \in 1 .. n |-> s[k]], NEW e, NEW j \in 1 .. n,
           NEW t, t = [s EXCEPT ![j] = e]
    PROVE  /\ t = [k \in 1 .. n |-> t[k]] /\ Len(t) = n
           /\ t[j] = e /\ \A k \in 1 .. n : k # j => t[k] = s[k]
<1>1. DOMAIN s = 1 .. n
  OBVIOUS
<1>2. t = [k \in 1 .. n |-> IF k = j THEN e ELSE s[k]]
  BY <1>1
<1>3. t = [k \in 1 .. n |-> t[k]] /\ t[j] = e /\ \A k \in 1 .. n : k # j => t[k] = s[k]
  BY <1>2
<1>4. Len(t) = n
  BY <1>3, Sequence
<1>5. QED
  BY <1>3, <1>4

\* The product goes over t1, and that with q01 over 1/q00.
LEMMA MultiplyStep ==
    ASSUME Verify!VerifyInv, Verify!Multiply
    PROVE  Verify!VerifyInv'
<1>1. /\ Verify!From("product", "sum") /\ UNCHANGED Verify!place
      /\ i' = i /\ result' = result /\ h' = h
  BY DEF Verify!Multiply
<1>2. vpc = "product" /\ vpc' = "sum"
  BY <1>1, Passed
<1>3. Verify!BufferInv /\ room >= Verify!Need
  <2>1. Verify!BufferInv /\ Verify!FlawInv
    BY DEF Verify!VerifyInv
  <2>2. QED
    BY <1>2, <2>1 DEF Verify!FlawInv, Verify!InLoop, Verify!AfterS0, Verify!AfterDivide,
       Verify!AfterQ01, Verify!AfterQ00, Verify!AfterT1, Verify!AfterHash,
       Verify!AfterDecode
<1>4. /\ Memory(mem) /\ tt \in Nat /\ N \in Nat /\ HN \in Nat \ {0} /\ N = 2 * HN
      /\ tt .. tt + 5 * N - 1 \subseteq DOMAIN mem
  BY <1>3, Layout, HalfFacts
<1>5. vsig' = vsig /\ vpub' = vpub /\ tt' = tt /\ room' = room /\ i' = i
  BY <1>1 DEF Verify!place
<1>6. h = Verify!TheH
  BY <1>2 DEF Verify!VerifyInv, Verify!TermInv, Verify!InLoop, Verify!AfterS0,
     Verify!AfterDivide, Verify!AfterQ01, Verify!AfterQ00, Verify!AfterT1,
     Verify!AfterHash
<1>7. Verify!c1 = tt + N /\ Verify!c2 = tt + 3 * N /\ Verify!t0 = tt
      /\ Verify!UpperHalf(Verify!c1) = tt + 2 * N
  <2>1. Verify!c1 = tt + N /\ Verify!c2 = tt + 3 * N /\ Verify!t0 = tt
    BY <1>3, Layout
  <2>2. QED
    BY <1>4, <2>1 DEF Verify!UpperHalf
<1> DEFINE to == tt + N
           at == tt + 2 * N
           hi == tt + 3 * N
           t1 == Verify!NTT(i, Verify!TheT1)
           q00 == Verify!Inverted(Verify!NTT(i, "q00"))
           q01 == Verify!NTT(i, "q01")
           d == Verify!TheD(i)
           m == Verify!Put32(mem, hi, d, N)
           k == Verify!LoadInto(Verify!Fetch(m, "q01", N, at), to, Verify!Source(HN, at), N, N, i)
<1>8. i \in {1, 2}
  BY DEF Verify!VerifyInv, Verify!NormInv
<1>9. /\ Verify!Holds16(mem, tt, Verify!TheT0, N)
      /\ Verify!Holds32(mem, hi, t1, N)
      /\ Verify!Holds32(mem, to, q00, HN)
  BY <1>2, <1>7 DEF Verify!VerifyInv, Verify!TermInv, Verify!InLoop, HN
<1>10. /\ to \in Int /\ at \in Int /\ hi \in Int /\ tt <= to /\ to + N <= at /\ at + N <= hi
       /\ N <= N /\ to + 2 * N <= hi /\ to + 2 * N = hi /\ hi <= tt + 5 * N /\ tt <= hi
       /\ hi + 2 * N = tt + 5 * N /\ tt + N <= to /\ tt + 5 * N \in Int
       /\ to .. to + 2 * N - 1 \subseteq DOMAIN mem
       /\ hi .. hi + 2 * N - 1 \subseteq DOMAIN mem
       /\ N \in Nat \ {0}
  BY <1>4
<1>11. d = Verify!Times(t1, q00)
  BY DEF Verify!TheD
<1> HIDE DEF to, at, hi, t1, q00, d
<1>12. Verify!Get32(mem, hi, N) = t1 /\ Verify!Get32(mem, to, HN) = q00
  BY <1>4, <1>9, <1>10, Get32Fact
<1>13. /\ norm' = Append(norm, Verify!Trace(d, t1))
       /\ mem' = Verify!Put32(k, to, Verify!Times(Verify!Get32(k, to, N),
                                                  Verify!Get32(k, hi, N)), N)
  BY <1>7, <1>11, <1>12 DEF Verify!Multiply, to, at, hi, HN
<1>14. Frame(mem, m, hi, tt + 5 * N) /\ Verify!Holds32(m, hi, d, N)
  <2>1. Frame(mem, m, hi, hi + 2 * N) /\ Verify!Holds32(m, hi, d, N)
    BY <1>4, <1>10, Put32Facts
  <2> HIDE DEF m
  <2>2. QED
    BY <1>10, <2>1
<1>15. Memory(m) /\ DOMAIN m = DOMAIN mem
  BY <1>14 DEF Frame
<1> HIDE DEF m
<1>16. Frame(m, k, to, hi) /\ Verify!Holds32(k, to, q01, N)
  <2>1. Frame(mem, m, tt, tt + 5 * N)
    BY <1>4, <1>10, <1>14, FrameWider
  <2>2. Frame(m, k, to, hi) /\ Verify!Holds32(k, to, Verify!Transform(i, "q01"), N)
    BY <1>3, <1>4, <1>10, <2>1, LoadKey
  <2> HIDE DEF k
  <2>3. QED
    BY <1>8, <2>2 DEF Verify!Transform, Verify!Floating
<1>17. Memory(k) /\ DOMAIN k = DOMAIN mem
  BY <1>15, <1>16 DEF Frame
<1> HIDE DEF k, q01
<1>18. Verify!Holds32(k, hi, d, N)
  BY <1>4, <1>10, <1>14, <1>16, Kept32
<1>19. mem' = Verify!Put32(k, to, Verify!Times(q01, d), N)
  <2>1. Verify!Get32(k, to, N) = q01 /\ Verify!Get32(k, hi, N) = d
    BY <1>10, <1>16, <1>17, <1>18, Get32Fact
  <2>2. QED
    BY <1>13, <2>1
<1>20. Frame(k, mem', to, hi) /\ Verify!Holds32(mem', to, Verify!Times(q01, d), N)
  <2>1. Frame(k, mem', to, to + 2 * N) /\ Verify!Holds32(mem', to, Verify!Times(q01, d), N)
    BY <1>4, <1>10, <1>17, <1>19, Put32Facts
  <2>2. QED
    BY <1>10, <2>1
<1>21. Verify!Holds32(mem', hi, d, N)
  BY <1>4, <1>10, <1>18, <1>20, Kept32
<1>22. Frame(mem, mem', to, tt + 5 * N)
  <2>1. /\ Frame(mem, m, to, tt + 5 * N) /\ Frame(m, k, to, tt + 5 * N)
        /\ Frame(k, mem', to, tt + 5 * N)
    <3>1. to <= hi
      BY <1>4, <1>10
    <3>2. QED
      BY <1>4, <1>10, <1>14, <1>15, <1>16, <1>17, <1>20, <3>1, FrameWider
  <2>2. Frame(mem, k, to, tt + 5 * N)
    BY <1>4, <1>10, <2>1, FrameTrans
  <2>3. QED
    BY <1>4, <1>10, <2>1, <2>2, FrameTrans
<1>23. Verify!Holds16(mem', tt, Verify!TheT0, N)
  BY <1>4, <1>9, <1>10, <1>22, Kept16
<1>24. Verify!TermInv'
  <2>1. (Verify!t0)' = tt /\ (Verify!c1)' = to /\ (Verify!c2)' = hi
    BY <1>5 DEF Verify!t0, Verify!c1, Verify!c2, to, hi
  <2>2. (Verify!TheD(i))' = d
    BY <1>5 DEF Verify!TheD, d
  <2>3. QED
    BY <1>1, <1>2, <1>5, <1>6, <1>20, <1>21, <1>23, <2>1, <2>2 DEF Verify!TermInv, Verify!InLoop, Verify!AfterS0,
       Verify!AfterDivide, Verify!AfterQ01, Verify!AfterQ00, Verify!AfterT1,
       Verify!AfterHash, q01
<1>25. Verify!NormInv'
  <2>1. /\ norm = [j \in 1 .. i - 1 |-> norm[j]] /\ Len(norm) = i - 1
        /\ \A j \in 1 .. i - 1 : norm[j] = Verify!TheNorm(j)
    <3>1. /\ Len(norm) = i - 1 /\ norm = [j \in 1 .. Len(norm) |-> norm[j]]
          /\ \A j \in 1 .. Len(norm) : norm[j] = Verify!TheNorm(j)
      BY <1>2 DEF Verify!VerifyInv, Verify!NormInv
    <3>2. QED
      BY <3>1
  <2>2. i - 1 \in Nat /\ (i - 1) + 1 = i
    BY <1>8
  <2>3. /\ norm' = [j \in 1 .. i |-> norm'[j]] /\ Len(norm') = i
        /\ norm'[i] = Verify!Trace(d, t1)
        /\ \A j \in 1 .. i - 1 : norm'[j] = norm[j]
    <3> DEFINE e == Verify!Trace(d, t1)
    <3>1. norm' = Append(norm, e)
      BY <1>13
    <3> HIDE DEF e
    <3>2. /\ Append(norm, e) = [j \in 1 .. (i - 1) + 1 |-> Append(norm, e)[j]]
          /\ Len(Append(norm, e)) = (i - 1) + 1
          /\ Append(norm, e)[(i - 1) + 1] = e
          /\ \A j \in 1 .. i - 1 : Append(norm, e)[j] = norm[j]
      BY <2>1, <2>2, Appended
    <3>3. QED
      BY <2>2, <3>1, <3>2 DEF e
  <2>4. \A j \in 1 .. Len(norm') : j < i \/ vpc' # "sum" => norm'[j] = Verify!TheNorm(j)
    <3> SUFFICES ASSUME NEW j \in 1 .. i, j < i
                 PROVE  norm'[j] = Verify!TheNorm(j)
      BY <1>2, <2>3
    <3>1. j \in 1 .. i - 1
      BY <1>8
    <3>2. QED
      BY <2>1, <2>3, <3>1
  <2>5. norm'[i] = Verify!Trace(Verify!TheD(i), Verify!NTT(i, Verify!TheT1))
    BY <2>3 DEF d, t1
  <2>6. Len(norm') \in 0 .. 2 /\ i' \in {1, 2}
    BY <1>5, <1>8, <2>3
  <2>7. ~result'
    BY <1>1, <1>2 DEF Verify!VerifyInv, Verify!FlawInv
  <2>8. vpc' \notin Verify!Calling \ (Verify!AfterS0 \cup {"done"})
    BY <1>2 DEF Verify!AfterS0, Verify!InLoop
  <2>9. QED
    BY <1>2, <1>5, <2>3, <2>4, <2>5, <2>6, <2>7, <2>8 DEF Verify!NormInv
<1>26. Verify!BufferInv'
  <2>1. Frame(mem, mem', tt, tt + 5 * N)
    BY <1>4, <1>10, <1>22, FrameWider
  <2>2. QED
    BY <1>1, <1>3, <1>10, <2>1, BufferKept
<1>27. Verify!FlawInv'
  <2>1. <<"product", "sum">> \in Turns
    BY DEF Turns
  <2>2. QED
    BY <1>1, <1>3, <2>1, FlawsKept DEF Verify!VerifyInv
<1>28. vpc' \in Verify!Calling
  BY <1>2 DEF Verify!Calling, Verify!AfterDecode, Verify!AfterHash, Verify!AfterT1,
     Verify!AfterQ00, Verify!AfterQ01, Verify!AfterDivide, Verify!AfterS0, Verify!InLoop
<1>29. QED
  BY <1>24, <1>25, <1>26, <1>27, <1>28 DEF Verify!VerifyInv

\* The norm is completed with t0, and with q00 once more.
LEMMA NormStep ==
    ASSUME Verify!VerifyInv, Verify!Norm
    PROVE  Verify!VerifyInv'
<1>1. /\ Verify!From("sum", "compare") /\ UNCHANGED Verify!place
      /\ i' = i /\ result' = result /\ h' = h
  BY DEF Verify!Norm
<1>2. vpc = "sum" /\ vpc' = "compare"
  BY <1>1, Passed
<1>3. Verify!BufferInv /\ room >= Verify!Need
  <2>1. Verify!BufferInv /\ Verify!FlawInv
    BY DEF Verify!VerifyInv
  <2>2. QED
    BY <1>2, <2>1 DEF Verify!FlawInv, Verify!InLoop, Verify!AfterS0, Verify!AfterDivide,
       Verify!AfterQ01, Verify!AfterQ00, Verify!AfterT1, Verify!AfterHash,
       Verify!AfterDecode
<1>4. /\ Memory(mem) /\ tt \in Nat /\ N \in Nat /\ HN \in Nat \ {0} /\ N = 2 * HN
      /\ tt .. tt + 5 * N - 1 \subseteq DOMAIN mem
  BY <1>3, Layout, HalfFacts
<1>5. vsig' = vsig /\ vpub' = vpub /\ tt' = tt /\ room' = room /\ i' = i
  BY <1>1 DEF Verify!place
<1>6. h = Verify!TheH
  BY <1>2 DEF Verify!VerifyInv, Verify!TermInv, Verify!InLoop, Verify!AfterS0,
     Verify!AfterDivide, Verify!AfterQ01, Verify!AfterQ00, Verify!AfterT1,
     Verify!AfterHash
<1>7. Verify!c1 = tt + N /\ Verify!c2 = tt + 3 * N /\ Verify!t0 = tt
  BY <1>3, Layout
<1> DEFINE to == tt + N
           hi == tt + 3 * N
           top == tt + 5 * N
           t0 == Verify!NTT(i, Verify!TheT0)
           q01d == Verify!Times(Verify!NTT(i, "q01"), Verify!TheD(i))
           e == Verify!Plus(t0, q01d)
           q00 == Verify!NTT(i, "q00")
           t == Verify!Put32(mem, hi, t0, N)
           k == Verify!Put32(t, hi, e, N)
<1>8. i \in {1, 2}
  BY DEF Verify!VerifyInv, Verify!NormInv
<1>9. Verify!Holds16(mem, tt, Verify!TheT0, N) /\ Verify!Holds32(mem, to, q01d, N)
  BY <1>2, <1>7 DEF Verify!VerifyInv, Verify!TermInv, Verify!InLoop
<1>10. /\ to \in Int /\ hi \in Int /\ top \in Int /\ tt <= to /\ to <= hi /\ tt <= hi
       /\ to + 2 * N = hi /\ hi <= top /\ hi + 2 * N = top /\ tt + N <= to
       /\ to + 2 * HN <= hi
       /\ hi .. hi + 2 * N - 1 \subseteq DOMAIN mem
       /\ N \in Nat \ {0} /\ tt \in Int
  BY <1>4
<1> HIDE DEF to, hi, t0, q01d, e, q00
<1>11. Verify!Get16(mem, tt, N) = Verify!TheT0
  BY <1>4, <1>9, <1>10, Get16Fact
<1>12. Frame(mem, t, hi, top) /\ Verify!Holds32(t, hi, t0, N)
  <2>1. Frame(mem, t, hi, hi + 2 * N) /\ Verify!Holds32(t, hi, t0, N)
    BY <1>4, <1>10, Put32Facts
  <2> HIDE DEF t, top
  <2>2. QED
    BY <1>10, <2>1
<1>13. Memory(t) /\ DOMAIN t = DOMAIN mem
  BY <1>12 DEF Frame
<1> HIDE DEF t, top
<1>14. Verify!Get32(t, hi, N) = t0 /\ Verify!Get32(t, to, N) = q01d
  <2>1. Verify!Holds32(t, to, q01d, N)
    BY <1>4, <1>9, <1>10, <1>12, Kept32
  <2>2. QED
    BY <1>10, <1>12, <1>13, <2>1, Get32Fact
<1>15. Frame(t, k, hi, top) /\ Verify!Holds32(k, hi, e, N)
  <2>1. Frame(t, k, hi, hi + 2 * N) /\ Verify!Holds32(k, hi, e, N)
    BY <1>4, <1>10, <1>13, Put32Facts
  <2> HIDE DEF k
  <2>2. QED
    BY <1>10, <2>1
<1>16. Memory(k) /\ DOMAIN k = DOMAIN mem
  BY <1>13, <1>15 DEF Frame
<1>17. /\ mem' = Verify!LoadQ00(k)
       /\ norm' = [norm EXCEPT ![i] = Verify!NormOf(@, Verify!Get32(mem', to, HN),
                                                    Verify!Get32(mem', hi, N))]
  <2>1. /\ Verify!c1 = to /\ Verify!c2 = hi /\ Verify!t0 = tt
        /\ t = Verify!Put32(mem, hi, t0, N)
        /\ k = Verify!Put32(t, hi, e, N)
        /\ t0 = Verify!NTT(i, Verify!TheT0) /\ e = Verify!Plus(t0, q01d)
    BY <1>7 DEF to, hi, t, t0, e
  <2> HIDE DEF k
  <2>2. QED
    BY <1>11, <1>14, <2>1 DEF Verify!Norm, HN
<1> HIDE DEF k
<1>18. Frame(mem, k, hi, top)
  BY <1>4, <1>10, <1>12, <1>15, FrameTrans
<1>19. Frame(k, mem', to, hi) /\ Verify!Holds32(mem', to, q00, HN)
  <2>1. Frame(mem, k, tt, top)
    BY <1>4, <1>10, <1>18, FrameWider
  <2>2. QED
    BY <1>3, <1>8, <1>17, <2>1, LoadQ00Facts DEF top, to, hi, q00
<1>20. Memory(mem')
  BY <1>19 DEF Frame
<1>21. Verify!Holds32(mem', hi, e, N)
  BY <1>4, <1>10, <1>15, <1>19, Kept32
<1>22. Frame(mem, mem', to, top)
  <2>1. Frame(mem, k, to, top) /\ Frame(k, mem', to, top)
    BY <1>4, <1>10, <1>16, <1>18, <1>19, FrameWider
  <2>2. QED
    BY <1>4, <1>10, <2>1, FrameTrans
<1>23. Verify!TermInv'
  <2>1. (Verify!t0)' = tt
    BY <1>5 DEF Verify!t0
  <2>2. Verify!Holds16(mem', tt, Verify!TheT0, N)
    BY <1>4, <1>9, <1>10, <1>22, Kept16
  <2>3. QED
    BY <1>1, <1>2, <1>5, <1>6, <2>1, <2>2 DEF Verify!TermInv, Verify!InLoop, Verify!AfterS0,
       Verify!AfterDivide, Verify!AfterQ01, Verify!AfterQ00, Verify!AfterT1,
       Verify!AfterHash
<1>24. Verify!NormInv'
  <2>1. /\ norm = [j \in 1 .. i |-> norm[j]] /\ Len(norm) = i
        /\ norm[i] = Verify!Trace(Verify!TheD(i), Verify!NTT(i, Verify!TheT1))
        /\ \A j \in 1 .. i : j < i => norm[j] = Verify!TheNorm(j)
    <3>1. /\ Len(norm) = i /\ norm = [j \in 1 .. Len(norm) |-> norm[j]]
          /\ norm[i] = Verify!Trace(Verify!TheD(i), Verify!NTT(i, Verify!TheT1))
          /\ \A j \in 1 .. Len(norm) : j < i => norm[j] = Verify!TheNorm(j)
      BY <1>2 DEF Verify!VerifyInv, Verify!NormInv
    <3>2. QED
      BY <3>1
  <2>2. /\ Verify!Get32(mem', to, HN) = q00 /\ Verify!Get32(mem', hi, N) = e
    BY <1>4, <1>10, <1>19, <1>20, <1>21, Get32Fact
  <2>3. norm' = [norm EXCEPT ![i] = Verify!TheNorm(i)]
    <3>1. Verify!TheNorm(i) = Verify!NormOf(norm[i], q00, e)
      BY <2>1 DEF Verify!TheNorm, q00, e, t0, q01d
    <3>2. QED
      BY <1>17, <2>2, <3>1
  <2>4. /\ norm' = [j \in 1 .. i |-> norm'[j]] /\ Len(norm') = i
        /\ norm'[i] = Verify!TheNorm(i)
        /\ \A j \in 1 .. i : j # i => norm'[j] = norm[j]
    <3>1. i \in Nat /\ i \in 1 .. i
      BY <1>8
    <3>2. QED
      BY <2>1, <2>3, <3>1, Completed, SMTT(20)
  <2>5. \A j \in 1 .. Len(norm') : norm'[j] = Verify!TheNorm(j)
    <3> SUFFICES ASSUME NEW j \in 1 .. i PROVE norm'[j] = Verify!TheNorm(j)
      BY <2>4
    <3>1. CASE j = i
      BY <2>4, <3>1
    <3>2. CASE j # i
      <4>1. j < i
        BY <1>8, <3>2
      <4>2. QED
        BY <2>1, <2>4, <3>2, <4>1
    <3>3. QED
      BY <3>1, <3>2
  <2>6. Len(norm') \in 0 .. 2 /\ i' \in {1, 2}
    BY <1>5, <1>8, <2>4
  <2>7. ~result'
    BY <1>1, <1>2 DEF Verify!VerifyInv, Verify!FlawInv
  <2>8. vpc' \notin Verify!Calling \ (Verify!AfterS0 \cup {"done"})
    BY <1>2 DEF Verify!AfterS0, Verify!InLoop
  <2>9. QED
    BY <1>2, <1>5, <2>4, <2>5, <2>6, <2>7, <2>8 DEF Verify!NormInv
<1>25. Verify!BufferInv'
  <2>1. Frame(mem, mem', tt, top)
    BY <1>4, <1>10, <1>22, FrameWider
  <2>2. QED
    BY <1>1, <1>3, <1>10, <2>1, BufferKept
<1>26. Verify!FlawInv'
  <2>1. <<"sum", "compare">> \in Turns
    BY DEF Turns
  <2>2. QED
    BY <1>1, <1>3, <2>1, FlawsKept DEF Verify!VerifyInv
<1>27. vpc' \in Verify!Calling
  BY <1>2 DEF Verify!Calling, Verify!AfterDecode, Verify!AfterHash, Verify!AfterT1,
     Verify!AfterQ00, Verify!AfterQ01, Verify!AfterDivide, Verify!AfterS0, Verify!InLoop
<1>28. QED
  BY <1>23, <1>24, <1>25, <1>26, <1>27 DEF Verify!VerifyInv

-----------------------------------------------------------------------------
(***************************************************************************)
(* The steps that write nothing, and those in front of the buffer.         *)
(***************************************************************************)
\* The next modulus: t0 stays, and the norms so far.
LEMMA NextPrimeStep ==
    ASSUME Verify!VerifyInv, Verify!NextPrime
    PROVE  Verify!VerifyInv'
<1> USE DEF Verify!Calling, Verify!AfterDecode, Verify!AfterHash, Verify!AfterT1,
     Verify!AfterQ00, Verify!AfterQ01, Verify!AfterDivide, Verify!AfterS0, Verify!InLoop
<1>1. /\ vpc = "compare" /\ i = 1 /\ i' = 2 /\ vpc' = "t1 again"
      /\ UNCHANGED Verify!place /\ mem' = mem /\ h' = h /\ norm' = norm /\ result' = result
  BY DEF Verify!NextPrime
<1>2. /\ vsig' = vsig /\ vpub' = vpub /\ flaws' = flaws /\ tt' = tt /\ room' = room
  BY <1>1 DEF Verify!place
<1>3. Verify!BufferInv'
  BY <1>1, <1>2 DEF Verify!VerifyInv, Verify!BufferInv
<1>4. Verify!FlawInv'
  BY <1>1, <1>2 DEF Verify!VerifyInv, Verify!FlawInv
<1>5. Verify!TermInv'
  BY <1>1, <1>2 DEF Verify!VerifyInv, Verify!TermInv, Verify!t0
<1>6. Verify!NormInv'
  <2>1. /\ Len(norm) = 1 /\ norm = [k \in 1 .. Len(norm) |-> norm[k]]
        /\ \A k \in 1 .. Len(norm) : norm[k] = Verify!TheNorm(k)
        /\ ~result
    BY <1>1 DEF Verify!VerifyInv, Verify!NormInv, Verify!FlawInv
  <2>2. Len(norm) = 2 - 1 /\ Len(norm) \in 0 .. 2
    BY <2>1
  <2>3. QED
    BY <1>1, <2>1, <2>2 DEF Verify!NormInv
<1>7. QED
  BY <1>1, <1>3, <1>4, <1>5, <1>6 DEF Verify!VerifyInv

\* After the second modulus.
LEMMA CompareStep ==
    ASSUME Verify!VerifyInv, Verify!Compare
    PROVE  Verify!VerifyInv'
<1> USE DEF Verify!Calling, Verify!AfterDecode, Verify!AfterHash, Verify!AfterT1,
     Verify!AfterQ00, Verify!AfterQ01, Verify!AfterDivide, Verify!AfterS0, Verify!InLoop
<1>1. /\ Verify!From("compare", "bound") /\ i = 2 /\ i' = i
      /\ UNCHANGED Verify!place /\ mem' = mem /\ h' = h /\ norm' = norm /\ result' = result
  BY DEF Verify!Compare, Verify!Turn
<1>2. /\ vsig' = vsig /\ vpub' = vpub /\ flaws' = flaws /\ tt' = tt /\ room' = room
  BY <1>1 DEF Verify!place
<1>3. vpc = "compare" /\ vpc' = "bound" /\ "residues" \notin flaws
  BY <1>1, Passed
<1>4. Verify!BufferInv'
  BY <1>1, <1>2 DEF Verify!VerifyInv, Verify!BufferInv
<1>5. Verify!FlawInv'
  BY <1>1, <1>2, <1>3 DEF Verify!VerifyInv, Verify!FlawInv
<1>6. Verify!TermInv'
  BY <1>1, <1>2, <1>3 DEF Verify!VerifyInv, Verify!TermInv
<1>7. Verify!NormInv'
  BY <1>1, <1>3 DEF Verify!VerifyInv, Verify!NormInv
<1>8. QED
  BY <1>3, <1>4, <1>5, <1>6, <1>7 DEF Verify!VerifyInv

\* What is accepted has passed every check.
LEMMA AcceptStep ==
    ASSUME Verify!VerifyInv, Verify!Accept
    PROVE  Verify!VerifyInv'
<1>1. /\ Verify!From("bound", "done") /\ i' = i /\ result' = TRUE
      /\ UNCHANGED Verify!place /\ mem' = mem /\ h' = h /\ norm' = norm
  BY DEF Verify!Accept
<1>2. /\ vsig' = vsig /\ vpub' = vpub /\ flaws' = flaws /\ tt' = tt /\ room' = room
  BY <1>1 DEF Verify!place
<1>3. vpc = "bound" /\ vpc' = "done" /\ "bound" \notin flaws
  BY <1>1, Passed
<1>4. Verify!BufferInv'
  BY <1>1, <1>2 DEF Verify!VerifyInv, Verify!BufferInv
<1>5. flaws = {} /\ room >= Verify!Need
  <2>1. /\ flaws \subseteq Verify!Flaws /\ flaws \cap Verify!SigFlaws = {}
        /\ "order" \notin flaws /\ flaws \cap {"head", "q00"} = {}
        /\ flaws \cap {"q01", "padding"} = {} /\ "division" \notin flaws
        /\ "s0" \notin flaws /\ "residues" \notin flaws
        /\ room >= Verify!Need
    BY <1>3 DEF Verify!VerifyInv, Verify!FlawInv, Verify!Calling, Verify!AfterDecode, Verify!AfterHash, Verify!AfterT1,
     Verify!AfterQ00, Verify!AfterQ01, Verify!AfterDivide, Verify!AfterS0, Verify!InLoop
  <2>2. QED
    BY <1>3, <2>1 DEF Verify!Flaws, Verify!SigFlaws, Verify!PubFlaws
<1>6. Verify!FlawInv'
  BY <1>1, <1>2, <1>3, <1>5 DEF Verify!FlawInv, Verify!Need, Verify!Flaws, Verify!Calling, Verify!AfterDecode, Verify!AfterHash, Verify!AfterT1,
     Verify!AfterQ00, Verify!AfterQ01, Verify!AfterDivide, Verify!AfterS0, Verify!InLoop
<1>7. Verify!TermInv'
  BY <1>3 DEF Verify!TermInv, Verify!Calling, Verify!AfterDecode, Verify!AfterHash, Verify!AfterT1,
     Verify!AfterQ00, Verify!AfterQ01, Verify!AfterDivide, Verify!AfterS0, Verify!InLoop
<1>8. Verify!NormInv'
  BY <1>1, <1>3 DEF Verify!VerifyInv, Verify!NormInv, Verify!Calling, Verify!AfterDecode, Verify!AfterHash, Verify!AfterT1,
     Verify!AfterQ00, Verify!AfterQ01, Verify!AfterDivide, Verify!AfterS0, Verify!InLoop
<1>9. QED
  BY <1>3, <1>4, <1>6, <1>7, <1>8 DEF Verify!VerifyInv, Verify!Calling

\* What is rejected has a flaw, or less room than it needs.
LEMMA RejectStep ==
    ASSUME Verify!VerifyInv, Verify!Reject
    PROVE  Verify!VerifyInv'
<1>1. /\ Verify!Fails /\ vpc' = "done" /\ i' = i /\ result' = result
      /\ UNCHANGED Verify!place /\ mem' = mem /\ h' = h /\ norm' = norm
  BY DEF Verify!Reject
<1>2. /\ vsig' = vsig /\ vpub' = vpub /\ flaws' = flaws /\ tt' = tt /\ room' = room
  BY <1>1 DEF Verify!place
<1>3. Verify!BufferInv'
  BY <1>1, <1>2 DEF Verify!VerifyInv, Verify!BufferInv
<1>4. vpc # "done" /\ vpc # "sum"
  BY <1>1 DEF Verify!Fails, Verify!Checked
<1>5. ~result
  BY <1>4 DEF Verify!VerifyInv, Verify!FlawInv
<1>6. ~(flaws = {} /\ room >= Verify!Need)
  <2>1. CASE flaws \cap Verify!Checked # {}
    BY <2>1
  <2>2. CASE room < Verify!Need
    <3>1. room \in Nat /\ Verify!Need = 5 * N /\ N \in Nat
      BY Layout, HalfFacts DEF Verify!VerifyInv
    <3>2. QED
      BY <2>2, <3>1
  <2>3. QED
    BY <1>1, <2>1, <2>2 DEF Verify!Fails
<1>7. Verify!FlawInv'
  BY <1>1, <1>2, <1>5, <1>6 DEF Verify!VerifyInv, Verify!FlawInv, Verify!Need, Verify!Calling, Verify!AfterDecode, Verify!AfterHash, Verify!AfterT1,
     Verify!AfterQ00, Verify!AfterQ01, Verify!AfterDivide, Verify!AfterS0, Verify!InLoop
<1>8. Verify!TermInv'
  BY <1>1 DEF Verify!TermInv, Verify!Calling, Verify!AfterDecode, Verify!AfterHash, Verify!AfterT1,
     Verify!AfterQ00, Verify!AfterQ01, Verify!AfterDivide, Verify!AfterS0, Verify!InLoop
<1>9. Verify!NormInv'
  <2>1. /\ i \in {1, 2}
        /\ norm = [k \in 1 .. Len(norm) |-> norm[k]] /\ Len(norm) \in 0 .. 2
        /\ \A k \in 1 .. Len(norm) : norm[k] = Verify!TheNorm(k)
    BY <1>4 DEF Verify!VerifyInv, Verify!NormInv
  <2>2. QED
    BY <1>1, <1>5, <2>1 DEF Verify!NormInv, Verify!Calling, Verify!AfterDecode, Verify!AfterHash, Verify!AfterT1,
     Verify!AfterQ00, Verify!AfterQ01, Verify!AfterDivide, Verify!AfterS0, Verify!InLoop
<1>10. QED
  BY <1>1, <1>3, <1>7, <1>8, <1>9 DEF Verify!VerifyInv, Verify!Calling

\* Rounding up makes no length less.
LEMMA RoundedUp ==
    ASSUME NEW length \in Nat
    PROVE  Verify!RoundUp(length) \in Nat /\ length <= Verify!RoundUp(length)
<1>1. (-length) % Round \in Nat
  BY HalfFacts
<1>2. QED
  BY <1>1 DEF Verify!RoundUp

\* The key is decoded in front of the buffer, which is what is left of it.
LEMMA PubFirstStep ==
    ASSUME Verify!VerifyInv, Verify!PubFirst
    PROVE  Verify!VerifyInv'
<1>1. /\ Verify!From("pub", "sig")
      /\ i' = i /\ vsig' = vsig /\ flaws' = flaws /\ h' = h /\ norm' = norm
      /\ result' = result
  BY DEF Verify!PubFirst
<1>2. vpc = "pub" /\ vpc' = "sig"
  BY <1>1, Passed
<1>3. Verify!BufferInv /\ ~result
  BY <1>2 DEF Verify!VerifyInv, Verify!FlawInv
<1>4. /\ Memory(mem) /\ tt \in Nat /\ room \in Nat /\ Verify!Need \in Nat
      /\ DOMAIN mem = 0 .. tt + room - 1 \cup Verify!Callers
      /\ Verify!PubLen \in Nat
  BY <1>3, Layout, HalfFacts DEF Verify!BufferInv
<1>5. ASSUME Verify!FastPub
      PROVE  Verify!BufferInv' /\ Verify!FlawInv'
  <2> DEFINE length == Verify!RoundUp(Verify!PubLen)
             put == Verify!PutPubHash(mem, tt)
             end == tt + Verify!PubLen
  <2>1. /\ mem' = put /\ vpub' = tt /\ tt' = tt + length /\ room' = room - length
        /\ room >= Verify!Need + length
    BY <1>5 DEF Verify!PubFirst, Verify!FastPub
  <2>2. length \in Nat /\ Verify!PubLen <= length
    BY <1>4, RoundedUp
  <2> HIDE DEF length
  <2>3. /\ tt' \in Nat /\ room' \in Nat /\ tt' + room' = tt + room
        /\ end <= tt' /\ end \in Int
        /\ tt .. end - 1 \subseteq DOMAIN mem
    BY <1>4, <2>1, <2>2
  <2>4. Frame(mem, put, tt, end) /\ Verify!HoldsPub(put, tt)
    <3>1. tt .. tt + Verify!PubLen - 1 \subseteq DOMAIN mem
      BY <1>4, <2>3
    <3>2. QED
      BY <1>4, <3>1, PutPubFacts
  <2>5. Memory(put) /\ DOMAIN put = DOMAIN mem
    BY <2>4 DEF Frame
  <2> HIDE DEF put, end
  <2>6. mem' = [c \in 0 .. tt' + room' - 1 \cup Verify!Callers |-> mem'[c]]
    BY <1>4, <2>1, <2>3, <2>5 DEF Memory
  <2>7. /\ Verify!HoldsPub(put, Verify!CallersPub)
        /\ Verify!HoldsSig(put, Verify!CallersSig)
    BY <1>3, <2>3, <2>4, Layout, KeptPub, KeptSig DEF Verify!BufferInv
  <2>8. vsig # Verify!Encoded => /\ vsig + Verify!SigLen <= tt'
                                     /\ Verify!HoldsSig(put, vsig)
    <3>1. tt <= tt'
      BY <1>4, <2>1, <2>2
    <3>2. ASSUME vsig # Verify!Encoded
          PROVE  vsig + Verify!SigLen <= tt /\ Verify!HoldsSig(put, vsig)
      BY <1>3, <2>3, <2>4, <3>2, Layout, KeptPub, KeptSig DEF Verify!BufferInv
    <3>3. QED
      BY <1>3, <1>4, <2>3, <3>1, <3>2, Layout
  <2>9. Verify!BufferInv'
    <3>1. vsig' \in Int /\ vpub' \in Int /\ vsig' = vsig
      BY <1>1, <1>3, <1>4, <2>1, Layout
    <3>2. vpub' + Verify!PubLen <= tt' /\ Verify!HoldsPub(mem', vpub')
      BY <2>1, <2>3, <2>4 DEF end
    <3>3. mem' = put
      BY <2>1
    <3>4. QED
      BY <2>3, <2>6, <2>7, <2>8, <3>1, <3>2, <3>3 DEF Verify!BufferInv
  <2>10. Verify!FlawInv'
    <3>1. flaws \cap Verify!PubFlaws = {}
      BY <1>1, <1>5, Passed
    <3>2. QED
      BY <1>1, <1>2, <1>3, <3>1 DEF Verify!VerifyInv, Verify!FlawInv, Verify!Calling, Verify!AfterDecode, Verify!AfterHash, Verify!AfterT1,
     Verify!AfterQ00, Verify!AfterQ01, Verify!AfterDivide, Verify!AfterS0, Verify!InLoop
  <2>11. QED
    BY <2>9, <2>10
<1>6. ASSUME ~Verify!FastPub
      PROVE  Verify!BufferInv' /\ Verify!FlawInv'
  <2>1. mem' = mem /\ vpub' = vpub /\ tt' = tt /\ room' = room
    BY <1>6 DEF Verify!PubFirst
  <2>2. Verify!BufferInv'
    BY <1>1, <1>3, <2>1 DEF Verify!BufferInv
  <2>3. Verify!FlawInv'
    BY <1>1, <1>2, <1>3, <2>1 DEF Verify!VerifyInv, Verify!FlawInv, Verify!Calling, Verify!AfterDecode, Verify!AfterHash, Verify!AfterT1,
     Verify!AfterQ00, Verify!AfterQ01, Verify!AfterDivide, Verify!AfterS0, Verify!InLoop
  <2>4. QED
    BY <2>2, <2>3
<1>7. Verify!TermInv'
  BY <1>2 DEF Verify!TermInv, Verify!Calling, Verify!AfterDecode, Verify!AfterHash, Verify!AfterT1,
     Verify!AfterQ00, Verify!AfterQ01, Verify!AfterDivide, Verify!AfterS0, Verify!InLoop
<1>8. Verify!NormInv'
  BY <1>1, <1>2, <1>3 DEF Verify!VerifyInv, Verify!NormInv, Verify!Calling, Verify!AfterDecode, Verify!AfterHash, Verify!AfterT1,
     Verify!AfterQ00, Verify!AfterQ01, Verify!AfterDivide, Verify!AfterS0, Verify!InLoop
<1>9. vpc' \in Verify!Calling
  BY <1>2 DEF Verify!Calling
<1>10. QED
  BY <1>5, <1>6, <1>7, <1>8, <1>9 DEF Verify!VerifyInv

\* The signature is decoded in front of the buffer, which is what is left of it.
LEMMA SigFirstStep ==
    ASSUME Verify!VerifyInv, Verify!SigFirst
    PROVE  Verify!VerifyInv'
<1>1. /\ Verify!From("sig", "decode")
      /\ i' = i /\ vpub' = vpub /\ flaws' = flaws /\ h' = h /\ norm' = norm
      /\ result' = result
  BY DEF Verify!SigFirst
<1>2. vpc = "sig" /\ vpc' = "decode"
  BY <1>1, Passed
<1>3. Verify!BufferInv /\ ~result
  BY <1>2 DEF Verify!VerifyInv, Verify!FlawInv
<1>4. /\ Memory(mem) /\ tt \in Nat /\ room \in Nat /\ Verify!Need \in Nat
      /\ DOMAIN mem = 0 .. tt + room - 1 \cup Verify!Callers
      /\ Verify!SigLen \in Nat
  BY <1>3, Layout, HalfFacts DEF Verify!BufferInv
<1>5. ASSUME Verify!FastSig
      PROVE  Verify!BufferInv' /\ Verify!FlawInv'
  <2> DEFINE length == Verify!RoundUp(Verify!SigLen)
             put == Verify!PutSig(mem, tt)
             end == tt + Verify!SigLen
  <2>1. /\ mem' = put /\ vsig' = tt /\ tt' = tt + length /\ room' = room - length
        /\ room >= Verify!Need + length
    BY <1>5 DEF Verify!SigFirst, Verify!FastSig
  <2>2. length \in Nat /\ Verify!SigLen <= length
    BY <1>4, RoundedUp
  <2> HIDE DEF length
  <2>3. /\ tt' \in Nat /\ room' \in Nat /\ tt' + room' = tt + room
        /\ end <= tt' /\ end \in Int
        /\ tt .. end - 1 \subseteq DOMAIN mem
    BY <1>4, <2>1, <2>2
  <2>4. Frame(mem, put, tt, end) /\ Verify!HoldsSig(put, tt)
    <3>1. tt .. tt + Verify!SigLen - 1 \subseteq DOMAIN mem
      BY <1>4, <2>3
    <3>2. QED
      BY <1>4, <3>1, PutSigFacts
  <2>5. Memory(put) /\ DOMAIN put = DOMAIN mem
    BY <2>4 DEF Frame
  <2> HIDE DEF put, end
  <2>6. mem' = [c \in 0 .. tt' + room' - 1 \cup Verify!Callers |-> mem'[c]]
    BY <1>4, <2>1, <2>3, <2>5 DEF Memory
  <2>7. /\ Verify!HoldsPub(put, Verify!CallersPub)
        /\ Verify!HoldsSig(put, Verify!CallersSig)
    BY <1>3, <2>3, <2>4, Layout, KeptPub, KeptSig DEF Verify!BufferInv
  <2>8. vpub # Verify!Encoded => /\ vpub + Verify!PubLen <= tt'
                                     /\ Verify!HoldsPub(put, vpub)
    <3>1. tt <= tt'
      BY <1>4, <2>1, <2>2
    <3>2. ASSUME vpub # Verify!Encoded
          PROVE  vpub + Verify!PubLen <= tt /\ Verify!HoldsPub(put, vpub)
      BY <1>3, <2>3, <2>4, <3>2, Layout, KeptPub, KeptSig DEF Verify!BufferInv
    <3>3. QED
      BY <1>3, <1>4, <2>3, <3>1, <3>2, Layout
  <2>9. Verify!BufferInv'
    <3>1. vpub' \in Int /\ vsig' \in Int /\ vpub' = vpub
      BY <1>1, <1>3, <1>4, <2>1, Layout
    <3>2. vsig' + Verify!SigLen <= tt' /\ Verify!HoldsSig(mem', vsig')
      BY <2>1, <2>3, <2>4 DEF end
    <3>3. mem' = put
      BY <2>1
    <3>4. QED
      BY <2>3, <2>6, <2>7, <2>8, <3>1, <3>2, <3>3 DEF Verify!BufferInv
  <2>10. Verify!FlawInv'
    <3>1. flaws \cap Verify!SigFlaws = {}
      BY <1>1, <1>5, Passed
    <3>2. QED
      BY <1>1, <1>2, <1>3, <3>1 DEF Verify!VerifyInv, Verify!FlawInv, Verify!Calling, Verify!AfterDecode, Verify!AfterHash, Verify!AfterT1,
     Verify!AfterQ00, Verify!AfterQ01, Verify!AfterDivide, Verify!AfterS0, Verify!InLoop
  <2>11. QED
    BY <2>9, <2>10
<1>6. ASSUME ~Verify!FastSig
      PROVE  Verify!BufferInv' /\ Verify!FlawInv'
  <2>1. mem' = mem /\ vsig' = vsig /\ tt' = tt /\ room' = room
    BY <1>6 DEF Verify!SigFirst
  <2>2. Verify!BufferInv'
    BY <1>1, <1>3, <2>1 DEF Verify!BufferInv
  <2>3. Verify!FlawInv'
    BY <1>1, <1>2, <1>3, <2>1 DEF Verify!VerifyInv, Verify!FlawInv, Verify!Calling, Verify!AfterDecode, Verify!AfterHash, Verify!AfterT1,
     Verify!AfterQ00, Verify!AfterQ01, Verify!AfterDivide, Verify!AfterS0, Verify!InLoop
  <2>4. QED
    BY <2>2, <2>3
<1>7. Verify!TermInv'
  BY <1>2 DEF Verify!TermInv, Verify!Calling, Verify!AfterDecode, Verify!AfterHash, Verify!AfterT1,
     Verify!AfterQ00, Verify!AfterQ01, Verify!AfterDivide, Verify!AfterS0, Verify!InLoop
<1>8. Verify!NormInv'
  BY <1>1, <1>2, <1>3 DEF Verify!VerifyInv, Verify!NormInv, Verify!Calling, Verify!AfterDecode, Verify!AfterHash, Verify!AfterT1,
     Verify!AfterQ00, Verify!AfterQ01, Verify!AfterDivide, Verify!AfterS0, Verify!InLoop
<1>9. vpc' \in Verify!Calling
  BY <1>2 DEF Verify!Calling
<1>10. QED
  BY <1>5, <1>6, <1>7, <1>8, <1>9 DEF Verify!VerifyInv

-----------------------------------------------------------------------------
(***************************************************************************)
(* The calls.                                                              *)
(***************************************************************************)
\* A call finds in the caller's memory what the caller has decoded.
LEMMA CallFacts ==
    ASSUME NEW size \in Nat, NEW skew \in Nat, skew <= size, Verify!Call(size, skew),
           flaws' \subseteq Verify!Flaws
    PROVE  Verify!VerifyInv'
<1> DEFINE p == Verify!CallersPub
           s == Verify!CallersSig
           blank == [c \in 0 .. size - 1 \cup Verify!Callers |-> <<Junk, 0, "all">>]
           key == Verify!PutPubHash(blank, p)
           both == Verify!PutSig(key, s)
<1>1. /\ vpc' = "pub" /\ i' = 1
      /\ vsig' \in {Verify!Encoded, s} /\ vpub' \in {Verify!Encoded, p}
      /\ vsig' # Verify!Encoded => flaws' \cap Verify!SigFlaws = {}
      /\ vpub' # Verify!Encoded => flaws' \cap Verify!PubFlaws = {}
      /\ tt' = skew /\ room' = size - skew
      /\ h' = Junk /\ norm' = <<>> /\ result' = FALSE
  BY DEF Verify!Call
<1>2. mem' = both
  BY Zenon DEF Verify!Call
<1>3. /\ Verify!PubLen \in Nat /\ Verify!SigLen \in Nat /\ Verify!Encoded = -1
  BY HalfFacts DEF Verify!PubLen, Verify!SigLen, Verify!Encoded, Verify!HN, HN
<1>4. /\ p \in Int /\ s \in Int /\ p + Verify!PubLen = -1 /\ s + Verify!SigLen = p
  BY <1>3 DEF Verify!CallersPub, Verify!CallersSig
<1>5. /\ Verify!Callers \subseteq Int
      /\ p .. p + Verify!PubLen - 1 \subseteq Verify!Callers
      /\ s .. s + Verify!SigLen - 1 \subseteq Verify!Callers
  BY <1>3, <1>4 DEF Verify!Callers
<1>6. Memory(blank) /\ DOMAIN blank = 0 .. size - 1 \cup Verify!Callers
  BY <1>5 DEF Memory
<1> HIDE DEF p, s, blank
<1>7. Frame(blank, key, p, p + Verify!PubLen) /\ Verify!HoldsPub(key, p)
  <2>1. p .. p + Verify!PubLen - 1 \subseteq DOMAIN blank
    BY <1>5, <1>6
  <2>2. QED
    BY <1>4, <1>6, <2>1, PutPubFacts
<1>8. Memory(key) /\ DOMAIN key = DOMAIN blank
  BY <1>7 DEF Frame
<1> HIDE DEF key
<1>9. Frame(key, both, s, s + Verify!SigLen) /\ Verify!HoldsSig(both, s)
  <2>1. s .. s + Verify!SigLen - 1 \subseteq DOMAIN key
    BY <1>5, <1>6, <1>8
  <2>2. QED
    BY <1>4, <1>8, <2>1, PutSigFacts
<1>10. Memory(both) /\ DOMAIN both = DOMAIN blank
  BY <1>8, <1>9 DEF Frame
<1> HIDE DEF both
<1>11. Verify!HoldsPub(both, p)
  BY <1>3, <1>4, <1>7, <1>9, KeptPub
<1>12. Verify!BufferInv'
  <2>1. tt' \in Nat /\ room' \in Nat /\ tt' + room' = size
    BY <1>1
  <2>2. mem' = [c \in 0 .. tt' + room' - 1 \cup Verify!Callers |-> mem'[c]]
    BY <1>2, <1>6, <1>10, <2>1 DEF Memory
  <2>3. vsig' \in Int /\ vpub' \in Int
    BY <1>1, <1>3, <1>4
  <2>4. /\ vsig' # Verify!Encoded => vsig' + Verify!SigLen <= tt' /\ Verify!HoldsSig(mem', vsig')
        /\ vpub' # Verify!Encoded => vpub' + Verify!PubLen <= tt' /\ Verify!HoldsPub(mem', vpub')
    <3>1. 0 <= tt' /\ tt' \in Int
      BY <1>1
    <3>2. s + Verify!SigLen <= tt' /\ p + Verify!PubLen <= tt'
      BY <1>3, <1>4, <3>1
    <3>3. vsig' # Verify!Encoded => vsig' = s
      BY <1>1
    <3>4. vpub' # Verify!Encoded => vpub' = p
      BY <1>1
    <3>5. QED
      BY <1>2, <1>9, <1>11, <3>2, <3>3, <3>4
  <2>5. Verify!HoldsPub(mem', Verify!CallersPub) /\ Verify!HoldsSig(mem', Verify!CallersSig)
    BY <1>2, <1>9, <1>11 DEF p, s
  <2>6. QED
    BY <2>1, <2>2, <2>3, <2>4, <2>5 DEF Verify!BufferInv
<1>13. Verify!FlawInv'
  BY <1>1 DEF Verify!FlawInv, Verify!Calling, Verify!AfterDecode, Verify!AfterHash, Verify!AfterT1,
     Verify!AfterQ00, Verify!AfterQ01, Verify!AfterDivide, Verify!AfterS0, Verify!InLoop
<1>14. Verify!TermInv'
  BY <1>1 DEF Verify!TermInv, Verify!Calling, Verify!AfterDecode, Verify!AfterHash, Verify!AfterT1,
     Verify!AfterQ00, Verify!AfterQ01, Verify!AfterDivide, Verify!AfterS0, Verify!InLoop
<1>15. Verify!NormInv'
  <2>1. Len(<<>>) = 0 /\ <<>> = [k \in 1 .. 0 |-> <<>>[k]]
    OBVIOUS
  <2>2. QED
    BY <1>1, <2>1 DEF Verify!NormInv, Verify!Calling, Verify!AfterDecode, Verify!AfterHash, Verify!AfterT1,
     Verify!AfterQ00, Verify!AfterQ01, Verify!AfterDivide, Verify!AfterS0, Verify!InLoop
<1>16. vpc' \in Verify!Calling
  BY <1>1 DEF Verify!Calling
<1>17. QED
  BY <1>12, <1>13, <1>14, <1>15, <1>16 DEF Verify!VerifyInv

\* A step of verification keeps the invariant, and looks for the same flaws in
\* the same bytes.
LEMMA VerifyStep ==
    ASSUME ReceiveInv, Verify!Step, given' = given
    PROVE  ReceiveInv'
<1>1. vpc # "rest" /\ vpc' # "rest" /\ flaws' = flaws
  <2> USE DEF Verify!place, Verify!Turn
  <2>1. CASE Verify!Reject
    BY <2>1 DEF Verify!Reject, Verify!Fails, Verify!Checked
  <2>2. CASE Verify!PubFirst \/ Verify!SigFirst
    BY <2>2 DEF Verify!PubFirst, Verify!SigFirst, Verify!From
  <2>3. CASE \/ Verify!Decode \/ Verify!Hash \/ Verify!MakeT1 \/ Verify!MakeQ00
             \/ Verify!MakeQ01 \/ Verify!Divide \/ Verify!MakeT0
    BY <2>3 DEF Verify!Decode, Verify!Hash, Verify!MakeT1, Verify!MakeQ00,
       Verify!MakeQ01, Verify!Divide, Verify!MakeT0, Verify!From
  <2>4. CASE \/ Verify!AgainT1 \/ Verify!Invert \/ Verify!Multiply \/ Verify!Norm
    BY <2>4 DEF Verify!AgainT1, Verify!Invert, Verify!Multiply, Verify!Norm, Verify!From
  <2>5. CASE Verify!NextPrime \/ Verify!Compare \/ Verify!Accept
    BY <2>5 DEF Verify!NextPrime, Verify!Compare, Verify!Accept, Verify!From
  <2>6. QED
    BY <2>1, <2>2, <2>3, <2>4, <2>5 DEF Verify!Step
<1>2. Verify!VerifyInv /\ given \in Pairs /\ Flawed(FALSE, given) \subseteq flaws
  BY <1>1 DEF ReceiveInv
<1>3. Verify!VerifyInv'
  BY <1>2, RejectStep, PubFirstStep, SigFirstStep, DecodeStep, HashStep, MakeT1Step,
     MakeQ00Step, MakeQ01Step, DivideStep, MakeT0Step, AgainT1Step, InvertStep,
     MultiplyStep, NormStep, NextPrimeStep, CompareStep, AcceptStep
     DEF Verify!Step
<1>4. Flawed(FALSE, given') = Flawed(FALSE, given)
  OBVIOUS
<1>5. QED
  BY <1>1, <1>2, <1>3, <1>4 DEF ReceiveInv

\* What does not concern verification.
LEMMA ElsewhereStep ==
    ASSUME ReceiveInv, UNCHANGED verifyVars
    PROVE  ReceiveInv'
<1>1. /\ vpc' = vpc /\ i' = i /\ vsig' = vsig /\ vpub' = vpub /\ flaws' = flaws
      /\ tt' = tt /\ room' = room /\ mem' = mem /\ h' = h /\ norm' = norm
      /\ result' = result /\ given' = given
  BY DEF verifyVars
<1>2. CASE vpc = "rest"
  BY <1>1, <1>2 DEF ReceiveInv
<1>3. CASE vpc # "rest"
  <2>1. Verify!VerifyInv /\ given \in Pairs /\ Flawed(FALSE, given) \subseteq flaws
    BY <1>3 DEF ReceiveInv
  <2>2. Verify!BufferInv'
    BY <1>1, <2>1 DEF Verify!VerifyInv, Verify!BufferInv
  <2>3. Verify!FlawInv'
    BY <1>1, <2>1 DEF Verify!VerifyInv, Verify!FlawInv
  <2>4. Verify!TermInv'
    BY <1>1, <2>1 DEF Verify!VerifyInv, Verify!TermInv, Verify!TheD, Verify!fq00,
       Verify!fq01, Verify!ft1, Verify!t0, Verify!c1, Verify!c2
  <2>5. Verify!NormInv'
    BY <1>1, <2>1 DEF Verify!VerifyInv, Verify!NormInv, Verify!TheD
  <2>6. Verify!VerifyInv'
    BY <1>1, <2>1, <2>2, <2>3, <2>4, <2>5 DEF Verify!VerifyInv
  <2>7. QED
    BY <1>1, <1>3, <2>1, <2>6 DEF ReceiveInv
<1>4. QED
  BY <1>2, <1>3

-----------------------------------------------------------------------------
(***************************************************************************)
(* Buffers.                                                                *)
(***************************************************************************)
LEMMA CatBits ==
    ASSUME NEW s \in Seq(Bit), NEW t \in Seq(Bit)
    PROVE  /\ s \o t \in Seq(Bit) /\ Len(s \o t) = Len(s) + Len(t)
           /\ Len(s) \in Nat /\ Len(t) \in Nat
           /\ \A x \in 1 .. Len(s) : (s \o t)[x] = s[x]
           /\ \A x \in 1 .. Len(t) : (s \o t)[Len(s) + x] = t[x]
           /\ Begins(s \o t, s)
<1> DEFINE l == Len(s)
           m == Len(t)
<1>1. l \in Nat /\ m \in Nat
  OBVIOUS
<1>2. /\ s \o t \in Seq(Bit) /\ Len(s \o t) = l + m
      /\ \A x \in 1 .. l + m : (s \o t)[x] = IF x <= l THEN s[x] ELSE t[x - l]
  BY ConcatProperties
<1> HIDE DEF l, m
<1>3. \A x \in 1 .. l : x \in 1 .. l + m /\ x <= l
  BY <1>1
<1>4. \A x \in 1 .. m : l + x \in 1 .. l + m /\ ~(l + x <= l) /\ (l + x) - l = x
  BY <1>1
<1>5. (\A x \in 1 .. l : (s \o t)[x] = s[x]) /\ \A x \in 1 .. m : (s \o t)[l + x] = t[x]
  BY <1>2, <1>3, <1>4
<1>6. l <= Len(s \o t)
  BY <1>1, <1>2
<1>7. QED
  BY <1>1, <1>2, <1>5, <1>6 DEF l, m, Begins

LEMMA ZerosFacts ==
    ASSUME NEW k \in Nat
    PROVE  Zeros(k) \in Seq(Bit) /\ Len(Zeros(k)) = k /\ \A x \in 1 .. k : Zeros(k)[x] = 0
<1>1. Zeros(k) \in [1 .. k -> Bit]
  BY DEF Zeros, Bit
<1>2. QED
  BY <1>1 DEF Zeros

LEMMA PadFacts ==
    ASSUME NEW s \in Seq(Bit), NEW l \in Nat, Len(s) <= l
    PROVE  /\ Pad(s, l) \in Seq(Bit) /\ Len(Pad(s, l)) = l
           /\ Begins(Pad(s, l), s) /\ AllZero(Pad(s, l), Len(s) + 1, l)
<1> DEFINE k == l - Len(s)
           z == Zeros(k)
           p == s \o z
<1>1. Len(s) \in Nat /\ k \in Nat /\ Len(s) + k = l
  OBVIOUS
<1>2. p = Pad(s, l)
  BY DEF Pad
<1> HIDE DEF k
<1>3. z \in Seq(Bit) /\ Len(z) = k /\ \A x \in 1 .. k : z[x] = 0
  BY <1>1, ZerosFacts
<1> HIDE DEF z
<1>4. /\ p \in Seq(Bit) /\ Len(p) = Len(s) + k /\ Begins(p, s)
      /\ \A x \in 1 .. k : p[Len(s) + x] = z[x]
  BY <1>3, CatBits
<1> HIDE DEF p
<1>5. AllZero(p, Len(s) + 1, l)
  <2> SUFFICES ASSUME NEW x \in Len(s) + 1 .. l PROVE p[x] = 0
    BY DEF AllZero
  <2>1. x - Len(s) \in 1 .. k /\ Len(s) + (x - Len(s)) = x
    BY <1>1
  <2>2. QED
    BY <1>3, <1>4, <2>1
<1>6. QED
  BY <1>1, <1>2, <1>4, <1>5

\* A buffer that starts with s and has zeros after it.
LEMMA PadIs ==
    ASSUME NEW b \in Seq(Bit), NEW s \in Seq(Bit), Begins(b, s),
           AllZero(b, Len(s) + 1, Len(b))
    PROVE  b = Pad(s, Len(b))
<1>1. Len(s) \in Nat /\ Len(b) \in Nat /\ Len(s) <= Len(b)
  BY DEF Begins
<1> DEFINE p == Pad(s, Len(b))
<1>2. p \in Seq(Bit) /\ Len(p) = Len(b) /\ Begins(p, s) /\ AllZero(p, Len(s) + 1, Len(b))
  BY <1>1, PadFacts
<1> HIDE DEF p
<1>3. ASSUME NEW x \in 1 .. Len(b) PROVE b[x] = p[x]
  <2>1. CASE x <= Len(s)
    <3>1. x \in 1 .. Len(s)
      BY <1>1, <2>1
    <3>2. QED
      BY <1>2, <3>1 DEF Begins
  <2>2. CASE ~(x <= Len(s))
    <3>1. x \in Len(s) + 1 .. Len(b)
      BY <1>1, <2>2
    <3>2. b[x] = 0 /\ p[x] = 0
      BY <1>2, <3>1, Zenon DEF AllZero
    <3>3. QED
      BY <3>2
  <2>3. QED
    BY <2>1, <2>2
<1>4. b = p
  BY <1>2, <1>3, SeqEqual
<1>5. QED
  BY <1>4 DEF p

\* Two that follow each other, and zeros.
LEMMA PadCat ==
    ASSUME NEW s \in Seq(Bit), NEW t \in Seq(Bit), NEW l \in Nat, Len(s) + Len(t) <= l
    PROVE  Pad(s \o t, l) = s \o Pad(t, l - Len(s))
<1>1. Len(s) \in Nat /\ Len(t) \in Nat /\ Len(s \o t) = Len(s) + Len(t)
  BY CatBits
<1> DEFINE k == l - Len(s \o t)
           z == Zeros(k)
<1>2. k \in Nat /\ k = (l - Len(s)) - Len(t)
  BY <1>1
<1>3. z \in Seq(Bit)
  BY <1>2, ZerosFacts
<1>4. Pad(s \o t, l) = (s \o t) \o z
  BY DEF Pad
<1>5. Pad(t, l - Len(s)) = t \o z
  BY <1>2 DEF Pad
<1> HIDE DEF k, z
<1>6. (s \o t) \o z = s \o (t \o z)
  BY <1>3, ConcatAssociative
<1>7. QED
  BY <1>4, <1>5, <1>6

\* A buffer in two parts.
LEMMA Parts ==
    ASSUME NEW b \in Seq(Bit), NEW p \in 0 .. Len(b)
    PROVE  /\ SubSeq(b, 1, p) \in Seq(Bit) /\ Len(SubSeq(b, 1, p)) = p
           /\ \A x \in 1 .. p : SubSeq(b, 1, p)[x] = b[x]
           /\ SubSeq(b, p + 1, Len(b)) \in Seq(Bit)
           /\ Len(SubSeq(b, p + 1, Len(b))) = Len(b) - p
           /\ \A x \in 1 .. Len(b) - p : SubSeq(b, p + 1, Len(b))[x] = b[p + x]
<1>1. Len(b) \in Nat /\ p \in Nat /\ p <= Len(b) /\ \A x \in 1 .. Len(b) : b[x] \in Bit
  OBVIOUS
<1> DEFINE n == Len(b)
<1>2. n \in Nat /\ \A x \in 1 .. p : b[x] \in Bit
  BY <1>1
<1>3. \A x \in p + 1 .. n : b[x] \in Bit
  BY <1>1
<1> HIDE DEF n
<1>4. /\ SubSeq(b, 1, p) \in Seq(Bit)
      /\ Len(SubSeq(b, 1, p)) = IF 1 <= p THEN p - 1 + 1 ELSE 0
      /\ \A x \in 1 .. p - 1 + 1 : SubSeq(b, 1, p)[x] = b[1 + x - 1]
  BY <1>1, <1>2, SubSeqProperties
<1>5. /\ SubSeq(b, p + 1, n) \in Seq(Bit)
      /\ Len(SubSeq(b, p + 1, n)) = IF p + 1 <= n THEN n - (p + 1) + 1 ELSE 0
      /\ \A x \in 1 .. n - (p + 1) + 1 : SubSeq(b, p + 1, n)[x] = b[p + 1 + x - 1]
  <2>1. p + 1 \in Int /\ n \in Int
    BY <1>1, <1>2
  <2>2. QED
    BY <1>3, <2>1, SubSeqProperties
<1>6. p <= n
  BY <1>1 DEF n
<1>7. p - 1 + 1 = p /\ n - (p + 1) + 1 = n - p
      /\ (IF 1 <= p THEN p - 1 + 1 ELSE 0) = p
      /\ (IF p + 1 <= n THEN n - (p + 1) + 1 ELSE 0) = n - p
  BY <1>1, <1>2, <1>6
<1>8. (\A x \in 1 .. p : 1 + x - 1 = x) /\ \A x \in 1 .. n - p : p + 1 + x - 1 = p + x
  BY <1>1, <1>2, <1>6
<1>9. \A x \in 1 .. p : SubSeq(b, 1, p)[x] = b[x]
  BY <1>4, <1>7, <1>8
<1>10. \A x \in 1 .. n - p : SubSeq(b, p + 1, n)[x] = b[p + x]
  BY <1>5, <1>7, <1>8
<1>11. QED
  BY <1>4, <1>5, <1>7, <1>9, <1>10 DEF n

LEMMA PartsOfCat ==
    ASSUME NEW s \in Seq(Bit), NEW t \in Seq(Bit)
    PROVE  /\ SubSeq(s \o t, 1, Len(s)) = s
           /\ SubSeq(s \o t, Len(s) + 1, Len(s \o t)) = t
<1> DEFINE b == s \o t
           p == Len(s)
<1>1. /\ b \in Seq(Bit) /\ Len(b) = p + Len(t) /\ p \in Nat /\ Len(t) \in Nat
      /\ \A x \in 1 .. p : b[x] = s[x]
      /\ \A x \in 1 .. Len(t) : b[p + x] = t[x]
  BY CatBits
<1> HIDE DEF b
<1>2. p \in 0 .. Len(b) /\ Len(b) - p = Len(t)
  BY <1>1
<1> DEFINE c == SubSeq(b, 1, p)
           d == SubSeq(b, p + 1, Len(b))
<1>3. /\ c \in Seq(Bit) /\ Len(c) = p /\ \A x \in 1 .. p : c[x] = b[x]
      /\ d \in Seq(Bit) /\ Len(d) = Len(b) - p
      /\ \A x \in 1 .. Len(b) - p : d[x] = b[p + x]
  BY <1>1, <1>2, Parts
<1> HIDE DEF c, d
<1>4. c = s
  <2>1. Len(c) = Len(s) /\ \A x \in 1 .. Len(c) : c[x] = s[x]
    BY <1>1, <1>3
  <2>2. QED
    BY <1>3, <2>1, SeqEqual
<1>5. d = t
  <2>1. Len(d) = Len(t) /\ \A x \in 1 .. Len(d) : d[x] = t[x]
    BY <1>1, <1>2, <1>3
  <2>2. QED
    BY <1>3, <2>1, SeqEqual
<1>6. QED
  BY <1>4, <1>5 DEF b, c, d

LEMMA CatOfParts ==
    ASSUME NEW b \in Seq(Bit), NEW p \in 0 .. Len(b)
    PROVE  b = SubSeq(b, 1, p) \o SubSeq(b, p + 1, Len(b))
<1> DEFINE c == SubSeq(b, 1, p)
           d == SubSeq(b, p + 1, Len(b))
           n == Len(b)
<1>1. /\ c \in Seq(Bit) /\ Len(c) = p /\ \A x \in 1 .. p : c[x] = b[x]
      /\ d \in Seq(Bit) /\ Len(d) = n - p
      /\ \A x \in 1 .. n - p : d[x] = b[p + x]
  BY Parts
<1> HIDE DEF c, d
<1>2. /\ c \o d \in Seq(Bit) /\ Len(c \o d) = p + (n - p)
      /\ \A x \in 1 .. p : (c \o d)[x] = c[x]
      /\ \A x \in 1 .. n - p : (c \o d)[p + x] = d[x]
  BY <1>1, CatBits
<1>3. n \in Nat /\ p \in Nat /\ p <= n
  OBVIOUS
<1> HIDE DEF n
<1>4. ASSUME NEW x \in 1 .. n PROVE b[x] = (c \o d)[x]
  <2>1. CASE x <= p
    <3>1. x \in 1 .. p
      BY <2>1, <1>3
    <3>2. QED
      BY <1>1, <1>2, <3>1
  <2>2. CASE ~(x <= p)
    <3>1. x - p \in 1 .. n - p /\ p + (x - p) = x
      BY <2>2, <1>3
    <3>2. QED
      BY <1>1, <1>2, <3>1
  <2>3. QED
    BY <2>1, <2>2
<1>5. Len(b) = n /\ Len(c \o d) = n
  BY <1>2, <1>3 DEF n
<1>6. b = c \o d
  BY <1>2, <1>4, <1>5, SeqEqual
<1>7. QED
  BY <1>6 DEF c, d

\* Whole bytes.
LEMMA ByteFacts ==
    ASSUME NEW l \in Nat
    PROVE  /\ ToByte(l) \in Nat /\ ToByte(l) >= l
           /\ \E k \in Nat : ToByte(l) = k * ByteBits
           /\ \A k \in Nat : l <= k * ByteBits => ToByte(l) <= k * ByteBits
<1> DEFINE B == ByteBits
           r == (-l) % B
           q == (-l) \div B
           k0 == -q
<1>1. B \in Nat /\ B > 0
  BY CodeAssumption
<1>2. r \in 0 .. B - 1 /\ q \in Int /\ -l = B * q + r
  <2> HIDE DEF B
  <2>1. QED
    BY <1>1
<1>3. ToByte(l) = l + r
  BY DEF ToByte
<1> HIDE DEF B, r, q
<1>4. l + r = k0 * B /\ k0 \in Int
  BY <1>1, <1>2
<1> HIDE DEF k0
<1>5. k0 \in Nat
  <2>1. k0 * B >= 0
    BY <1>2, <1>4
  <2>2. QED
    BY <1>1, <1>4, <2>1
<1>6. ASSUME NEW k \in Nat, l <= k * B PROVE k0 * B <= k * B
  <2>1. k0 * B < k * B + B
    <3>1. k * B \in Nat
      BY <1>1
    <3>2. k0 * B \in Nat
      BY <1>1, <1>5
    <3>3. QED
      BY <1>1, <1>2, <1>4, <1>6, <3>1, <3>2
  <2>2. k * B + B = (k + 1) * B
    BY <1>1
  <2>3. k0 < k + 1
    BY <1>1, <1>5, <2>1, <2>2
  <2>4. k0 <= k
    BY <1>5, <2>3
  <2>5. QED
    BY <1>1, <1>5, <2>4
<1>7. QED
  BY <1>2, <1>3, <1>4, <1>5, <1>6 DEF B

-----------------------------------------------------------------------------
(***************************************************************************)
(* decode_q01() and decode_s1(), and the check of what is after them.      *)
(***************************************************************************)
\* A buffer of whole bytes.
Bytes(b) == b \in Seq(Bit) /\ \E k \in Nat : Len(b) = k * ByteBits

\* decode_q01() and decode_s1() of a build without AVX2.
PlainClean(b, n, low, hi) == DecodeClean(FALSE, b, n, low, hi)

\* What is decoded from a buffer that has only zeros after the code.
LEMMA CleanDecodes ==
    ASSUME NEW n \in Nat, n > 0, NEW low \in Nat, NEW hi \in Nat,
           NEW a \in [1 .. n -> Int], Small(a, n, low, hi), NEW b, Bytes(b),
           Len(EncodeGR(a, low)) <= Len(b), b = Pad(EncodeGR(a, low), Len(b))
    PROVE  /\ PlainClean(b, n, low, hi)
              = [values |-> a, used |-> ToByte(Len(EncodeGR(a, low)))]
           /\ PlainClean(b, n, low, hi) # None
           /\ AllZero(b, ToByte(Len(EncodeGR(a, low))) + 1, Len(b))
<1> DEFINE s == EncodeGR(a, low)
           l == Len(s)
           t == ToByte(l)
           gr == DecodeVector(FALSE, b, n, low, hi)
<1>1. s \in Seq(Bit) /\ l \in Nat /\ l > 0
  <2>1. /\ s \in Seq(Bit)
        /\ \E ks, end : /\ Ends(n, low, ks, end)
                        /\ \A u \in 1 .. n : ks[u] = Rest(a[u], low)
                        /\ Coded(s, n, low, a, ks, end)
                        /\ l = end[n]
                        /\ end[n] >= n
    BY EncodeFacts
  <2>2. l >= n /\ l \in Nat
    BY <2>1
  <2>3. QED
    BY <2>1, <2>2
<1>2. PICK k \in Nat : Len(b) = k * ByteBits
  BY DEF Bytes
<1>3. b \in Seq(Bit) /\ Len(b) \in Nat
  BY DEF Bytes
<1>4. Begins(b, s) /\ AllZero(b, l + 1, Len(b))
  <2> DEFINE p == Pad(s, Len(b))
  <2>1. Begins(p, s) /\ AllZero(p, l + 1, Len(b))
    BY <1>1, <1>3, PadFacts
  <2>2. b = p
    OBVIOUS
  <2> HIDE DEF p
  <2>3. QED
    BY <2>1, <2>2
<1>5. gr = [values |-> a, used |-> l]
  BY <1>3, <1>4, DecodesEncoded DEF DecodeVector
<1>6. t \in Nat /\ t >= l /\ t <= Len(b)
  <2>1. l <= k * ByteBits
    BY <1>2
  <2>2. QED
    BY <1>1, <1>2, <2>1, ByteFacts
<1> HIDE DEF s, l, t
<1>7. AllZero(b, l + 1, t) /\ AllZero(b, t + 1, Len(b))
  <2>1. \A x \in l + 1 .. Len(b) : b[x] = 0
    BY <1>4, Zenon DEF AllZero
  <2>2. (\A x \in l + 1 .. t : x \in l + 1 .. Len(b))
        /\ \A x \in t + 1 .. Len(b) : x \in l + 1 .. Len(b)
    BY <1>1, <1>3, <1>6
  <2>3. QED
    BY <2>1, <2>2, Zenon DEF AllZero
<1> HIDE DEF gr
<1>8. gr # None
  BY <1>1, <1>5 DEF None
<1>9. PlainClean(b, n, low, hi) = [values |-> a, used |-> t]
  <2>1. CleanEnd(b, l)
    BY <1>7, Zenon DEF CleanEnd, t
  <2>2. gr.used = l /\ [gr EXCEPT !.used = ToByte(l)] = [values |-> a, used |-> t]
    BY <1>5 DEF t
  <2>3. PlainClean(b, n, low, hi)
        = IF gr # None /\ CleanEnd(b, gr.used)
          THEN [gr EXCEPT !.used = ToByte(gr.used)] ELSE None
    BY Zenon DEF PlainClean, DecodeClean, ToCleanEnd, gr
  <2>4. QED
    BY <1>8, <2>1, <2>2, <2>3, Zenon
<1>10. [values |-> a, used |-> t] # None
  BY <1>1, <1>6 DEF None
<1>11. QED
  BY <1>7, <1>9, <1>10 DEF s, l, t

\* What such a buffer is, of which something is decoded.
PaddedCode(b, n, low, hi) ==
    \E a \in [1 .. n -> Int] :
       /\ Small(a, n, low, hi)
       /\ Len(EncodeGR(a, low)) <= Len(b)
       /\ b = Pad(EncodeGR(a, low), Len(b))

LEMMA DecodedClean ==
    ASSUME NEW n \in Nat, n > 0, NEW low \in Nat, NEW hi \in Nat, NEW b, Bytes(b),
           NEW d, d = PlainClean(b, n, low, hi), d # None, AllZero(b, d.used + 1, Len(b))
    PROVE  PaddedCode(b, n, low, hi)
<1>1. d # None /\ AllZero(b, d.used + 1, Len(b))
  OBVIOUS
<1> DEFINE gr == DecodeVector(FALSE, b, n, low, hi)
<1>2. b \in Seq(Bit) /\ Len(b) \in Nat
  BY DEF Bytes
<1>3. gr # None /\ CleanEnd(b, gr.used) /\ d = [gr EXCEPT !.used = ToByte(gr.used)]
  BY <1>1, Zenon DEF PlainClean, DecodeClean, ToCleanEnd
<1>4. PICK a \in [1 .. n -> Int] :
         /\ Small(a, n, low, hi) /\ Begins(b, EncodeGR(a, low))
         /\ gr = [values |-> a, used |-> Len(EncodeGR(a, low))]
  BY <1>2, <1>3, DecodedEncodes DEF DecodeVector
<1> DEFINE s == EncodeGR(a, low)
           l == Len(s)
           t == ToByte(l)
<1>5. s \in Seq(Bit) /\ l \in Nat
  BY EncodeFacts
<1>6. t \in Nat /\ t >= l
  BY <1>5, ByteFacts
<1>7. CleanEnd(b, l) /\ d.used = t
  <2> HIDE DEF gr, s
  <2>1. gr.used = l
    BY <1>4 DEF s
  <2>2. gr = [values |-> a, used |-> l]
    BY <1>4 DEF s
  <2>3. [gr EXCEPT !.used = ToByte(gr.used)].used = ToByte(gr.used)
    BY <2>2
  <2>4. QED
    BY <1>3, <2>1, <2>3
<1>8. AllZero(b, l + 1, t)
  BY <1>7, Zenon DEF CleanEnd
<1>9. AllZero(b, t + 1, Len(b))
  BY <1>1, <1>7
<1> HIDE DEF s, l, t
<1>10. AllZero(b, l + 1, Len(b))
  <2>1. \A x \in l + 1 .. Len(b) : x \in l + 1 .. t \/ x \in t + 1 .. Len(b)
    BY <1>2, <1>5, <1>6
  <2>2. QED
    BY <1>8, <1>9, <2>1, Zenon DEF AllZero
<1>11. Begins(b, s) /\ l <= Len(b)
  BY <1>4 DEF s, l, Begins
<1>12. b = Pad(s, Len(b))
  BY <1>2, <1>5, <1>10, <1>11, PadIs DEF l
<1>13. QED
  BY <1>4, <1>11, <1>12 DEF s, l, PaddedCode

-----------------------------------------------------------------------------
(***************************************************************************)
(* Signatures.                                                             *)
(***************************************************************************)
LEMMA SizeFacts ==
    /\ ByteBits \in Nat /\ ByteBits > 0
    /\ LenSig \in Nat /\ LenSig > 0 /\ LowSig \in Nat /\ HiSig \in Nat /\ HiSig > 0
    /\ Len00 \in Nat /\ Len00 > 0 /\ Low00 \in Nat /\ Hi00 \in Nat /\ Hi00 > 0
    /\ Len01 \in Nat /\ Len01 > 0 /\ Low01 \in Nat /\ Hi01 \in Nat /\ Hi01 > 0
    /\ Extra \in Nat /\ Extra <= ByteBits /\ Low00 + Extra > 0
    /\ PubSize \in Nat /\ SaltSize \in Nat /\ SigSize \in Nat /\ SaltSize <= SigSize
    /\ GroupSize \in Nat /\ GroupSize > 0 /\ WordSize \in Nat /\ WordSize > 0
BY CodeAssumption

LEMMA AreaFacts ==
    /\ SaltSize * ByteBits \in Nat /\ SigSize * ByteBits \in Nat
    /\ SaltSize * ByteBits <= SigSize * ByteBits
    /\ PubSize * ByteBits \in Nat
    /\ \A l \in Nat : l % ByteBits \in 0 .. ByteBits - 1 /\ l \div ByteBits \in Nat
BY SizeFacts

SignatureArea == SigSize * ByteBits
SaltArea == SaltSize * ByteBits

\* What a signature is made of.
SignatureOf(bits, salt, s1) ==
    /\ salt \in Seq(Bit) /\ Len(salt) = SaltArea
    /\ s1 \in [1 .. LenSig -> Int] /\ Small(s1, LenSig, LowSig, HiSig)
    /\ SaltArea + Len(EncodeGR(s1, LowSig)) <= SignatureArea
    /\ bits = Pad(salt \o EncodeGR(s1, LowSig), SignatureArea)

LEMMA TailBytes ==
    ASSUME NEW b \in Seq(Bit), NEW k \in Nat, NEW m \in Nat, m <= k, Len(b) = (k - m) * ByteBits
    PROVE  Bytes(b)
BY DEF Bytes

LEMMA SignatureDecodes ==
    ASSUME NEW bits, NEW salt, NEW s1, SignatureOf(bits, salt, s1)
    PROVE  /\ DecodeSig(FALSE, bits) = [salt |-> salt, s1 |-> s1]
           /\ bits \in Seq(Bit) /\ Len(bits) = SignatureArea
<1> DEFINE s == EncodeGR(s1, LowSig)
           S == SignatureArea
           p == SaltArea
           t == Pad(s, S - p)
<1>1. /\ salt \in Seq(Bit) /\ Len(salt) = p
      /\ s1 \in [1 .. LenSig -> Int] /\ Small(s1, LenSig, LowSig, HiSig)
      /\ p + Len(s) <= S
      /\ bits = Pad(salt \o s, S)
  BY DEF SignatureOf
<1>2. p \in Nat /\ S \in Nat /\ p <= S /\ S - p = (SigSize - SaltSize) * ByteBits
  BY AreaFacts, SizeFacts DEF SignatureArea, SaltArea
<1>3. s \in Seq(Bit) /\ Len(s) \in Nat
  BY <1>1, SizeFacts, EncodeFacts
<1> HIDE DEF s, S, p
<1>4. bits = salt \o t
  BY <1>1, <1>2, <1>3, PadCat
<1>5. t \in Seq(Bit) /\ Len(t) = S - p
  <2>1. S - p \in Nat /\ Len(s) <= S - p
    BY <1>1, <1>2, <1>3
  <2>2. QED
    BY <1>3, <2>1, PadFacts
<1> HIDE DEF t
<1>6. bits \in Seq(Bit) /\ Len(bits) = S
  <2>1. bits \in Seq(Bit) /\ Len(bits) = p + (S - p)
    BY <1>1, <1>4, <1>5, CatBits
  <2>2. QED
    BY <1>2, <2>1
<1>7. SubSeq(bits, 1, p) = salt /\ SubSeq(bits, p + 1, Len(bits)) = t
  BY <1>1, <1>4, <1>5, PartsOfCat
<1>8. Bytes(t)
  BY <1>2, <1>5, SizeFacts, TailBytes
<1> DEFINE d == DecodeClean(FALSE, t, LenSig, LowSig, HiSig)
<1>9. /\ d = [values |-> s1, used |-> ToByte(Len(s))]
      /\ d # None /\ AllZero(t, ToByte(Len(s)) + 1, Len(t))
  <2>1. Len(s) <= Len(t) /\ t = Pad(s, Len(t))
    <3>1. Len(s) <= S - p
      BY <1>1, <1>2, <1>3
    <3>2. QED
      BY <1>5, <3>1 DEF t
  <2>2. QED
    BY <1>1, <1>8, <2>1, SizeFacts, CleanDecodes DEF s, PlainClean
<1> HIDE DEF d
<1>10. d.used = ToByte(Len(s)) /\ d.values = s1
  BY <1>9
<1>11. DecodeSig(FALSE, bits) = IF d = None \/ ~AllZero(t, d.used + 1, Len(t)) THEN NoSignature
                         ELSE [salt |-> SubSeq(bits, 1, p), s1 |-> d.values]
  BY <1>7, Zenon DEF DecodeSig, SignatureFrom, d, p, SaltArea
<1>12. DecodeSig(FALSE, bits) = [salt |-> salt, s1 |-> s1]
  BY <1>7, <1>9, <1>10, <1>11, Zenon
<1>13. QED
  BY <1>6, <1>12 DEF S

LEMMA DecodedSignature ==
    ASSUME NEW bits \in Seq(Bit), Len(bits) = SignatureArea
    PROVE  DecodeSig(FALSE, bits) # NoSignature => \E salt, s1 : SignatureOf(bits, salt, s1)
<1>1. HAVE DecodeSig(FALSE, bits) # NoSignature
<1> DEFINE S == SignatureArea
           p == SaltArea
           t == SubSeq(bits, p + 1, Len(bits))
           salt == SubSeq(bits, 1, p)
           d == DecodeClean(FALSE, t, LenSig, LowSig, HiSig)
<1>2. p \in Nat /\ S \in Nat /\ p <= S /\ S - p = (SigSize - SaltSize) * ByteBits
  BY AreaFacts, SizeFacts DEF SignatureArea, SaltArea
<1>3. DecodeSig(FALSE, bits) = IF d = None \/ ~AllZero(t, d.used + 1, Len(t)) THEN NoSignature
                        ELSE [salt |-> salt, s1 |-> d.values]
  BY Zenon DEF DecodeSig, SignatureFrom, SaltArea
<1>4. p \in 0 .. Len(bits) /\ Len(bits) = S
  BY <1>2
<1> HIDE DEF S, p
<1>5. /\ salt \in Seq(Bit) /\ Len(salt) = p
      /\ t \in Seq(Bit) /\ Len(t) = S - p
      /\ bits = salt \o t
  <2>1. /\ salt \in Seq(Bit) /\ Len(salt) = p
        /\ t \in Seq(Bit) /\ Len(t) = Len(bits) - p
    BY <1>4, Parts
  <2>2. bits = salt \o t
    BY <1>4, CatOfParts
  <2>3. QED
    BY <1>4, <2>1, <2>2
<1> HIDE DEF t, salt
<1>6. Bytes(t)
  BY <1>2, <1>5, SizeFacts, TailBytes
<1> HIDE DEF d
<1>7. d # None /\ AllZero(t, d.used + 1, Len(t))
  BY <1>1, <1>3, Zenon
<1>8. PICK a \in [1 .. LenSig -> Int] :
         /\ Small(a, LenSig, LowSig, HiSig)
         /\ Len(EncodeGR(a, LowSig)) <= Len(t)
         /\ t = Pad(EncodeGR(a, LowSig), Len(t))
  <2>1. LenSig \in Nat /\ LenSig > 0 /\ LowSig \in Nat /\ HiSig \in Nat
    BY SizeFacts
  <2>2. d = PlainClean(t, LenSig, LowSig, HiSig)
    BY DEF d, PlainClean
  <2>3. PaddedCode(t, LenSig, LowSig, HiSig)
    BY <1>6, <1>7, <2>1, <2>2, DecodedClean
  <2>4. QED
    BY <2>3 DEF PaddedCode
<1> DEFINE s == EncodeGR(a, LowSig)
<1>9. s \in Seq(Bit) /\ Len(s) \in Nat
  BY SizeFacts, EncodeFacts
<1>10. Len(s) <= S - p /\ t = Pad(s, S - p)
  BY <1>5, <1>8
<1> HIDE DEF s
<1>11. Len(salt) + Len(s) <= S /\ p + Len(s) <= S
  BY <1>2, <1>5, <1>9, <1>10
<1>12. Pad(salt \o s, S) = salt \o Pad(s, S - p)
  BY <1>2, <1>5, <1>9, <1>11, PadCat
<1>13. SignatureOf(bits, salt, a)
  BY <1>5, <1>8, <1>10, <1>11, <1>12 DEF SignatureOf, s, S, p
<1>14. QED
  BY <1>13

-----------------------------------------------------------------------------
(***************************************************************************)
(* The room for the unary part: what the encoder has counted when it has   *)
(* written some of the values, by bytes or by words.                       *)
(***************************************************************************)
LEMMA TakenFacts ==
    ASSUME NEW n \in Nat, NEW ks \in [1 .. n -> Nat]
    PROVE  /\ Len(ks) = n
           /\ Taken(ks)[0] = 0
           /\ \A j \in 1 .. n : Taken(ks)[j] = Taken(ks)[j - 1] + ks[j] + 1
           /\ \A j \in 0 .. n : Taken(ks)[j] \in Nat
<1> DEFINE Loop(g) == g = [j \in 0 .. Len(ks) |-> IF j = 0 THEN 0 ELSE g[j - 1] + ks[j] + 1]
           taken == CHOOSE g : Loop(g)
           F == [j \in 1 .. n |-> [x \in Nat |-> x + ks[j] + 1]]
<1>0. Len(ks) = n
  OBVIOUS
<1>1. Taken(ks) = taken
  BY Zenon DEF Taken
<1>2. \A x \in Nat : \A j \in 1 .. n : F[j][x] = x + ks[j] + 1
  OBVIOUS
<1>3. \A x \in Nat : \A j \in 1 .. n : F[j][x] \in Nat
  BY <1>2
<1> HIDE DEF F
<1>4. PICK g \in [0 .. n -> Nat] : LoopStates(0, n, F, g)
  BY <1>3, LoopExists
<1>5. \A j \in 0 .. n : g[j] = IF j = 0 THEN 0 ELSE g[j - 1] + ks[j] + 1
  <2> SUFFICES ASSUME NEW j \in 0 .. n
               PROVE  g[j] = IF j = 0 THEN 0 ELSE g[j - 1] + ks[j] + 1
    OBVIOUS
  <2>1. g[j] = IF j = 0 THEN 0 ELSE F[j][g[j - 1]]
    BY <1>4, Zenon DEF LoopStates
  <2>2. j # 0 => j \in 1 .. n /\ j - 1 \in 0 .. n
    OBVIOUS
  <2>3. QED
    BY <1>2, <1>4, <2>1, <2>2
<1>6. g = [j \in 0 .. n |-> g[j]]
  BY <1>4
<1>7. Loop(g)
  BY <1>0, <1>5, <1>6, Zenon
<1> HIDE DEF Loop
<1>8. Loop(taken)
  BY <1>7
<1> HIDE DEF taken
<1>9. \A j \in 0 .. n : taken[j] = IF j = 0 THEN 0 ELSE taken[j - 1] + ks[j] + 1
  BY <1>0, <1>8, Zenon DEF Loop
<1>10. taken[0] = 0 /\ \A j \in 1 .. n : taken[j] = taken[j - 1] + ks[j] + 1
  BY <1>9
<1> DEFINE G == {j \in 0 .. n : taken[j] \in Nat}
<1>11. 0 \in G
  BY <1>10
<1>12. ASSUME NEW j \in 1 .. n, j - 1 \in G PROVE j \in G
  BY <1>10, <1>12
<1> HIDE DEF G
<1>13. \A j \in 0 .. n : j \in G
  BY <1>11, <1>12, EveryTurn
<1>14. QED
  BY <1>0, <1>1, <1>10, <1>13 DEF G

\* Each value takes a bit or more, and no more than hi if it is below hi.
LEMMA TakenBounds ==
    ASSUME NEW n \in Nat, NEW ks \in [1 .. n -> Nat], NEW hi \in Nat,
           NEW u \in 0 .. n, NEW v \in u .. n
    PROVE  /\ Taken(ks)[u] \in Nat /\ Taken(ks)[v] \in Nat
           /\ Taken(ks)[v] >= Taken(ks)[u] + (v - u)
           /\ (\A j \in 1 .. n : ks[j] < hi) => Taken(ks)[v] <= Taken(ks)[u] + (v - u) * hi
<1> DEFINE t == Taken(ks)
           L == n - u
           Below == \A j \in 1 .. n : ks[j] < hi
           G == {d \in 0 .. L : /\ t[u + d] >= t[u] + d
                                /\ Below => t[u + d] <= t[u] + d * hi}
<1>1. /\ \A j \in 1 .. n : t[j] = t[j - 1] + ks[j] + 1
      /\ \A j \in 0 .. n : t[j] \in Nat
  BY TakenFacts
<1> HIDE DEF t
<1>2. 0 \in G
  <2>1. u + 0 = u /\ t[u] \in Nat /\ 0 * hi = 0 /\ 0 \in 0 .. L
    BY <1>1
  <2>2. QED
    BY <2>1
<1>3. ASSUME NEW d \in 1 .. L, d - 1 \in G PROVE d \in G
  <2>1. u + d \in 1 .. n /\ (u + d) - 1 = u + (d - 1) /\ u + (d - 1) \in 0 .. n /\ d \in 0 .. L
    OBVIOUS
  <2>2. /\ t[u + d] = t[u + (d - 1)] + ks[u + d] + 1
        /\ t[u + d] \in Nat /\ t[u + (d - 1)] \in Nat /\ ks[u + d] \in Nat /\ t[u] \in Nat
    BY <1>1, <2>1
  <2>3. t[u + (d - 1)] >= t[u] + (d - 1) /\ (Below => t[u + (d - 1)] <= t[u] + (d - 1) * hi)
    BY <1>3
  <2>4. Below => ks[u + d] < hi
    BY <2>1
  <2>5. d * hi = (d - 1) * hi + hi /\ (d - 1) * hi \in Nat
    OBVIOUS
  <2> DEFINE e == (d - 1) * hi
  <2>6. e \in Nat /\ d * hi = e + hi
    BY <2>5
  <2> HIDE DEF e, Below
  <2>7. t[u + d] >= t[u] + d
    BY <2>2, <2>3, SMTT(20)
  <2>8. Below => t[u + d] <= t[u] + d * hi
    <3>1. Below => t[u + (d - 1)] <= t[u] + e
      BY <2>3 DEF e
    <3>2. QED
      BY <2>2, <2>4, <2>6, <3>1, SMTT(20)
  <2>9. QED
    BY <2>1, <2>7, <2>8
<1> HIDE DEF G
<1>4. \A d \in 0 .. L : d \in G
  <2>1. L \in Nat
    OBVIOUS
  <2> HIDE DEF L
  <2>2. QED
    BY <1>2, <1>3, <2>1, EveryTurn
<1>5. v - u \in 0 .. L /\ u + (v - u) = v
  OBVIOUS
<1>6. v - u \in G
  BY <1>4, <1>5
<1>7. t[v] >= t[u] + (v - u) /\ (Below => t[v] <= t[u] + (v - u) * hi)
  <2> DEFINE d == v - u
  <2>1. d \in G /\ u + d = v
    BY <1>5, <1>6
  <2> HIDE DEF d
  <2>2. t[v] >= t[u] + d /\ (Below => t[v] <= t[u] + d * hi)
    BY <2>1 DEF G
  <2>3. QED
    BY <2>2 DEF d
<1>8. QED
  BY <1>1, <1>7 DEF t

\* The length of the code.
LEMMA LengthTaken ==
    ASSUME NEW n \in Nat, NEW low \in Nat, NEW a \in [1 .. n -> Int],
           NEW ks \in [1 .. n -> Nat], \A u \in 1 .. n : ks[u] = Rest(a[u], low)
    PROVE  Len(EncodeGR(a, low)) = n + low * n + Taken(ks)[n]
<1>1. PICK end : Ends(n, low, ks, end)
  BY EndsExist
<1>2. Len(EncodeGR(a, low)) = end[n]
  BY <1>1, EncodeCoded, SMTT(20)
<1> DEFINE t == Taken(ks)
           G == {u \in 0 .. n : end[u] = end[0] + t[u]}
<1>3. /\ end[0] = n + low * n /\ low * n \in Nat
      /\ \A u \in 0 .. n : end[u] \in Nat /\ t[u] \in Nat
      /\ \A u \in 1 .. n : end[u] = end[u - 1] + ks[u] + 1 /\ t[u] = t[u - 1] + ks[u] + 1
      /\ t[0] = 0
  <2>1. /\ end[0] = n + low * n /\ low * n \in Nat
        /\ \A u \in 0 .. n : end[u] \in Nat
        /\ \A u \in 1 .. n : end[u] = end[u - 1] + ks[u] + 1
    <3>1. /\ end[0] = n + low * n /\ n <= end[0] /\ low * n \in Nat
          /\ \A u \in 0 .. n : end[u] \in Nat /\ end[u] >= end[0] + u /\ end[u] >= end[0]
          /\ \A u \in 1 .. n : /\ ks[u] \in Nat
                               /\ end[u] = end[u - 1] + ks[u] + 1
                               /\ end[u] \in Nat /\ end[u - 1] \in Nat
          /\ \A u \in 0 .. n : end[u] <= end[n]
      BY <1>1, EndsFacts
    <3>2. QED
      BY <3>1, Zenon
  <2>2. /\ t[0] = 0 /\ \A u \in 0 .. n : t[u] \in Nat
        /\ \A u \in 1 .. n : t[u] = t[u - 1] + ks[u] + 1
    BY TakenFacts
  <2> HIDE DEF t
  <2>3. QED
    BY <2>1, <2>2
<1> HIDE DEF t
<1>4. 0 \in G
  BY <1>3
<1>5. ASSUME NEW u \in 1 .. n, u - 1 \in G PROVE u \in G
  <2>1. /\ end[u - 1] = end[0] + t[u - 1] /\ u - 1 \in 0 .. n /\ u \in 0 .. n /\ 0 \in 0 .. n
    BY <1>5
  <2>2. end[u - 1] \in Nat /\ end[0] \in Nat /\ t[u - 1] \in Nat /\ ks[u] \in Nat
    BY <1>3, <2>1
  <2>3. end[u] = end[0] + t[u]
    BY <1>3, <2>1, <2>2, SMTT(20)
  <2>4. QED
    BY <2>1, <2>3
<1> HIDE DEF G
<1>6. \A u \in 0 .. n : u \in G
  BY <1>4, <1>5, EveryTurn
<1>7. n \in G
  BY <1>6
<1>8. end[n] = end[0] + t[n]
  BY <1>7 DEF G
<1>9. QED
  BY <1>2, <1>3, <1>8 DEF t

\* A state of the loops after which "left" bits are left, of which "last" are
\* left in the end: it is an error only if there are too few.
LoopState == [ok : BOOLEAN, pending : Nat, room : Int]

Exact(st, left, last) ==
    /\ st \in LoopState /\ st.pending < ByteBits
    /\ st.room * ByteBits = left + st.pending
    /\ last >= 0 => st.ok
    /\ st.ok => st.room >= 0

LEMMA WriteFacts ==
    ASSUME NEW st \in LoopState, NEW k \in Nat, NEW left \in Int,
           st.pending < ByteBits, st.room * ByteBits = left + st.pending
    PROVE  /\ Write(st, k) = [ok |-> st.ok, pending |-> Write(st, k).pending,
                              room |-> Write(st, k).room]
           /\ Write(st, k).pending \in Nat /\ Write(st, k).pending < ByteBits
           /\ Write(st, k).room \in Int
           /\ Write(st, k).room * ByteBits = (left - k) + Write(st, k).pending
           /\ Write(st, k).room = st.room - ((st.pending + k) \div ByteBits)
<1> DEFINE B == ByteBits
           l == st.pending + k
           q == l \div B
           r == l % B
           rm == st.room
           pn == st.pending
<1>1. B \in Nat /\ B > 0
  BY SizeFacts
<1>2. rm \in Int /\ pn \in Nat /\ l \in Nat /\ l = pn + k /\ rm * B = left + pn
  BY DEF LoopState
<1>3. Write(st, k) = [ok |-> st.ok, pending |-> r, room |-> rm - q]
  BY DEF Write
<1> HIDE DEF B, l, rm, pn
<1>4. q \in Nat /\ r \in Nat /\ r < B /\ l = q * B + r
  BY <1>1, <1>2
<1> HIDE DEF q, r
<1>5. (rm - q) * B = rm * B - q * B /\ q * B \in Int /\ rm * B \in Int
  BY <1>1, <1>2, <1>4
<1>6. (rm - q) * B = (left - k) + r
  BY <1>2, <1>4, <1>5
<1>7. rm - q \in Int
  BY <1>2, <1>4
<1>8. /\ Write(st, k).pending = r /\ Write(st, k).room = rm - q
      /\ Write(st, k) = [ok |-> st.ok, pending |-> r, room |-> rm - q]
  BY <1>3
<1>9. QED
  BY <1>4, <1>6, <1>7, <1>8 DEF B, q, l, rm, pn

\* Whole bytes that are left.
LEMMA RoomFacts ==
    ASSUME NEW rm \in Int, NEW pn \in Nat, pn < ByteBits, NEW left \in Int,
           rm * ByteBits = left + pn
    PROVE  /\ left >= 0 => rm >= 0 /\ (pn > 0 => rm > 0)
           /\ rm >= 0 /\ (pn > 0 => rm > 0) => left >= 0
           /\ \A k \in Nat : left >= k * ByteBits => rm >= k
<1> DEFINE B == ByteBits
<1>1. B \in Nat /\ B > 0 /\ pn < B /\ rm * B = left + pn
  BY SizeFacts
<1> HIDE DEF B
<1>2. rm < 0 => rm * B < 0
  BY <1>1
<1>3. rm = 0 => rm * B = 0
  BY <1>1
<1>4. rm > 0 => rm * B >= B
  BY <1>1
<1>5. ASSUME NEW k \in Nat, left >= k * B PROVE rm >= k
  <2>1. rm <= k - 1 => rm * B <= (k - 1) * B
    BY <1>1
  <2>2. (k - 1) * B = k * B - B /\ k * B \in Int /\ rm * B \in Int
    BY <1>1
  <2>3. QED
    BY <1>1, <1>5, <2>1, <2>2
<1>6. QED
  BY <1>1, <1>2, <1>3, <1>4, <1>5 DEF B

LEMMA WriteValueExact ==
    ASSUME NEW st, NEW k \in Nat, NEW left \in Int, NEW last \in Int, Exact(st, left, last),
           left - (k + 1) >= last
    PROVE  Exact(WriteValue(st, k), left - (k + 1), last)
<1> DEFINE w == Write(st, k + 1)
           new == WriteValue(st, k)
           rest == left - (k + 1)
<1>1. /\ st \in LoopState /\ st.pending < ByteBits /\ st.room * ByteBits = left + st.pending
      /\ last >= 0 => st.ok
      /\ st.ok \in BOOLEAN
  BY DEF Exact, LoopState
<1>2. /\ w = [ok |-> st.ok, pending |-> w.pending, room |-> w.room]
      /\ w.pending \in Nat /\ w.pending < ByteBits /\ w.room \in Int
      /\ w.room * ByteBits = rest + w.pending
  <2>1. k + 1 \in Nat
    OBVIOUS
  <2>2. QED
    BY <1>1, <2>1, WriteFacts
<1>3. new = [w EXCEPT !.ok = st.ok /\ w.room >= 0]
  BY Zenon DEF WriteValue
<1> HIDE DEF w, new, rest
<1> DEFINE rm == w.room
           pn == w.pending
<1>4. new = [ok |-> st.ok /\ rm >= 0, pending |-> pn, room |-> rm]
  BY <1>2, <1>3
<1>5. rm \in Int /\ pn \in Nat /\ pn < ByteBits /\ rm * ByteBits = rest + pn /\ rest \in Int
  BY <1>2 DEF rest
<1> HIDE DEF rm, pn
<1>6. new \in LoopState /\ new.pending = pn /\ new.room = rm /\ new.ok = (st.ok /\ rm >= 0)
  BY <1>1, <1>4, <1>5 DEF LoopState
<1>7. rest >= 0 => rm >= 0
  BY <1>5, RoomFacts
<1>8. last >= 0 => rest >= 0
  BY <1>5 DEF rest
<1>9. last >= 0 => new.ok
  BY <1>1, <1>6, <1>7, <1>8
<1>10. /\ new.pending < ByteBits /\ new.room * ByteBits = rest + new.pending
       /\ new.ok => new.room >= 0
  BY <1>5, <1>6
<1>11. Exact(new, rest, last)
  BY <1>6, <1>9, <1>10, Zenon DEF Exact
<1>12. QED
  BY <1>11 DEF new, rest

LEMMA RoomForAllExact ==
    ASSUME NEW st, NEW last \in Int, Exact(st, last, last)
    PROVE  RoomForAll(st) <=> last >= 0
<1> DEFINE rm == st.room
           pn == st.pending
<1>1. /\ rm \in Int /\ pn \in Nat /\ pn < ByteBits /\ rm * ByteBits = last + pn
      /\ last >= 0 => st.ok
      /\ st.ok => rm >= 0
  BY DEF Exact, LoopState
<1>2. RoomForAll(st) <=> st.ok /\ (pn > 0 => rm > 0)
  BY DEF RoomForAll
<1> HIDE DEF rm, pn
<1>3. /\ last >= 0 => rm >= 0 /\ (pn > 0 => rm > 0)
      /\ rm >= 0 /\ (pn > 0 => rm > 0) => last >= 0
  BY <1>1, RoomFacts
<1>4. QED
  BY <1>1, <1>2, <1>3

\* The byte loop, from a value on.
LEMMA WrittenExact ==
    ASSUME NEW n \in Nat, NEW ks \in [1 .. n -> Nat], NEW from \in 0 .. n, NEW st,
           NEW all \in Int, Exact(st, all - Taken(ks)[from], all - Taken(ks)[n])
    PROVE  RoomForAll(Written(ks, from, st)) <=> Taken(ks)[n] <= all
<1> DEFINE t == Taken(ks)
           last == all - t[n]
           L == n - from
           Loop(g) == g = [j \in from .. Len(ks) |->
                             IF j = from THEN st ELSE WriteValue(g[j - 1], ks[j])]
           written == CHOOSE g : Loop(g)
           T == {x \in LoopState : x.pending < ByteBits}
           F == [m \in 1 .. L |-> [x \in T |-> WriteValue(x, ks[from + m])]]
<1>0. Len(ks) = n
  OBVIOUS
<1>1. Written(ks, from, st) = written[n]
  BY <1>0, Zenon DEF Written
<1>2. /\ \A j \in 0 .. n : t[j] \in Nat
      /\ \A j \in 1 .. n : t[j] = t[j - 1] + ks[j] + 1
  BY TakenFacts
<1>3. \A j \in 0 .. n : t[j] <= t[n]
  <2> SUFFICES ASSUME NEW j \in 0 .. n PROVE t[j] <= t[n]
    OBVIOUS
  <2>1. n \in j .. n
    OBVIOUS
  <2>2. t[n] >= t[j] + (n - j) /\ t[j] \in Nat /\ t[n] \in Nat
    BY <2>1, TakenBounds
  <2> HIDE DEF t
  <2>3. QED
    BY <2>2
<1>4. Exact(st, all - t[from], last)
  OBVIOUS
<1> HIDE DEF t
<1>5. last \in Int
  BY <1>2
<1> HIDE DEF last
<1>6. st \in T
  BY <1>4 DEF Exact
<1>7. \A x \in T : \A k \in Nat : WriteValue(x, k) \in T
  <2> SUFFICES ASSUME NEW x \in T, NEW k \in Nat PROVE WriteValue(x, k) \in T
    OBVIOUS
  <2> DEFINE left == x.room * ByteBits - x.pending
  <2>1. x \in LoopState /\ x.pending < ByteBits /\ x.room \in Int /\ x.pending \in Nat
        /\ x.ok \in BOOLEAN
    BY DEF LoopState
  <2>2. left \in Int /\ x.room * ByteBits = left + x.pending
    <3> DEFINE y == x.room * ByteBits
    <3>1. y \in Int
      BY <2>1, SizeFacts
    <3> HIDE DEF y
    <3>2. left = y - x.pending
      BY DEF y
    <3> HIDE DEF left
    <3>3. left \in Int /\ y = left + x.pending
      BY <2>1, <3>1, <3>2
    <3>4. QED
      BY <3>3 DEF y
  <2> HIDE DEF left, T
  <2> DEFINE w == Write(x, k + 1)
  <2>3. /\ w = [ok |-> x.ok, pending |-> w.pending, room |-> w.room]
        /\ w.pending \in Nat /\ w.pending < ByteBits /\ w.room \in Int
    <3>1. k + 1 \in Nat
      OBVIOUS
    <3>2. QED
      BY <2>1, <2>2, <3>1, WriteFacts
  <2>4. WriteValue(x, k) = [w EXCEPT !.ok = x.ok /\ w.room >= 0]
    BY Zenon DEF WriteValue
  <2> HIDE DEF w
  <2>5. WriteValue(x, k) = [ok |-> x.ok /\ w.room >= 0, pending |-> w.pending, room |-> w.room]
    BY <2>3, <2>4
  <2>6. QED
    BY <2>1, <2>3, <2>5 DEF LoopState, T
<1> HIDE DEF T
<1>8. \A x \in T : \A m \in 1 .. L : F[m][x] = WriteValue(x, ks[from + m])
  OBVIOUS
<1>9. L \in Nat /\ \A m \in 1 .. L : from + m \in 1 .. n /\ ks[from + m] \in Nat
  OBVIOUS
<1>10. \A x \in T : \A m \in 1 .. L : F[m][x] \in T
  BY <1>7, <1>8, <1>9
<1> HIDE DEF F
<1>11. PICK g \in [0 .. L -> T] : LoopStates(st, L, F, g)
  BY <1>6, <1>9, <1>10, LoopExists
<1> DEFINE f == [j \in from .. n |-> g[j - from]]
<1>12. \A j \in from .. n : f[j] = IF j = from THEN st ELSE WriteValue(f[j - 1], ks[j])
  <2> SUFFICES ASSUME NEW j \in from .. n
               PROVE  f[j] = IF j = from THEN st ELSE WriteValue(f[j - 1], ks[j])
    OBVIOUS
  <2>1. j - from \in 0 .. L /\ f[j] = g[j - from]
    OBVIOUS
  <2>2. g[j - from] = IF j - from = 0 THEN st ELSE F[j - from][g[j - from - 1]]
    BY <1>11, <2>1, Zenon DEF LoopStates
  <2>3. CASE j = from
    BY <2>1, <2>2, <2>3
  <2>4. CASE j # from
    <3>1. /\ j - from # 0 /\ j - from \in 1 .. L /\ j - from - 1 \in 0 .. L
          /\ j - 1 \in from .. n /\ (j - 1) - from = j - from - 1 /\ from + (j - from) = j
      BY <2>4
    <3>2. f[j - 1] = g[j - from - 1] /\ g[j - from - 1] \in T
      BY <1>11, <3>1
    <3> HIDE DEF f, L
    <3>3. F[j - from][g[j - from - 1]] = WriteValue(g[j - from - 1], ks[j])
      <4>1. F[j - from][g[j - from - 1]] = WriteValue(g[j - from - 1], ks[from + (j - from)])
        BY <1>8, <3>1, <3>2
      <4>2. QED
        BY <3>1, <4>1
    <3>4. QED
      BY <2>1, <2>2, <2>4, <3>1, <3>2, <3>3, Zenon
  <2>5. QED
    BY <2>3, <2>4
<1>13. f = [j \in from .. n |-> f[j]]
  OBVIOUS
<1> HIDE DEF f
<1>14. Loop(f)
  BY <1>0, <1>12, <1>13, Zenon
<1> HIDE DEF Loop
<1>15. Loop(written)
  BY <1>14
<1> HIDE DEF written
<1>16. \A j \in from .. n : written[j] = IF j = from THEN st ELSE WriteValue(written[j - 1], ks[j])
  BY <1>0, <1>15, Zenon DEF Loop
<1> DEFINE G == {m \in 0 .. L : Exact(written[from + m], all - t[from + m], last)}
<1>17. 0 \in G
  <2>1. from + 0 = from /\ from \in from .. n /\ 0 \in 0 .. L
    BY <1>9
  <2>2. written[from] = st
    BY <1>16, <2>1, Zenon
  <2>3. QED
    BY <1>4, <2>1, <2>2
<1>18. ASSUME NEW m \in 1 .. L, m - 1 \in G PROVE m \in G
  <2> DEFINE j == from + m
             x == written[j - 1]
  <2>1. /\ j \in from .. n /\ j # from /\ j \in 1 .. n /\ j - 1 \in 0 .. n /\ j \in 0 .. n
        /\ from + (m - 1) = j - 1 /\ m \in 0 .. L
    BY <1>9
  <2>2. Exact(x, all - t[j - 1], last)
    <3> HIDE DEF j
    <3>1. Exact(written[from + (m - 1)], all - t[from + (m - 1)], last)
      BY <1>18
    <3>2. QED
      BY <2>1, <3>1, Zenon
  <2> HIDE DEF j, x
  <2>3. written[j] = WriteValue(x, ks[j])
    BY <1>16, <2>1, Zenon DEF x
  <2> DEFINE left == all - t[j - 1]
             k == ks[j]
  <2>4. left \in Int /\ k \in Nat /\ left - (k + 1) = all - t[j] /\ left - (k + 1) >= last
    <3>1. t[j] = t[j - 1] + k + 1 /\ t[j] \in Nat /\ t[j - 1] \in Nat /\ t[n] \in Nat /\ t[j] <= t[n]
      BY <1>2, <1>3, <2>1
    <3>2. k \in Nat
      BY <2>1
    <3> DEFINE tj == t[j]
               tp == t[j - 1]
               tn == t[n]
    <3> HIDE DEF k, tj, tp, tn
    <3>3. tj = tp + k + 1 /\ tj \in Nat /\ tp \in Nat /\ tn \in Nat /\ tj <= tn
      BY <3>1 DEF tj, tp, tn
    <3>4. all - tp \in Int /\ all - tp - (k + 1) = all - tj /\ all - tp - (k + 1) >= all - tn
      BY <3>2, <3>3
    <3>5. QED
      BY <3>2, <3>4 DEF tj, tp, tn, last
  <2>5. Exact(x, left, last)
    BY <2>2
  <2> HIDE DEF left, k
  <2>6. Exact(WriteValue(x, k), left - (k + 1), last)
    BY <1>5, <2>4, <2>5, WriteValueExact
  <2>7. Exact(written[j], all - t[j], last)
    BY <2>3, <2>4, <2>6, Zenon DEF k
  <2>8. QED
    BY <2>1, <2>7 DEF j
<1> HIDE DEF G
<1>19. \A m \in 0 .. L : m \in G
  BY <1>9, <1>17, <1>18, EveryTurn
<1>20. L \in G /\ from + L = n
  <2>1. L \in 0 .. L
    BY <1>9
  <2>2. from + L = n
    OBVIOUS
  <2>3. QED
    BY <1>19, <2>1, <2>2
<1>21. Exact(written[n], last, last)
  <2>1. Exact(written[from + L], all - t[from + L], last)
    BY <1>20 DEF G
  <2>2. QED
    BY <1>20, <2>1, Zenon DEF last
<1>22. RoomForAll(written[n]) <=> last >= 0
  BY <1>5, <1>21, RoomForAllExact
<1>23. last >= 0 <=> t[n] <= all
  BY <1>2 DEF last
<1>24. QED
  BY <1>1, <1>22, <1>23 DEF t

LEMMA BeginExact ==
    ASSUME NEW space \in Nat, NEW last \in Int
    PROVE  Exact(Begin(space), space * ByteBits, last)
<1> DEFINE all == space * ByteBits
<1>1. all \in Nat /\ all = all + 0
  BY SizeFacts
<1>2. Begin(space) = [ok |-> TRUE, pending |-> 0, room |-> space]
  BY DEF Begin
<1>3. Begin(space) \in LoopState /\ Begin(space).ok = TRUE
      /\ Begin(space).pending = 0 /\ Begin(space).room = space
  BY <1>2 DEF LoopState
<1>4. 0 < ByteBits
  BY SizeFacts
<1>5. QED
  BY <1>1, <1>3, <1>4 DEF Exact

\* By bytes: it fits if it does.
LEMMA ByBytesExact ==
    ASSUME NEW n \in Nat, NEW ks \in [1 .. n -> Nat], NEW space \in Nat
    PROVE  FitsByBytes(ks, space) <=> Taken(ks)[n] <= space * ByteBits
<1> DEFINE all == space * ByteBits
           t == Taken(ks)
<1>1. all \in Int
  BY SizeFacts
<1>2. t[0] = 0 /\ t[n] \in Nat
  BY TakenFacts
<1> HIDE DEF t
<1>3. all - t[n] \in Int /\ all - t[0] = all
  BY <1>1, <1>2
<1>4. Exact(Begin(space), all - t[0], all - t[n])
  BY <1>3, BeginExact
<1>5. RoomForAll(Written(ks, 0, Begin(space))) <=> t[n] <= all
  <2>1. 0 \in 0 .. n
    OBVIOUS
  <2> HIDE DEF all
  <2>2. QED
    BY <1>1, <1>4, <2>1, WrittenExact DEF t
<1>6. QED
  BY <1>5, Zenon DEF FitsByBytes, t

\* A group: it stops only if there are too few bytes left in the end, and
\* while it does not, a word has room.
LEMMA WriteGroupExact ==
    ASSUME NEW st, NEW k \in Nat, NEW left \in Int, NEW last \in Int, Exact(st, left, last),
           left >= last + WordSize * ByteBits, ByteBits - 1 + k <= WordSize * ByteBits
    PROVE  Exact(WriteGroup(st, k), left - k, last)
<1> DEFINE w == Write(st, k)
           new == WriteGroup(st, k)
           rest == left - k
<1>1. /\ st \in LoopState /\ st.pending < ByteBits /\ st.room * ByteBits = left + st.pending
      /\ last >= 0 => st.ok
      /\ st.ok \in BOOLEAN /\ st.room \in Int /\ st.pending \in Nat
  BY DEF Exact, LoopState
<1>2. /\ w = [ok |-> st.ok, pending |-> w.pending, room |-> w.room]
      /\ w.pending \in Nat /\ w.pending < ByteBits /\ w.room \in Int
      /\ w.room * ByteBits = rest + w.pending
      /\ w.room = st.room - ((st.pending + k) \div ByteBits)
  BY <1>1, WriteFacts
<1>3. new = [w EXCEPT !.ok = st.ok /\ st.room >= WordSize]
  BY Zenon DEF WriteGroup
<1> HIDE DEF w, new, rest
<1> DEFINE rm == w.room
           pn == w.pending
           old == st.room
<1>4. new = [ok |-> st.ok /\ old >= WordSize, pending |-> pn, room |-> rm]
  BY <1>2, <1>3
<1>5. rm \in Int /\ pn \in Nat /\ pn < ByteBits /\ rm * ByteBits = rest + pn
  BY <1>2
<1>6. new \in LoopState /\ new.pending = pn /\ new.room = rm
      /\ new.ok = (st.ok /\ old >= WordSize)
  BY <1>1, <1>4, <1>5 DEF LoopState
<1>7. last >= 0 => old >= WordSize
  <2>1. WordSize \in Nat /\ WordSize * ByteBits \in Nat
    BY SizeFacts
  <2> DEFINE ww == WordSize * ByteBits
  <2>2. last >= 0 => left >= ww
    <3> HIDE DEF ww
    <3>1. ww \in Nat /\ left >= last + ww
      BY <2>1 DEF ww
    <3>2. QED
      BY <3>1
  <2>3. \A j \in Nat : left >= j * ByteBits => old >= j
    <3> DEFINE po == st.pending
    <3>1. old \in Int /\ po \in Nat /\ po < ByteBits /\ old * ByteBits = left + po
      BY <1>1
    <3> HIDE DEF old, po
    <3>2. QED
      BY <3>1, RoomFacts
  <2> HIDE DEF old
  <2>4. QED
    BY <2>1, <2>2, <2>3
<1>8. (st.pending + k) \div ByteBits <= WordSize
  <2> DEFINE B == ByteBits
             l == st.pending + k
             q == l \div B
             po == st.pending
  <2>1. B \in Nat /\ B > 0 /\ WordSize \in Nat
    BY SizeFacts
  <2>2. po \in Nat /\ po < B /\ l = po + k /\ l \in Nat
    BY <1>1
  <2> DEFINE ww == WordSize * B
  <2>3. B - 1 + k <= ww /\ ww \in Nat
    BY <2>1
  <2> HIDE DEF B, l, po, ww
  <2>4. l <= ww
    BY <2>1, <2>2, <2>3
  <2>5. q \in Nat /\ q * B <= l
    BY <2>1, <2>2
  <2> HIDE DEF q
  <2>6. q >= WordSize + 1 => q * B >= (WordSize + 1) * B
    BY <2>1, <2>5
  <2>7. (WordSize + 1) * B = ww + B /\ q * B \in Nat
    BY <2>1, <2>5 DEF ww
  <2>8. ~(q >= WordSize + 1)
    BY <2>1, <2>2, <2>3, <2>4, <2>5, <2>6, <2>7
  <2>9. q <= WordSize
    BY <2>1, <2>5, <2>8
  <2>10. QED
    BY <2>9 DEF q, l, B
<1>9. old >= WordSize => rm >= 0
  <2> DEFINE q == (st.pending + k) \div ByteBits
  <2>1. rm = old - q
    BY <1>2
  <2>2. q \in Int /\ old \in Int /\ WordSize \in Nat
    BY <1>1, SizeFacts
  <2>3. q <= WordSize
    BY <1>8
  <2> HIDE DEF q, rm, old
  <2>4. QED
    BY <2>1, <2>2, <2>3
<1> HIDE DEF rm, pn, old
<1>10. last >= 0 => new.ok
  BY <1>1, <1>6, <1>7
<1>11. /\ new.pending < ByteBits /\ new.room * ByteBits = rest + new.pending
       /\ new.ok => new.room >= 0
  BY <1>5, <1>6, <1>9
<1>12. Exact(new, rest, last)
  BY <1>6, <1>10, <1>11, Zenon DEF Exact
<1>13. QED
  BY <1>12 DEF new, rest

\* Where the groups are: a word of bits or more is still to come.
LEMMA GroupFacts ==
    ASSUME NEW n \in Nat
    PROVE  /\ Groups(n) \in Nat
           /\ GroupSize * Groups(n) \in 0 .. n
           /\ \A j \in 1 .. Groups(n) :
                 /\ GroupSize * (j - 1) \in 0 .. n
                 /\ GroupSize * j = GroupSize * (j - 1) + GroupSize
                 /\ GroupSize * j \in GroupSize * (j - 1) .. n
                 /\ n - GroupSize * (j - 1) >= WordSize * ByteBits
<1> DEFINE ww == WordSize * ByteBits
           G == GroupSize
           q == (n - ww) \div G
<1>1. G \in Nat /\ G > 0 /\ ww \in Nat
  BY SizeFacts
<1>2. G <= ww
  <2> DEFINE gh == G * HiSig
  <2>1. ww >= ByteBits - 1 + gh
    BY WordAssumption
  <2>2. gh >= G /\ gh \in Nat
    BY SizeFacts
  <2> HIDE DEF gh, ww, G
  <2>3. QED
    BY <1>1, <2>1, <2>2, SizeFacts
<1>3. Groups(n) = IF n < ww THEN 0 ELSE q + 1
  BY Zenon DEF Groups, LastStart
<1> HIDE DEF ww, G
<1>4. CASE n < ww
  <2>1. Groups(n) = 0
    BY <1>3, <1>4
  <2>2. G * 0 = 0 /\ \A j \in 1 .. 0 : FALSE
    BY <1>1
  <2>3. QED
    BY <2>1, <2>2 DEF G
<1>5. CASE ~(n < ww)
  <2> DEFINE m == n - ww
  <2>1. m \in Nat
    BY <1>1, <1>5
  <2> HIDE DEF m
  <2>2. q = m \div G
    BY DEF m
  <2>3. q \in Nat /\ G * q <= m
    BY <1>1, <2>1, <2>2
  <2> HIDE DEF q
  <2>4. Groups(n) = q + 1
    BY <1>3, <1>5
  <2>5. ASSUME NEW j \in 1 .. q + 1
        PROVE  /\ G * (j - 1) \in 0 .. n
               /\ G * j = G * (j - 1) + G
               /\ G * j \in G * (j - 1) .. n
               /\ n - G * (j - 1) >= ww
    <3>1. G * (j - 1) \in Nat /\ G * j = G * (j - 1) + G
      BY <1>1
    <3>2. G * (j - 1) <= G * q
      <4>1. j - 1 \in Nat /\ j - 1 <= q
        BY <2>3
      <4>2. QED
        BY <1>1, <2>3, <4>1
    <3> DEFINE x == G * (j - 1)
               y == G * q
    <3>3. x \in Nat /\ y \in Nat /\ x <= y /\ y <= m /\ G * j = x + G
      BY <1>1, <2>3, <3>1, <3>2
    <3> HIDE DEF x, y
    <3>4. x + ww <= n /\ x + G <= n
      BY <1>1, <1>2, <2>1, <3>3 DEF m
    <3>5. x \in 0 .. n /\ G * j \in x .. n /\ n - x >= ww
      BY <1>1, <3>3, <3>4
    <3>6. QED
      BY <3>1, <3>5 DEF x
  <2>6. G * (q + 1) \in 0 .. n
    <3>1. q + 1 \in 1 .. q + 1
      BY <2>3
    <3>2. G * (q + 1) \in Nat /\ G * (q + 1) <= n
      <4>1. /\ G * ((q + 1) - 1) \in 0 .. n
            /\ G * (q + 1) \in G * ((q + 1) - 1) .. n
        BY <2>5, <3>1
      <4>2. QED
        BY <4>1
    <3>3. QED
      BY <3>2
  <2>7. q + 1 \in Nat
    BY <2>3
  <2>8. QED
    BY <2>4, <2>5, <2>6, <2>7 DEF G, ww
<1>6. QED
  BY <1>4, <1>5

\* By words: it fits if it does, just as well.
LEMMA ByWordsExact ==
    ASSUME NEW n \in Nat, NEW ks \in [1 .. n -> Nat], NEW space \in Nat,
           \A u \in 1 .. n : ks[u] < HiSig
    PROVE  FitsByWords(ks, space) <=> Taken(ks)[n] <= space * ByteBits
<1> DEFINE all == space * ByteBits
           t == Taken(ks)
           last == all - t[n]
           m == Groups(n)
           size(j) == t[GroupSize * j] - t[GroupSize * (j - 1)]
           Loop(g) == g = [j \in 0 .. m |-> IF j = 0 THEN Begin(space)
                                            ELSE WriteGroup(g[j - 1], size(j))]
           words == CHOOSE g : Loop(g)
           T == {x \in LoopState : x.pending < ByteBits}
           F == [j \in 1 .. m |-> [x \in T |-> WriteGroup(x, size(j))]]
<1>0. Len(ks) = n
  OBVIOUS
<1>1. FitsByWords(ks, space) <=> RoomForAll(Written(ks, GroupSize * m, words[m]))
  BY <1>0, Zenon DEF FitsByWords
<1>2. all \in Int /\ t[0] = 0 /\ t[n] \in Nat
  BY TakenFacts, SizeFacts
<1>3. /\ m \in Nat /\ GroupSize * m \in 0 .. n
      /\ \A j \in 1 .. m :
            /\ GroupSize * (j - 1) \in 0 .. n
            /\ GroupSize * j = GroupSize * (j - 1) + GroupSize
            /\ GroupSize * j \in GroupSize * (j - 1) .. n
            /\ n - GroupSize * (j - 1) >= WordSize * ByteBits
  BY GroupFacts
<1> HIDE DEF m
<1>4. ASSUME NEW j \in 1 .. m
      PROVE  /\ size(j) \in Nat /\ ByteBits - 1 + size(j) <= WordSize * ByteBits
             /\ t[GroupSize * (j - 1)] \in Nat /\ t[GroupSize * j] \in Nat
             /\ t[n] >= t[GroupSize * (j - 1)] + WordSize * ByteBits
  <2> DEFINE u == GroupSize * (j - 1)
             v == GroupSize * j
  <2>1. u \in 0 .. n /\ v \in u .. n /\ n \in u .. n /\ v - u = GroupSize
        /\ n - u >= WordSize * ByteBits
    <3>1. u \in 0 .. n /\ v = u + GroupSize /\ v \in u .. n /\ n - u >= WordSize * ByteBits
      BY <1>3
    <3> HIDE DEF u, v
    <3>2. QED
      BY <3>1, SizeFacts
  <2> HIDE DEF u, v
  <2>2. /\ t[u] \in Nat /\ t[v] \in Nat
        /\ t[v] >= t[u] + (v - u)
        /\ t[v] <= t[u] + (v - u) * HiSig
    BY <2>1, SizeFacts, TakenBounds
  <2>3. t[n] \in Nat /\ t[n] >= t[u] + (n - u)
    BY <2>1, SizeFacts, TakenBounds
  <2> DEFINE gh == GroupSize * HiSig
             ww == WordSize * ByteBits
             tu == t[u]
             tv == t[v]
             tn == t[n]
  <2>4. gh \in Nat /\ ww \in Nat /\ ww >= ByteBits - 1 + gh
    BY SizeFacts, WordAssumption
  <2>5. /\ tu \in Nat /\ tv \in Nat /\ tn \in Nat /\ tv >= tu + (v - u) /\ tv <= tu + gh
        /\ tn >= tu + (n - u) /\ v - u = GroupSize /\ n - u >= ww
    BY <2>1, <2>2, <2>3
  <2> HIDE DEF gh, ww, tu, tv, tn
  <2>6. tv - tu \in Nat /\ ByteBits - 1 + (tv - tu) <= ww /\ tn >= tu + ww
    BY <2>1, <2>4, <2>5, SizeFacts
  <2>7. QED
    BY <2>5, <2>6 DEF tu, tv, tn, ww, u, v
<1> HIDE DEF t
<1>5. last \in Int
  BY <1>2
<1> HIDE DEF last
<1>6. Begin(space) \in T
  <2>1. Exact(Begin(space), all, last)
    BY <1>5, BeginExact
  <2>2. QED
    BY <2>1 DEF Exact
<1>7. \A x \in T : \A k \in Nat : WriteGroup(x, k) \in T
  <2> SUFFICES ASSUME NEW x \in T, NEW k \in Nat PROVE WriteGroup(x, k) \in T
    OBVIOUS
  <2> DEFINE left == x.room * ByteBits - x.pending
  <2>1. x \in LoopState /\ x.pending < ByteBits /\ x.room \in Int /\ x.pending \in Nat
        /\ x.ok \in BOOLEAN
    BY DEF LoopState
  <2>2. left \in Int /\ x.room * ByteBits = left + x.pending
    <3> DEFINE y == x.room * ByteBits
    <3>1. y \in Int
      BY <2>1, SizeFacts
    <3> HIDE DEF y
    <3>2. left = y - x.pending
      BY DEF y
    <3> HIDE DEF left
    <3>3. left \in Int /\ y = left + x.pending
      BY <2>1, <3>1, <3>2
    <3>4. QED
      BY <3>3 DEF y
  <2> HIDE DEF left, T
  <2> DEFINE w == Write(x, k)
  <2>3. /\ w = [ok |-> x.ok, pending |-> w.pending, room |-> w.room]
        /\ w.pending \in Nat /\ w.pending < ByteBits /\ w.room \in Int
    BY <2>1, <2>2, WriteFacts
  <2>4. WriteGroup(x, k) = [w EXCEPT !.ok = x.ok /\ x.room >= WordSize]
    BY Zenon DEF WriteGroup
  <2> HIDE DEF w
  <2>5. WriteGroup(x, k)
        = [ok |-> x.ok /\ x.room >= WordSize, pending |-> w.pending, room |-> w.room]
    BY <2>3, <2>4
  <2>6. QED
    BY <2>1, <2>3, <2>5 DEF LoopState, T
<1> HIDE DEF T
<1>8. \A x \in T : \A j \in 1 .. m : F[j][x] = WriteGroup(x, size(j))
  OBVIOUS
<1>9. \A x \in T : \A j \in 1 .. m : F[j][x] \in T
  <2>1. \A j \in 1 .. m : size(j) \in Nat
    BY <1>4
  <2> HIDE DEF size
  <2>2. QED
    BY <1>7, <1>8, <2>1
<1> HIDE DEF F
<1>10. PICK g \in [0 .. m -> T] : LoopStates(Begin(space), m, F, g)
  BY <1>3, <1>6, <1>9, LoopExists
<1>11. \A j \in 0 .. m : g[j] = IF j = 0 THEN Begin(space) ELSE WriteGroup(g[j - 1], size(j))
  <2> SUFFICES ASSUME NEW j \in 0 .. m
               PROVE  g[j] = IF j = 0 THEN Begin(space) ELSE WriteGroup(g[j - 1], size(j))
    OBVIOUS
  <2>1. g[j] = IF j = 0 THEN Begin(space) ELSE F[j][g[j - 1]]
    BY <1>10, Zenon DEF LoopStates
  <2>2. j # 0 => j \in 1 .. m /\ j - 1 \in 0 .. m
    BY <1>3
  <2>3. j # 0 => F[j][g[j - 1]] = WriteGroup(g[j - 1], size(j))
    BY <1>8, <1>10, <2>2
  <2>4. QED
    BY <2>1, <2>3, Zenon
<1>12. g = [j \in 0 .. m |-> g[j]]
  BY <1>10
<1>13. Loop(g)
  BY <1>11, <1>12, Zenon
<1> HIDE DEF Loop
<1>14. Loop(words)
  BY <1>13
<1> HIDE DEF words
<1>15. \A j \in 0 .. m : words[j] = IF j = 0 THEN Begin(space)
                                   ELSE WriteGroup(words[j - 1], size(j))
  BY <1>14, Zenon DEF Loop
<1> DEFINE H == {j \in 0 .. m : Exact(words[j], all - t[GroupSize * j], last)}
<1>16. 0 \in H
  <2>1. GroupSize * 0 = 0 /\ 0 \in 0 .. m
    BY <1>3, SizeFacts
  <2>2. all - t[0] = all
    BY <1>2
  <2>3. words[0] = Begin(space)
    BY <1>15, <2>1, Zenon
  <2>4. Exact(Begin(space), all, last)
    BY <1>5, BeginExact
  <2>5. QED
    BY <2>1, <2>2, <2>3, <2>4, Zenon
<1>17. ASSUME NEW j \in 1 .. m, j - 1 \in H PROVE j \in H
  <2> DEFINE x == words[j - 1]
             tu == t[GroupSize * (j - 1)]
             tv == t[GroupSize * j]
             k == size(j)
             left == all - tu
             ww == WordSize * ByteBits
             tn == t[n]
  <2>1. Exact(x, left, last)
    BY <1>17
  <2>2. /\ k \in Nat /\ k = tv - tu /\ ByteBits - 1 + k <= ww
        /\ tu \in Nat /\ tv \in Nat /\ tn >= tu + ww /\ tn \in Nat /\ ww \in Nat
    BY <1>2, <1>4, SizeFacts
  <2>3. words[j] = WriteGroup(x, k)
    <3>1. j \in 0 .. m /\ j # 0
      BY <1>3
    <3> HIDE DEF size
    <3>2. QED
      BY <1>15, <3>1, Zenon
  <2> HIDE DEF x, tu, tv, k, tn
  <2>4. left \in Int /\ left >= last + ww /\ left - k = all - tv
    <3> HIDE DEF all, ww
    <3>1. last = all - tn
      BY DEF last, tn
    <3>2. QED
      BY <1>2, <2>2, <3>1
  <2> HIDE DEF left
  <2>5. Exact(WriteGroup(x, k), left - k, last)
    BY <1>5, <2>1, <2>2, <2>4, WriteGroupExact
  <2>6. Exact(words[j], all - tv, last)
    BY <2>3, <2>4, <2>5, Zenon
  <2>7. j \in 0 .. m
    BY <1>3
  <2>8. QED
    BY <2>6, <2>7 DEF tv
<1> HIDE DEF H
<1>18. \A j \in 0 .. m : j \in H
  BY <1>3, <1>16, <1>17, EveryTurn
<1>19. Exact(words[m], all - t[GroupSize * m], last)
  <2>1. m \in H
    BY <1>3, <1>18
  <2>2. QED
    BY <2>1 DEF H
<1>20. RoomForAll(Written(ks, GroupSize * m, words[m])) <=> t[n] <= all
  <2> DEFINE from == GroupSize * m
             st == words[m]
  <2>1. from \in 0 .. n
    BY <1>3
  <2>2. Exact(st, all - t[from], all - t[n])
    BY <1>19, Zenon DEF last
  <2> HIDE DEF from, st, all
  <2>3. RoomForAll(Written(ks, from, st)) <=> t[n] <= all
    BY <1>2, <2>1, <2>2, WrittenExact DEF t
  <2>4. QED
    BY <2>3 DEF from, st
<1>21. QED
  BY <1>1, <1>20, Zenon DEF t
\* What the room for the unary part is, in bits.
LEMMA VariableFacts ==
    /\ VariableRoom \in Int
    /\ VariableRoom * ByteBits = (SignatureArea - SaltArea) - (LenSig + LowSig * LenSig)
    /\ ~LeastRoom => VariableRoom * ByteBits < LenSig
    /\ LeastRoom => VariableRoom \in Nat
<1> DEFINE B == ByteBits
           n == LenSig
           l == LowSig
           k == LenSig \div ByteBits
           z == SigSize
           s == SaltSize
           vr == VariableRoom
<1>1. /\ B \in Nat /\ B > 0 /\ n \in Nat /\ n > 0 /\ l \in Nat /\ z \in Nat /\ s \in Nat
  BY SizeFacts
<1>2. n % B = 0
  BY CodeAssumption
<1>3. k \in Nat /\ n = k * B
  BY <1>1, <1>2
<1>4. vr = z - s - k * (l + 1) /\ (LeastRoom <=> vr >= k)
  BY DEF VariableRoom, LeastRoom
<1> HIDE DEF B, n, l, k, z, s, vr
<1>5. vr \in Int
  BY <1>1, <1>3, <1>4
<1>6. vr * B = (z * B - s * B) - (n + l * n)
  <2>1. (k * (l + 1)) * B = k * B + l * (k * B)
    BY <1>1, <1>3
  <2>2. (z - s - k * (l + 1)) * B = z * B - s * B - (k * (l + 1)) * B
    BY <1>1, <1>3
  <2>3. QED
    BY <1>1, <1>3, <1>4, <2>1, <2>2
<1>7. vr < k => vr * B < n
  <2>1. vr < k => (k - vr) * B > 0
    BY <1>1, <1>3, <1>5
  <2>2. (k - vr) * B = k * B - vr * B /\ vr * B \in Int /\ k * B \in Int
    BY <1>1, <1>3, <1>5
  <2>3. QED
    BY <1>3, <2>1, <2>2
<1>8. QED
  BY <1>3, <1>4, <1>5, <1>6, <1>7 DEF B, n, l, z, s, vr, SignatureArea, SaltArea

\* encode_sig(), of either build, refuses what does not fit, and nothing else.
LEMMA EncodeSigExact ==
    ASSUME NEW words \in BOOLEAN, NEW salt, NEW s1 \in [1 .. LenSig -> Int],
           Small(s1, LenSig, LowSig, HiSig)
    PROVE  EncodeSig(words, salt, s1) =
              IF SaltArea + Len(EncodeGR(s1, LowSig)) <= SignatureArea
              THEN Pad(salt \o EncodeGR(s1, LowSig), SignatureArea) ELSE NoBits
<1> DEFINE n == LenSig
           ks == [u \in 1 .. LenSig |-> Rest(s1[u], LowSig)]
           T == Taken(ks)[LenSig]
           fits == IF words THEN FitsByWords(ks, VariableRoom)
                   ELSE FitsByBytes(ks, VariableRoom)
<1>1. n \in Nat /\ n > 0 /\ LowSig \in Nat
  BY SizeFacts
<1>2. /\ ks \in [1 .. n -> Nat] /\ \A u \in 1 .. n : ks[u] = Rest(s1[u], LowSig)
      /\ \A u \in 1 .. n : ks[u] < HiSig
  <2>1. \A u \in 1 .. n : Rest(s1[u], LowSig) \in Nat
    BY <1>1, ValueFacts
  <2>2. QED
    BY <2>1 DEF Small
<1>3. DOMAIN s1 = 1 .. LenSig
  OBVIOUS
<1>4. EncodeSig(words, salt, s1) =
         IF LeastRoom /\ fits THEN Pad(salt \o EncodeGR(s1, LowSig), SignatureArea) ELSE NoBits
  BY <1>3 DEF EncodeSig, SignatureArea
<1> HIDE DEF ks
<1>5. T \in Nat /\ T >= n
  <2>1. 0 \in 0 .. n /\ n \in 0 .. n /\ Taken(ks)[0] = 0
    <3>1. Taken(ks)[0] = 0
      BY <1>1, <1>2, TakenFacts
    <3>2. QED
      BY <1>1, <3>1
  <2>2. Taken(ks)[n] \in Nat /\ Taken(ks)[n] >= Taken(ks)[0] + (n - 0)
    BY <1>1, <1>2, <2>1, TakenBounds
  <2>3. QED
    BY <1>1, <2>1, <2>2
<1>6. Len(EncodeGR(s1, LowSig)) = n + LowSig * n + T
  BY <1>1, <1>2, LengthTaken
<1>7. LeastRoom => (fits <=> T <= VariableRoom * ByteBits)
  <2>1. LeastRoom => VariableRoom \in Nat
    BY VariableFacts
  <2>2. LeastRoom => (FitsByBytes(ks, VariableRoom) <=> T <= VariableRoom * ByteBits)
    BY <1>1, <1>2, <2>1, ByBytesExact
  <2>3. LeastRoom => (FitsByWords(ks, VariableRoom) <=> T <= VariableRoom * ByteBits)
    BY <1>1, <1>2, <2>1, ByWordsExact
  <2>4. QED
    BY <2>2, <2>3
<1> DEFINE L == Len(EncodeGR(s1, LowSig))
           V == VariableRoom * ByteBits
           w == LowSig * LenSig
<1>8. V = (SignatureArea - SaltArea) - (n + w) /\ (~LeastRoom => V < n)
  BY VariableFacts
<1>9. SignatureArea \in Nat /\ SaltArea \in Nat /\ w \in Nat
  BY <1>1, AreaFacts DEF SignatureArea, SaltArea
<1>10. L = n + w + T
  BY <1>6
<1> HIDE DEF T, n, L, V, w, fits
<1>11. (LeastRoom /\ fits) <=> SaltArea + L <= SignatureArea
  BY <1>1, <1>5, <1>7, <1>8, <1>9, <1>10 DEF V
<1>12. QED
  BY <1>4, <1>11 DEF L

-----------------------------------------------------------------------------
(***************************************************************************)
(* q00, with the bits of its first value that are coded apart.             *)
(***************************************************************************)
LEMMA PowerSum ==
    ASSUME NEW k \in Nat, NEW d \in Nat
    PROVE  Power(k + d) = Power(k) * Power(d)
<1> DEFINE G == {j \in 0 .. d : Power(k + j) = Power(k) * Power(j)}
<1>1. 0 \in G
  <2>1. Power(k) \in Nat /\ Power(0) = 1 /\ k + 0 = k
    BY PowerFacts
  <2>2. QED
    BY <2>1
<1>2. ASSUME NEW j \in 1 .. d, j - 1 \in G PROVE j \in G
  <2>1. /\ k + (j - 1) \in Nat /\ (k + (j - 1)) + 1 = k + j
        /\ j - 1 \in Nat /\ (j - 1) + 1 = j
    OBVIOUS
  <2>2. /\ Power(k + j) = 2 * Power(k + (j - 1)) /\ Power(j) = 2 * Power(j - 1)
        /\ Power(k) \in Nat /\ Power(j - 1) \in Nat
    BY <2>1, PowerFacts
  <2>3. Power(k + (j - 1)) = Power(k) * Power(j - 1)
    BY <1>2
  <2>4. \A x, y \in Nat : 2 * (x * y) = x * (2 * y)
    OBVIOUS
  <2>5. Power(k + j) = Power(k) * Power(j)
    BY <2>2, <2>3, <2>4
  <2>6. QED
    BY <2>5
<1> HIDE DEF G
<1>3. \A j \in 0 .. d : j \in G
  BY <1>1, <1>2, EveryTurn
<1>4. QED
  BY <1>3 DEF G

\* The range of an int16_t is that of half of what the code can say.
LEMMA HalfRange ==
    /\ Half16 \in Nat /\ Half16 > 0
    /\ 2 * Half16 = (Power(Low00) * Hi00) * Power(Extra)
    /\ Power(Low00) \in Nat /\ Power(Low00) > 0 /\ Power(Extra) \in Nat /\ Power(Extra) > 0
<1>1. /\ Low00 + Extra - 1 \in Nat /\ (Low00 + Extra - 1) + 1 = Low00 + Extra
      /\ Low00 \in Nat /\ Extra \in Nat /\ Hi00 \in Nat /\ Hi00 > 0
  BY SizeFacts
<1> DEFINE x == Power(Low00 + Extra - 1)
           y == Power(Low00)
           z == Power(Extra)
<1>2. x \in Nat /\ x > 0 /\ y \in Nat /\ y > 0 /\ z \in Nat /\ z > 0
  BY <1>1, PowerFacts
<1>3. 2 * x = y * z
  <2>1. Power(Low00 + Extra) = 2 * x
    BY <1>1, PowerFacts
  <2>2. Power(Low00 + Extra) = y * z
    BY <1>1, PowerSum
  <2>3. QED
    BY <2>1, <2>2
<1>4. Half16 = x * Hi00
  BY DEF Half16
<1> HIDE DEF x, y, z
<1>5. x * Hi00 \in Nat /\ x * Hi00 > 0 /\ 2 * (x * Hi00) = (2 * x) * Hi00
  BY <1>1, <1>2
<1>6. (y * z) * Hi00 = (y * Hi00) * z
  BY <1>1, <1>2
<1>7. QED
  BY <1>2, <1>3, <1>4, <1>5, <1>6 DEF y, z

LEMMA Int16Facts ==
    ASSUME NEW x \in Int
    PROVE  /\ Int16(x) \in -Half16 .. Half16 - 1
           /\ x \in -Half16 .. Half16 - 1 => Int16(x) = x
           /\ Int16(Int16(x)) = Int16(x)
<1> DEFINE H == Half16
           G(y) == ((y + H) % (2 * H)) - H
<1>1. H \in Nat /\ H > 0
  BY HalfRange
<1>2. \A y : Int16(y) = G(y)
  BY DEF Int16
<1> HIDE DEF H
<1>3. \A y \in Int : G(y) \in -H .. H - 1 /\ (y \in -H .. H - 1 => G(y) = y)
  BY <1>1
<1> HIDE DEF G
<1>4. QED
  BY <1>1, <1>2, <1>3 DEF H

\* What is coded of q00.
Scaled(q00) == [q00 EXCEPT ![1] = @ \div Power(Extra)]
Wrapped(q00) == [q00 EXCEPT ![1] = Int16(@)]

LEMMA ScaledFacts ==
    ASSUME NEW q00 \in [1 .. Len00 -> Int]
    PROVE  /\ Scaled(q00) \in [1 .. Len00 -> Int] /\ Scaled(q00)[1] \in Int
           /\ 1 \in 1 .. Len00 /\ q00[1] \in Int
           /\ Scaled(q00)[1] = q00[1] \div Power(Extra)
           /\ \A u \in 2 .. Len00 : Scaled(q00)[u] = q00[u]
           /\ q00[1] = Scaled(q00)[1] * Power(Extra) + (q00[1] % Power(Extra))
           /\ q00[1] % Power(Extra) \in 0 .. Power(Extra) - 1
           /\ Wrapped(q00) \in [1 .. Len00 -> Int]
           /\ Wrapped(q00)[1] = Int16(q00[1])
           /\ [Scaled(q00) EXCEPT ![1] = Int16(q00[1])] = Wrapped(q00)
           /\ (q00[1] = Int16(q00[1]) => Wrapped(q00) = q00)
<1> DEFINE E == Power(Extra)
           x == q00[1]
           y == x \div E
<1>1. E \in Nat /\ E > 0 /\ 1 \in 1 .. Len00 /\ Len00 \in Nat
  BY HalfRange, SizeFacts
<1>2. x \in Int
  BY <1>1
<1>3. Int16(x) \in Int
  <2>1. Half16 \in Nat /\ Int16(x) \in -Half16 .. Half16 - 1
    BY <1>2, Int16Facts, HalfRange
  <2>2. QED
    BY <2>1
<1>4. Scaled(q00) = [q00 EXCEPT ![1] = y] /\ Wrapped(q00) = [q00 EXCEPT ![1] = Int16(x)]
  BY DEF Scaled, Wrapped
<1> HIDE DEF E
<1>5. y \in Int /\ x = y * E + (x % E) /\ x % E \in 0 .. E - 1
  <2> HIDE DEF x
  <2>1. x % E \in 0 .. E - 1 /\ x \div E \in Int /\ x = E * (x \div E) + (x % E)
    BY <1>1, <1>2
  <2>2. E * (x \div E) = (x \div E) * E
    BY <1>1, <2>1
  <2>3. QED
    BY <2>1, <2>2
<1> HIDE DEF x, y
<1>6. /\ Scaled(q00) \in [1 .. Len00 -> Int] /\ Scaled(q00)[1] = y
      /\ \A u \in 2 .. Len00 : Scaled(q00)[u] = q00[u]
  BY <1>1, <1>4, <1>5, SMTT(20)
<1>7. /\ Wrapped(q00) \in [1 .. Len00 -> Int] /\ Wrapped(q00)[1] = Int16(x)
      /\ [Scaled(q00) EXCEPT ![1] = Int16(x)] = Wrapped(q00)
  BY <1>1, <1>3, <1>4
<1>8. x = Int16(x) => Wrapped(q00) = q00
  BY <1>1, <1>4 DEF x
<1>9. QED
  BY <1>1, <1>2, <1>5, <1>6, <1>7, <1>8 DEF x, y, E

\* The code of q00, in its two parts.
HeadParts(q00, gr, eb) ==
    gr = EncodeGR(Scaled(q00), Low00) /\ eb = q00[1] % Power(Extra)

LEMMA HeadFacts ==
    ASSUME NEW q00 \in [1 .. Len00 -> Int], NEW gr, NEW eb, HeadParts(q00, gr, eb)
    PROVE  /\ gr \in Seq(Bit) /\ Len(gr) \in Nat /\ Len(gr) > 0
           /\ eb \in Nat /\ eb < Power(Extra)
           /\ EncodeQ00(q00) \in Seq(Bit) /\ Len(EncodeQ00(q00)) = Len(gr) + Extra
           /\ \A x \in 1 .. Len(gr) : EncodeQ00(q00)[x] = gr[x]
           /\ \A x \in 1 .. Extra :
                 EncodeQ00(q00)[Len(gr) + x] = (eb \div Power(x - 1)) % 2
<1> DEFINE b == BitsOf(eb, Extra)
           s == Scaled(q00)
<1>0. gr = EncodeGR(s, Low00) /\ eb = q00[1] % Power(Extra)
  BY DEF HeadParts
<1>1. s \in [1 .. Len00 -> Int] /\ eb \in 0 .. Power(Extra) - 1
  BY <1>0, ScaledFacts
<1>2. Power(Extra) \in Nat /\ Extra \in Nat /\ Len00 \in Nat /\ Len00 > 0 /\ Low00 \in Nat
  BY HalfRange, SizeFacts
<1> HIDE DEF s
<1>3. gr \in Seq(Bit) /\ Len(gr) \in Nat /\ Len(gr) > 0
  <2>1. /\ EncodeGR(s, Low00) \in Seq(Bit)
        /\ \E ks, end : /\ Ends(Len00, Low00, ks, end)
                        /\ \A u \in 1 .. Len00 : ks[u] = Rest(s[u], Low00)
                        /\ Coded(EncodeGR(s, Low00), Len00, Low00, s, ks, end)
                        /\ Len(EncodeGR(s, Low00)) = end[Len00]
                        /\ end[Len00] >= Len00
    BY <1>1, <1>2, EncodeFacts
  <2>2. gr = EncodeGR(s, Low00)
    BY <1>0 DEF s
  <2>3. Len(gr) >= Len00 /\ gr \in Seq(Bit)
    BY <2>1, <2>2
  <2>4. QED
    BY <1>2, <2>3
<1>4. eb \in Nat /\ eb < Power(Extra)
  BY <1>1, <1>2
<1>5. b \in Seq(Bit) /\ Len(b) = Extra /\ \A x \in 1 .. Extra : b[x] = (eb \div Power(x - 1)) % 2
  BY <1>2, <1>4, BitsOfFacts
<1>6. EncodeQ00(q00) = gr \o b
  BY <1>0, Zenon DEF EncodeQ00, Scaled, s
<1> HIDE DEF b
<1>7. /\ gr \o b \in Seq(Bit) /\ Len(gr \o b) = Len(gr) + Len(b)
      /\ \A x \in 1 .. Len(gr) : (gr \o b)[x] = gr[x]
      /\ \A x \in 1 .. Len(b) : (gr \o b)[Len(gr) + x] = b[x]
  BY <1>3, <1>5, CatBits
<1>8. QED
  BY <1>3, <1>4, <1>5, <1>6, <1>7

\* A buffer that begins with the code of q00 and the rest of its last byte.
HeadCoded(bits, q00) ==
    /\ q00 \in [1 .. Len00 -> Int] /\ Small(Scaled(q00), Len00, Low00, Hi00)
    /\ Begins(bits, EncodeQ00(q00))
    /\ ToByte(Len(EncodeQ00(q00))) <= Len(bits)
    /\ AllZero(bits, Len(EncodeQ00(q00)) + 1, ToByte(Len(EncodeQ00(q00))))

LEMMA HeadDecodes ==
    ASSUME NEW bits \in Seq(Bit), NEW q00, HeadCoded(bits, q00)
    PROVE  /\ DecodeQ00(FALSE, bits)
              = [values |-> Wrapped(q00), used |-> ToByte(Len(EncodeQ00(q00)))]
           /\ DecodeQ00(FALSE, bits) # None
           /\ CodedHead(bits) = q00[1]
<1> DEFINE a == Scaled(q00)
           g == EncodeGR(a, Low00)
           eb == q00[1] % Power(Extra)
           s == EncodeQ00(q00)
           l == Len(g)
           t == ToByte(Len(s))
<1>1. /\ q00 \in [1 .. Len00 -> Int] /\ Small(a, Len00, Low00, Hi00)
      /\ Begins(bits, s) /\ t <= Len(bits) /\ AllZero(bits, Len(s) + 1, t)
  BY DEF HeadCoded
<1>2. Power(Extra) \in Nat /\ Extra \in Nat /\ Len00 \in Nat /\ Len00 > 0 /\ Low00 \in Nat
      /\ Hi00 \in Nat
  BY HalfRange, SizeFacts
<1>3. /\ g \in Seq(Bit) /\ l \in Nat /\ l > 0
      /\ eb \in Nat /\ eb < Power(Extra)
      /\ s \in Seq(Bit) /\ Len(s) = l + Extra
      /\ \A x \in 1 .. l : s[x] = g[x]
      /\ \A x \in 1 .. Extra : s[l + x] = (eb \div Power(x - 1)) % 2
  <2>1. HeadParts(q00, g, eb)
    BY DEF HeadParts
  <2> HIDE DEF g, eb
  <2>2. QED
    BY <1>1, <2>1, HeadFacts
<1>4. /\ a \in [1 .. Len00 -> Int] /\ a[1] \in Int /\ q00[1] = a[1] * Power(Extra) + eb
      /\ [a EXCEPT ![1] = Int16(q00[1])] = Wrapped(q00)
  BY <1>1, ScaledFacts
<1> HIDE DEF a, g, eb, s, l
<1>5. /\ Len(s) <= Len(bits) /\ l <= Len(bits)
      /\ \A x \in 1 .. l : bits[x] = g[x]
      /\ \A x \in 1 .. Extra : bits[l + x] = (eb \div Power(x - 1)) % 2
  <2>1. Len(s) <= Len(bits) /\ \A x \in 1 .. l + Extra : bits[x] = s[x]
    BY <1>1, <1>3 DEF Begins
  <2>2. l <= l + Extra /\ (\A x \in 1 .. l : x \in 1 .. l + Extra)
        /\ \A x \in 1 .. Extra : l + x \in 1 .. l + Extra
    BY <1>2, <1>3
  <2>3. Len(bits) \in Nat
    OBVIOUS
  <2>4. QED
    BY <1>2, <1>3, <2>1, <2>2, <2>3
<1>6. DecodeVector(FALSE, bits, Len00, Low00, Hi00) = [values |-> a, used |-> l]
  <2>1. Begins(bits, g)
    BY <1>5 DEF Begins, l
  <2>2. Begins(bits, EncodeGR(a, Low00)) /\ l = Len(EncodeGR(a, Low00))
    BY <2>1 DEF g, l
  <2>3. a \in [1 .. Len00 -> Int] /\ Small(a, Len00, Low00, Hi00)
    BY <1>1, <1>4
  <2>4. Small(a, Len00, Low00, Hi00) /\ Begins(bits, EncodeGR(a, Low00))
           => DecodeVector(FALSE, bits, Len00, Low00, Hi00)
                 = [values |-> a, used |-> Len(EncodeGR(a, Low00))]
    BY <1>2, <2>3, DecodesEncoded DEF DecodeVector
  <2>5. QED
    BY <2>2, <2>3, <2>4
<1>7. NumberAt(bits, l + 1, Extra) = eb
  <2>1. BitsThere(bits, l + 1, Extra, eb)
    <3>1. ASSUME NEW j \in 1 .. Extra PROVE bits[(l + 1) + j - 1] = (eb \div Power(j - 1)) % 2
      <4>1. (l + 1) + j - 1 = l + j
        BY <1>3
      <4>2. bits[l + j] = (eb \div Power(j - 1)) % 2
        BY <1>5
      <4>3. QED
        BY <4>1, <4>2
    <3>2. QED
      BY <3>1 DEF BitsThere
  <2>2. NumberAt(bits, l + 1, Extra) = eb % Power(Extra)
    BY <1>2, <1>3, <2>1, NumberOf
  <2>3. eb % Power(Extra) = eb
    <3>1. \A x, m \in Nat : x < m => x % m = x
      OBVIOUS
    <3>2. QED
      BY <1>2, <1>3, <3>1
  <2>4. QED
    BY <2>2, <2>3
<1> DEFINE gr == DecodeVector(FALSE, bits, Len00, Low00, Hi00)
<1>8. gr.used = l /\ gr.values = a /\ gr # None
  <2>1. gr = [values |-> a, used |-> l]
    BY <1>6
  <2> HIDE DEF gr
  <2>2. QED
    BY <1>3, <2>1 DEF None
<1> HIDE DEF gr
<1>9. CodedHead(bits) = q00[1]
  <2>1. CodedHead(bits) = gr.values[1] * Power(Extra) + NumberAt(bits, gr.used + 1, Extra)
    <3>1. gr = DecodeGR(bits, Len00, Low00, Hi00)
      BY Zenon DEF DecodeVector, gr
    <3>2. QED
      BY <3>1, Zenon DEF CodedHead
  <2>2. CodedHead(bits) = a[1] * Power(Extra) + eb
    BY <1>7, <1>8, <2>1
  <2>3. QED
    BY <1>4, <2>2
<1>10. CleanEnd(bits, l + Extra) /\ t = ToByte(l + Extra) /\ ~(Len(bits) < t)
  <2>1. t = ToByte(l + Extra) /\ AllZero(bits, (l + Extra) + 1, ToByte(l + Extra))
    BY <1>1, <1>3
  <2>2. t \in Nat /\ Len(bits) \in Nat
    BY <1>2, <1>3, ByteFacts
  <2>3. QED
    BY <1>1, <2>1, <2>2 DEF CleanEnd
<1> DEFINE d == [values |-> Wrapped(q00), used |-> t]
<1>11. DecodeQ00(FALSE, bits) = d
  <2>1. DecodeQ00(FALSE, bits) =
           IF gr = None \/ Len(bits) < ToByte(gr.used + Extra) \/ ~CleanEnd(bits, gr.used + Extra)
           THEN None
           ELSE [values |-> [gr.values EXCEPT ![1] = Int16(@ * Power(Extra)
                                                      + NumberAt(bits, gr.used + 1, Extra))],
                 used |-> ToByte(gr.used + Extra)]
    BY Zenon DEF DecodeQ00, WithExtra, gr
  <2>2. [a EXCEPT ![1] = Int16(@ * Power(Extra) + eb)] = Wrapped(q00)
    BY <1>4
  <2> HIDE DEF t
  <2>3. QED
    BY <1>7, <1>8, <1>10, <2>1, <2>2
<1>12. d # None
  <2>1. t \in Nat /\ t >= Len(s)
    BY <1>2, <1>3, ByteFacts
  <2>2. t > 0
    BY <1>2, <1>3, <2>1
  <2> HIDE DEF t
  <2>3. QED
    BY <2>2 DEF None
<1>13. QED
  BY <1>9, <1>11, <1>12 DEF s

LEMMA DecodedHead ==
    ASSUME NEW bits \in Seq(Bit)
    PROVE  DecodeQ00(FALSE, bits) # None => \E q00 : HeadCoded(bits, q00)
<1>1. HAVE DecodeQ00(FALSE, bits) # None
<1> DEFINE P == Power(Extra)
           d == DecodeVector(FALSE, bits, Len00, Low00, Hi00)
<1>2. P \in Nat /\ P > 0 /\ Extra \in Nat /\ Len00 \in Nat /\ Len00 > 0 /\ Low00 \in Nat
      /\ Hi00 \in Nat
  BY HalfRange, SizeFacts
<1>3. d # None /\ ~(Len(bits) < ToByte(d.used + Extra)) /\ CleanEnd(bits, d.used + Extra)
  <2>1. DecodeQ00(FALSE, bits) =
           IF d = None \/ Len(bits) < ToByte(d.used + Extra) \/ ~CleanEnd(bits, d.used + Extra)
           THEN None
           ELSE [values |-> [d.values EXCEPT ![1] = Int16(@ * Power(Extra)
                                                      + NumberAt(bits, d.used + 1, Extra))],
                 used |-> ToByte(d.used + Extra)]
    BY Zenon DEF DecodeQ00, WithExtra
  <2> HIDE DEF d
  <2>2. QED
    BY <1>1, <2>1, Zenon
<1>4. PICK a \in [1 .. Len00 -> Int] :
         /\ Small(a, Len00, Low00, Hi00) /\ Begins(bits, EncodeGR(a, Low00))
         /\ d = [values |-> a, used |-> Len(EncodeGR(a, Low00))]
  BY <1>2, <1>3, DecodedEncodes DEF DecodeVector
<1> DEFINE g == EncodeGR(a, Low00)
           l == Len(g)
           eb == NumberAt(bits, l + 1, Extra)
           x == a[1] * P + eb
           q00 == [a EXCEPT ![1] = x]
           s == EncodeQ00(q00)
           t == ToByte(l + Extra)
<1>5. g \in Seq(Bit) /\ l \in Nat
  <2>1. g \in Seq(Bit)
    BY <1>2, EncodeFacts
  <2> HIDE DEF g
  <2>2. QED
    BY <2>1
<1>6. /\ l <= Len(bits) /\ (\A j \in 1 .. l : bits[j] = g[j])
      /\ t <= Len(bits) /\ l + Extra <= Len(bits)
      /\ AllZero(bits, (l + Extra) + 1, t)
  <2>1. d.used = l
    <3>1. d = [values |-> a, used |-> l]
      BY <1>4
    <3> HIDE DEF d
    <3>2. QED
      BY <3>1
  <2>2. ~(Len(bits) < t) /\ CleanEnd(bits, l + Extra)
    BY <1>3, <2>1
  <2>3. Begins(bits, g)
    BY <1>4
  <2> HIDE DEF g
  <2>4. l <= Len(bits) /\ \A j \in 1 .. l : bits[j] = g[j]
    BY <2>3, Zenon DEF Begins
  <2> HIDE DEF l
  <2>5. t \in Nat /\ t >= l + Extra
    <3>1. l + Extra \in Nat
      BY <1>2, <1>5
    <3>2. QED
      BY <3>1, ByteFacts
  <2>6. Len(bits) \in Nat
    OBVIOUS
  <2>7. AllZero(bits, (l + Extra) + 1, t)
    BY <2>2, Zenon DEF CleanEnd
  <2> HIDE DEF t
  <2>8. QED
    BY <1>2, <1>5, <2>2, <2>4, <2>5, <2>6, <2>7
<1> HIDE DEF g, l, d
<1>7. /\ eb \in Nat /\ eb < P
      /\ \A j \in 1 .. Extra : (eb \div Power(j - 1)) % 2 = bits[l + j]
  <2>1. \A j \in 1 .. Extra : bits[(l + 1) + j - 1] \in Bit /\ (l + 1) + j - 1 = l + j
    <3>1. \A j \in 1 .. Extra : l + j \in 1 .. Len(bits) /\ (l + 1) + j - 1 = l + j
      BY <1>2, <1>5, <1>6
    <3>2. QED
      BY <3>1
  <2>2. /\ eb \in 0 .. Power(Extra) - 1
        /\ \A j \in 1 .. Extra : (eb \div Power(j - 1)) % 2 = bits[(l + 1) + j - 1]
    <3>1. l + 1 \in Int
      BY <1>5
    <3>2. \A j \in 1 .. Extra : bits[(l + 1) + j - 1] \in Bit
      BY <2>1
    <3>3. QED
      BY <1>2, <3>1, <3>2, NumberBits
  <2> HIDE DEF eb
  <2>3. \A j \in 1 .. Extra : (eb \div Power(j - 1)) % 2 = bits[l + j]
    BY <2>1, <2>2
  <2>4. QED
    BY <1>2, <2>2, <2>3 DEF P
<1> HIDE DEF eb
<1>8. a[1] \in Int /\ x \in Int /\ 1 \in 1 .. Len00
  BY <1>2, <1>7
<1>9. x \div P = a[1] /\ x % P = eb
  <2> DEFINE y == a[1]
  <2> HIDE DEF P, y
  <2>1. (y * P + eb) \div P = y /\ (y * P + eb) % P = eb
    <3>1. y * P \in Int /\ y \in Int
      BY <1>2, <1>8 DEF y
    <3>2. \A w \in Int, m \in Nat, e \in Nat : m > 0 /\ e < m =>
             (w * m + e) \div m = w /\ (w * m + e) % m = e
      BY Z3T(30)
    <3>3. QED
      BY <1>2, <1>7, <3>1, <3>2
  <2>2. QED
    BY <2>1 DEF y
<1> HIDE DEF x, P
<1>10. q00 \in [1 .. Len00 -> Int] /\ q00[1] = x
  BY <1>8
<1>11. Scaled(q00) = a
  <2>1. [q00 EXCEPT ![1] = x \div P] = [a EXCEPT ![1] = x \div P]
    BY <1>8
  <2>2. [a EXCEPT ![1] = a[1]] = a
    BY <1>8
  <2>3. Scaled(q00) = [q00 EXCEPT ![1] = q00[1] \div P]
    BY DEF Scaled, P
  <2> HIDE DEF q00
  <2>4. QED
    BY <1>9, <1>10, <2>1, <2>2, <2>3
<1> HIDE DEF q00
<1>12. /\ s \in Seq(Bit) /\ Len(s) = l + Extra
       /\ \A j \in 1 .. l : s[j] = g[j]
       /\ \A j \in 1 .. Extra : s[l + j] = (eb \div Power(j - 1)) % 2
  <2>1. HeadParts(q00, g, eb)
    BY <1>9, <1>10, <1>11 DEF HeadParts, g, P
  <2> DEFINE c == EncodeQ00(q00)
  <2>2. /\ c \in Seq(Bit) /\ Len(c) = Len(g) + Extra
        /\ \A j \in 1 .. Len(g) : c[j] = g[j]
        /\ \A j \in 1 .. Extra : c[Len(g) + j] = (eb \div Power(j - 1)) % 2
    BY <1>10, <2>1, HeadFacts
  <2> HIDE DEF c
  <2>3. s = c
    BY DEF c
  <2> HIDE DEF s
  <2>4. QED
    BY <2>2, <2>3 DEF l
<1> HIDE DEF s
<1>13. Begins(bits, s)
  <2>1. ASSUME NEW j \in 1 .. l + Extra PROVE bits[j] = s[j]
    <3>1. CASE j \in 1 .. l
      BY <1>6, <1>12, <3>1
    <3>2. CASE j \notin 1 .. l
      <4>1. j - l \in 1 .. Extra /\ l + (j - l) = j
        BY <1>2, <1>5, <3>2
      <4>2. bits[l + (j - l)] = s[l + (j - l)]
        BY <1>7, <1>12, <4>1
      <4>3. QED
        BY <4>1, <4>2
    <3>3. QED
      BY <3>1, <3>2
  <2>2. QED
    BY <1>6, <1>12, <2>1 DEF Begins
<1>14. HeadCoded(bits, q00)
  <2>1. ToByte(Len(s)) = t
    BY <1>12
  <2>2. QED
    BY <1>4, <1>6, <1>10, <1>11, <1>12, <1>13, <2>1, Zenon DEF HeadCoded, s
<1>15. QED
  BY <1>14

-----------------------------------------------------------------------------
(***************************************************************************)
(* Public keys.                                                            *)
(***************************************************************************)
PublicArea == PubSize * ByteBits
HeadArea(q00) == ToByte(Len(EncodeQ00(q00)))
KeyLength(q00, q01) == HeadArea(q00) + Len(EncodeGR(q01, Low01))
KeyBits(q00, q01) ==
    Pad(EncodeQ00(q00), HeadArea(q00)) \o Pad(EncodeGR(q01, Low01), PublicArea - HeadArea(q00))

\* What the two parts of a key are.
LEMMA KeyFacts ==
    ASSUME NEW q00 \in [1 .. Len00 -> Int], NEW q01 \in [1 .. Len01 -> Int],
           NEW s, s = EncodeQ00(q00), NEW g, g = EncodeGR(q01, Low01),
           NEW t, t = HeadArea(q00), NEW p, p = Pad(s, t)
    PROVE  /\ s \in Seq(Bit) /\ Len(s) \in Nat
           /\ g \in Seq(Bit) /\ Len(g) \in Nat
           /\ t \in Nat /\ Len(s) <= t /\ t = ToByte(Len(s))
           /\ \E k \in Nat : t = k * ByteBits
           /\ p \in Seq(Bit) /\ Len(p) = t
           /\ Begins(p, s) /\ AllZero(p, Len(s) + 1, t)
<1> DEFINE gr == EncodeGR(Scaled(q00), Low00)
           eb == q00[1] % Power(Extra)
<1>1. s \in Seq(Bit) /\ Len(s) \in Nat
  <2>1. HeadParts(q00, gr, eb)
    BY DEF HeadParts
  <2> HIDE DEF gr, eb
  <2>2. EncodeQ00(q00) \in Seq(Bit)
    BY <2>1, HeadFacts
  <2>3. QED
    BY <2>2
<1>2. g \in Seq(Bit) /\ Len(g) \in Nat
  <2>1. g \in Seq(Bit)
    BY SizeFacts, EncodeFacts
  <2>2. QED
    BY <2>1
<1>3. t = ToByte(Len(s))
  BY DEF HeadArea
<1>4. t \in Nat /\ Len(s) <= t /\ \E k \in Nat : t = k * ByteBits
  BY <1>1, <1>3, ByteFacts
<1>5. /\ p \in Seq(Bit) /\ Len(p) = t
      /\ Begins(p, s) /\ AllZero(p, Len(s) + 1, t)
  BY <1>1, <1>4, PadFacts
<1>6. QED
  BY <1>1, <1>2, <1>3, <1>4, <1>5

\* encode_public() refuses what does not fit, and nothing else.
LEMMA EncodePublicExact ==
    ASSUME NEW q00 \in [1 .. Len00 -> Int], NEW q01 \in [1 .. Len01 -> Int],
           NEW q, q = [q00 |-> q00, q01 |-> q01]
    PROVE  EncodePublic(q) =
              IF KeyLength(q00, q01) <= PublicArea THEN KeyBits(q00, q01) ELSE NoBits
<1> DEFINE s == EncodeQ00(q00)
           g == EncodeGR(q01, Low01)
           t == HeadArea(q00)
           p == Pad(s, t)
           bits == p \o g
           A == PublicArea
<1>1. /\ s \in Seq(Bit) /\ Len(s) \in Nat
      /\ g \in Seq(Bit) /\ Len(g) \in Nat
      /\ t \in Nat /\ t = ToByte(Len(s))
      /\ p \in Seq(Bit) /\ Len(p) = t
  <2> DEFINE ss == s
             gg == g
             tt1 == t
             pp == p
  <2>1. ss = EncodeQ00(q00) /\ gg = EncodeGR(q01, Low01) /\ tt1 = HeadArea(q00)
        /\ pp = Pad(ss, tt1)
    OBVIOUS
  <2> HIDE DEF ss, gg, tt1, pp
  <2>2. /\ ss \in Seq(Bit) /\ Len(ss) \in Nat
        /\ gg \in Seq(Bit) /\ Len(gg) \in Nat
        /\ tt1 \in Nat /\ tt1 = ToByte(Len(ss))
        /\ pp \in Seq(Bit) /\ Len(pp) = tt1
    BY <2>1, KeyFacts
  <2>3. QED
    BY <2>2 DEF ss, gg, tt1, pp
<1>2. EncodePublic(q) = IF ToByte(Len(bits)) <= A THEN Pad(bits, A) ELSE NoBits
  BY <1>1 DEF EncodePublic, PublicArea
<1>3. A \in Nat /\ A = PubSize * ByteBits /\ PubSize \in Nat
  BY AreaFacts, SizeFacts DEF PublicArea
<1> HIDE DEF s, g, t, p, A
<1>4. bits \in Seq(Bit) /\ Len(bits) = t + Len(g)
  BY <1>1, CatBits
<1>5. ToByte(Len(bits)) <= A <=> t + Len(g) <= A
  <2> DEFINE m == Len(bits)
  <2>1. m \in Nat /\ m = t + Len(g)
    BY <1>1, <1>4
  <2> HIDE DEF m
  <2>2. ToByte(m) \in Nat /\ ToByte(m) >= m /\ (m <= A => ToByte(m) <= A)
    BY <1>3, <2>1, ByteFacts
  <2>3. QED
    BY <1>3, <2>1, <2>2 DEF m
<1>6. t + Len(g) <= A => Pad(bits, A) = p \o Pad(g, A - t)
  <2>1. t + Len(g) <= A => Len(p) + Len(g) <= A
    BY <1>1
  <2>2. t + Len(g) <= A => Pad(p \o g, A) = p \o Pad(g, A - Len(p))
    BY <1>1, <1>3, <2>1, PadCat
  <2>3. QED
    BY <1>1, <2>2
<1>7. KeyLength(q00, q01) = t + Len(g) /\ KeyBits(q00, q01) = p \o Pad(g, A - t)
  BY DEF KeyLength, KeyBits, s, g, t, p, A
<1> HIDE DEF bits
<1>8. QED
  BY <1>2, <1>5, <1>6, <1>7 DEF A

\* The whole of a key.
KeyOf(bits, q00, q01) ==
    /\ q00 \in [1 .. Len00 -> Int] /\ Small(Scaled(q00), Len00, Low00, Hi00)
    /\ q01 \in [1 .. Len01 -> Int] /\ Small(q01, Len01, Low01, Hi01)
    /\ KeyLength(q00, q01) <= PublicArea
    /\ bits = KeyBits(q00, q01)

\* The parts of a buffer that holds one.
KeyParts(bits, q00, q01, s, g, t, p, r) ==
    /\ s = EncodeQ00(q00) /\ g = EncodeGR(q01, Low01) /\ t = HeadArea(q00)
    /\ p = Pad(s, t) /\ r = Pad(g, PublicArea - t)

LEMMA LessTimes ==
    ASSUME NEW x \in Nat, NEW y \in Nat, NEW m \in Nat, m > 0, x * m <= y * m
    PROVE  x <= y
<1> SUFFICES ASSUME x > y PROVE FALSE
  OBVIOUS
<1>1. (x - y) * m > 0 /\ (x - y) * m = x * m - y * m
  OBVIOUS
<1>2. x * m \in Int /\ y * m \in Int
  OBVIOUS
<1>3. QED
  BY <1>1, <1>2

LEMMA KeyPartsFacts ==
    ASSUME NEW bits, NEW q00, NEW q01, KeyOf(bits, q00, q01),
           NEW s, NEW g, NEW t, NEW p, NEW r, KeyParts(bits, q00, q01, s, g, t, p, r)
    PROVE  /\ s \in Seq(Bit) /\ g \in Seq(Bit) /\ t \in Nat /\ Len(s) <= t
           /\ t = ToByte(Len(s))
           /\ p \in Seq(Bit) /\ Len(p) = t /\ Begins(p, s) /\ AllZero(p, Len(s) + 1, t)
           /\ Bytes(r) /\ r \in Seq(Bit) /\ Len(r) = PublicArea - t /\ Len(g) <= Len(r)
           /\ r = Pad(g, Len(r))
           /\ bits = p \o r /\ bits \in Seq(Bit) /\ Len(bits) = PublicArea
           /\ t <= PublicArea /\ PublicArea \in Nat
<1>1. /\ s = EncodeQ00(q00) /\ g = EncodeGR(q01, Low01) /\ t = HeadArea(q00)
      /\ p = Pad(s, t) /\ r = Pad(g, PublicArea - t)
  BY DEF KeyParts
<1>2. /\ q00 \in [1 .. Len00 -> Int] /\ q01 \in [1 .. Len01 -> Int]
      /\ t + Len(g) <= PublicArea /\ bits = p \o r
  BY <1>1 DEF KeyOf, KeyLength, KeyBits
<1>3. /\ s \in Seq(Bit) /\ Len(s) \in Nat
      /\ g \in Seq(Bit) /\ Len(g) \in Nat
      /\ t \in Nat /\ Len(s) <= t /\ t = ToByte(Len(s))
      /\ \E k \in Nat : t = k * ByteBits
      /\ p \in Seq(Bit) /\ Len(p) = t
      /\ Begins(p, s) /\ AllZero(p, Len(s) + 1, t)
  BY <1>1, <1>2, KeyFacts
<1>4. PICK k \in Nat : t = k * ByteBits
  BY <1>3
<1> DEFINE A == PublicArea
<1>5. A \in Nat /\ A = PubSize * ByteBits /\ PubSize \in Nat /\ ByteBits \in Nat /\ ByteBits > 0
  BY AreaFacts, SizeFacts DEF PublicArea
<1>0. t + Len(g) <= A
  BY <1>2
<1> HIDE DEF A
<1>6. A - t \in Nat /\ Len(g) <= A - t /\ t <= A /\ t + Len(g) <= A
  BY <1>0, <1>3, <1>5
<1>7. r \in Seq(Bit) /\ Len(r) = A - t
  <2>1. r = Pad(g, A - t)
    BY <1>1 DEF A
  <2>2. QED
    BY <1>3, <1>6, <2>1, PadFacts
<1>8. Bytes(r)
  <2>1. k <= PubSize
    <3>1. k * ByteBits <= PubSize * ByteBits
      BY <1>4, <1>5, <1>6
    <3>2. QED
      BY <1>5, <3>1, LessTimes
  <2>2. A - t = (PubSize - k) * ByteBits
    BY <1>4, <1>5
  <2>3. QED
    BY <1>5, <1>7, <2>1, <2>2, TailBytes
<1>9. bits \in Seq(Bit) /\ Len(bits) = A
  <2>1. p \o r \in Seq(Bit) /\ Len(p \o r) = Len(p) + Len(r)
    BY <1>3, <1>7, CatBits
  <2>2. QED
    BY <1>2, <1>3, <1>5, <1>6, <1>7, <2>1
<1>10. QED
  BY <1>1, <1>2, <1>3, <1>5, <1>6, <1>7, <1>8, <1>9 DEF A

LEMMA KeyDecodes ==
    ASSUME NEW bits, NEW q00, NEW q01, KeyOf(bits, q00, q01)
    PROVE  /\ bits \in Seq(Bit) /\ Len(bits) = PublicArea
           /\ DecodePublic(FALSE, bits) = [q00 |-> Wrapped(q00), q01 |-> q01]
           /\ DecodePublic(FALSE, bits) # NoKey
           /\ CodedHead(bits) = q00[1]
<1> DEFINE s == EncodeQ00(q00)
           g == EncodeGR(q01, Low01)
           t == HeadArea(q00)
           p == Pad(s, t)
           r == Pad(g, PublicArea - t)
<1>1. KeyParts(bits, q00, q01, s, g, t, p, r)
  BY DEF KeyParts
<1>2. s = EncodeQ00(q00) /\ g = EncodeGR(q01, Low01)
  OBVIOUS
<1> HIDE DEF s, g, t, p, r
<1>3. /\ s \in Seq(Bit) /\ g \in Seq(Bit) /\ t \in Nat /\ Len(s) <= t
      /\ t = ToByte(Len(s))
      /\ p \in Seq(Bit) /\ Len(p) = t /\ Begins(p, s) /\ AllZero(p, Len(s) + 1, t)
      /\ Bytes(r) /\ r \in Seq(Bit) /\ Len(r) = PublicArea - t /\ Len(g) <= Len(r)
      /\ r = Pad(g, Len(r))
      /\ bits = p \o r /\ bits \in Seq(Bit) /\ Len(bits) = PublicArea
      /\ t <= PublicArea /\ PublicArea \in Nat
  BY <1>1, KeyPartsFacts
<1>4. /\ q00 \in [1 .. Len00 -> Int] /\ Small(Scaled(q00), Len00, Low00, Hi00)
      /\ q01 \in [1 .. Len01 -> Int] /\ Small(q01, Len01, Low01, Hi01)
  BY DEF KeyOf
<1>5. HeadCoded(bits, q00)
  <2>1. \A x \in 1 .. t : bits[x] = p[x]
    BY <1>3, CatBits
  <2>2. Len(s) \in Nat /\ \A x \in 1 .. Len(s) : p[x] = s[x] /\ x \in 1 .. t
    BY <1>3 DEF Begins
  <2>3. Begins(bits, s)
    <3>1. Len(s) <= Len(bits)
      BY <1>3, <2>2
    <3>2. \A x \in 1 .. Len(s) : bits[x] = s[x]
      BY <2>1, <2>2, Zenon
    <3>3. QED
      BY <3>1, <3>2, Zenon DEF Begins
  <2>4. AllZero(bits, Len(s) + 1, t)
    <3>1. \A x \in Len(s) + 1 .. t : x \in 1 .. t
      BY <1>3, <2>2
    <3>2. QED
      BY <1>3, <2>1, <3>1, Zenon DEF AllZero
  <2>5. QED
    BY <1>2, <1>3, <1>4, <2>3, <2>4, Zenon DEF HeadCoded
<1>6. /\ DecodeQ00(FALSE, bits) = [values |-> Wrapped(q00), used |-> t]
      /\ DecodeQ00(FALSE, bits) # None
      /\ CodedHead(bits) = q00[1]
  BY <1>2, <1>3, <1>5, HeadDecodes
<1>7. SubSeq(bits, t + 1, Len(bits)) = r
  <2>1. p \in Seq(Bit) /\ r \in Seq(Bit) /\ Len(p) = t /\ bits = p \o r
    BY <1>3
  <2>2. SubSeq(p \o r, Len(p) + 1, Len(p \o r)) = r
    BY <2>1, PartsOfCat
  <2>3. QED
    BY <2>1, <2>2, Zenon
<1> DEFINE d == DecodeClean(FALSE, r, Len01, Low01, Hi01)
<1>8. d = [values |-> q01, used |-> ToByte(Len(g))] /\ d # None
      /\ AllZero(r, ToByte(Len(g)) + 1, Len(r))
  <2>1. /\ Len(EncodeGR(q01, Low01)) <= Len(r)
        /\ r = Pad(EncodeGR(q01, Low01), Len(r))
    BY <1>2, <1>3
  <2>2. /\ d = [values |-> q01, used |-> ToByte(Len(EncodeGR(q01, Low01)))] /\ d # None
        /\ AllZero(r, ToByte(Len(EncodeGR(q01, Low01))) + 1, Len(r))
    <3>1. Bytes(r) /\ q01 \in [1 .. Len01 -> Int] /\ Small(q01, Len01, Low01, Hi01)
      BY <1>3, <1>4
    <3>2. Len01 \in Nat /\ Len01 > 0 /\ Low01 \in Nat /\ Hi01 \in Nat
      BY SizeFacts
    <3>3. d = PlainClean(r, Len01, Low01, Hi01)
      BY DEF PlainClean
    <3> HIDE DEF d
    <3>4. /\ PlainClean(r, Len01, Low01, Hi01)
             = [values |-> q01, used |-> ToByte(Len(EncodeGR(q01, Low01)))]
          /\ PlainClean(r, Len01, Low01, Hi01) # None
          /\ AllZero(r, ToByte(Len(EncodeGR(q01, Low01))) + 1, Len(r))
      BY <2>1, <3>1, <3>2, CleanDecodes
    <3>5. QED
      BY <3>3, <3>4, Zenon
  <2> HIDE DEF d
  <2>3. QED
    BY <1>2, <2>2
<1> HIDE DEF d
<1> DEFINE d00 == DecodeQ00(FALSE, bits)
<1>9. d.used = ToByte(Len(g)) /\ d.values = q01 /\ d00.used = t /\ d00.values = Wrapped(q00)
  <2>1. d00 = [values |-> Wrapped(q00), used |-> t]
    BY <1>6
  <2> HIDE DEF d00
  <2>2. QED
    BY <1>8, <2>1
<1>10. DecodePublic(FALSE, bits) = [q00 |-> Wrapped(q00), q01 |-> q01]
  <2>1. d00 # None
    BY <1>6
  <2> HIDE DEF d00
  <2>2. DecodePublic(FALSE, bits) =
           LET tail == SubSeq(bits, d00.used + 1, Len(bits))
               d01 == DecodeClean(FALSE, tail, Len01, Low01, Hi01)
           IN  IF d00 = None \/ d01 = None \/ ~AllZero(tail, d01.used + 1, Len(tail))
               THEN NoKey ELSE [q00 |-> d00.values, q01 |-> d01.values]
    BY Zenon DEF DecodePublic, DecodeAfter, KeyFrom, d00
  <2>3. DecodePublic(FALSE, bits) =
           IF d00 = None \/ d = None \/ ~AllZero(r, d.used + 1, Len(r))
           THEN NoKey ELSE [q00 |-> d00.values, q01 |-> d.values]
    BY <1>7, <1>9, <2>2, Zenon DEF d
  <2>4. QED
    BY <1>8, <1>9, <2>1, <2>3, Zenon
<1>11. [q00 |-> Wrapped(q00), q01 |-> q01] # NoKey
  <2>1. Len01 \in Nat /\ Len01 > 0
    BY SizeFacts
  <2>2. q01 # <<>>
    BY <1>4, <2>1
  <2>3. QED
    BY <2>2 DEF NoKey
<1>12. QED
  BY <1>3, <1>6, <1>10, <1>11

LEMMA DecodedKey ==
    ASSUME NEW bits \in Seq(Bit), Len(bits) = PublicArea
    PROVE  DecodePublic(FALSE, bits) # NoKey => \E q00, q01 : KeyOf(bits, q00, q01)
<1>1. HAVE DecodePublic(FALSE, bits) # NoKey
<1> DEFINE d00 == DecodeQ00(FALSE, bits)
           tail == SubSeq(bits, d00.used + 1, Len(bits))
           d == DecodeClean(FALSE, tail, Len01, Low01, Hi01)
<1>2. d00 # None /\ d # None /\ AllZero(tail, d.used + 1, Len(tail))
  BY <1>1, Zenon DEF DecodePublic, DecodeAfter, KeyFrom
<1>3. PICK q00 : HeadCoded(bits, q00)
  BY <1>2, DecodedHead
<1> DEFINE s == EncodeQ00(q00)
           t == HeadArea(q00)
           p == SubSeq(bits, 1, t)
           r == SubSeq(bits, t + 1, Len(bits))
<1>4. d00.used = t
  <2>1. d00 = [values |-> Wrapped(q00), used |-> t]
    BY <1>3, HeadDecodes DEF HeadArea
  <2> HIDE DEF d00
  <2>2. QED
    BY <2>1
<1>5. /\ q00 \in [1 .. Len00 -> Int] /\ Small(Scaled(q00), Len00, Low00, Hi00)
      /\ Begins(bits, s) /\ t <= Len(bits) /\ AllZero(bits, Len(s) + 1, t)
  BY <1>3 DEF HeadCoded, HeadArea
<1> DEFINE gr == EncodeGR(Scaled(q00), Low00)
           eb == q00[1] % Power(Extra)
<1>6. s \in Seq(Bit) /\ Len(s) \in Nat
  <2>1. HeadParts(q00, gr, eb)
    BY DEF HeadParts
  <2> HIDE DEF gr, eb
  <2>2. EncodeQ00(q00) \in Seq(Bit)
    BY <1>5, <2>1, HeadFacts
  <2>3. QED
    BY <2>2
<1>7. t \in Nat /\ t >= Len(s) /\ \E k \in Nat : t = k * ByteBits
  BY <1>6, ByteFacts DEF HeadArea
<1> DEFINE c == DecodeClean(FALSE, r, Len01, Low01, Hi01)
<1>8. c # None /\ AllZero(r, c.used + 1, Len(r))
  BY <1>2, <1>4
<1> HIDE DEF s, t, c, d, d00, tail
<1>9. t \in 0 .. Len(bits) /\ Len(bits) \in Nat
  BY <1>5, <1>7
<1>10. /\ p \in Seq(Bit) /\ Len(p) = t /\ (\A x \in 1 .. t : p[x] = bits[x])
       /\ r \in Seq(Bit) /\ Len(r) = Len(bits) - t
       /\ bits = p \o r
  <2>1. /\ p \in Seq(Bit) /\ Len(p) = t /\ (\A x \in 1 .. t : p[x] = bits[x])
        /\ r \in Seq(Bit) /\ Len(r) = Len(bits) - t
    BY <1>9, Parts
  <2>2. bits = p \o r
    BY <1>9, CatOfParts
  <2>3. QED
    BY <2>1, <2>2
<1> HIDE DEF p, r
<1>11. p = Pad(s, t)
  <2>1. Len(s) <= Len(p) /\ \A x \in 1 .. Len(s) : p[x] = s[x]
    <3>1. \A x \in 1 .. Len(s) : bits[x] = s[x] /\ x \in 1 .. t
      BY <1>5, <1>6, <1>7 DEF Begins
    <3>2. QED
      BY <1>7, <1>10, <3>1
  <2>2. AllZero(p, Len(s) + 1, Len(p))
    <3>1. \A x \in Len(s) + 1 .. t : x \in 1 .. t
      BY <1>6, <1>7
    <3>2. QED
      BY <1>5, <1>10, <3>1, Zenon DEF AllZero
  <2>3. Begins(p, s)
    BY <2>1, Zenon DEF Begins
  <2>4. QED
    BY <1>6, <1>10, <2>2, <2>3, PadIs
<1> DEFINE A == PublicArea
<1>12. A \in Nat /\ A = PubSize * ByteBits /\ PubSize \in Nat /\ ByteBits \in Nat /\ ByteBits > 0
       /\ Len(bits) = A
  BY AreaFacts, SizeFacts DEF PublicArea
<1> HIDE DEF A
<1>13. Bytes(r)
  <2>1. PICK k \in Nat : t = k * ByteBits
    BY <1>7
  <2>2. k <= PubSize
    <3>1. k * ByteBits <= PubSize * ByteBits
      BY <1>9, <1>12, <2>1
    <3>2. QED
      BY <1>12, <3>1, LessTimes
  <2>3. Len(r) = (PubSize - k) * ByteBits
    BY <1>10, <1>12, <2>1
  <2>4. QED
    BY <1>10, <1>12, <2>2, <2>3, TailBytes
<1>14. PICK q01 \in [1 .. Len01 -> Int] :
          /\ Small(q01, Len01, Low01, Hi01)
          /\ Len(EncodeGR(q01, Low01)) <= Len(r)
          /\ r = Pad(EncodeGR(q01, Low01), Len(r))
  <2>1. Len01 \in Nat /\ Len01 > 0 /\ Low01 \in Nat /\ Hi01 \in Nat
    BY SizeFacts
  <2>2. c = PlainClean(r, Len01, Low01, Hi01)
    BY DEF c, PlainClean
  <2>3. PaddedCode(r, Len01, Low01, Hi01)
    BY <1>8, <1>13, <2>1, <2>2, DecodedClean
  <2>4. QED
    BY <2>3 DEF PaddedCode
<1> DEFINE g == EncodeGR(q01, Low01)
<1>15. g \in Seq(Bit) /\ Len(g) \in Nat
  BY SizeFacts, EncodeFacts
<1>16. Len(g) <= A - t /\ r = Pad(g, A - t)
  BY <1>10, <1>12, <1>14
<1> HIDE DEF g
<1>17. t + Len(g) <= A
  BY <1>7, <1>12, <1>15, <1>16
<1>18. bits = Pad(s, t) \o Pad(g, A - t)
  BY <1>10, <1>11, <1>16
<1>19. KeyLength(q00, q01) <= PublicArea /\ bits = KeyBits(q00, q01)
  BY <1>17, <1>18 DEF KeyLength, KeyBits, A, s, t, g
<1>20. KeyOf(bits, q00, q01)
  BY <1>5, <1>14, <1>19, Zenon DEF KeyOf
<1>21. QED
  BY <1>20

\* Within the range of a code, the rest is.
LEMMA RestSmall ==
    ASSUME NEW y \in Int, NEW low \in Nat, NEW hi \in Nat, hi > 0,
           -(Power(low) * hi) <= y, y < Power(low) * hi
    PROVE  Rest(y, low) < hi
<1> DEFINE P == Power(low)
           m == P * hi
           z == Magnitude(y)
<1>1. P \in Nat /\ P > 0
  BY PowerFacts
<1>2. m \in Nat /\ m = hi * P /\ -m <= y /\ y < m
  BY <1>1
<1> HIDE DEF P, m
<1>3. z \in Nat /\ z < m
  BY <1>2 DEF Magnitude
<1> HIDE DEF z
<1>4. z \div P \in Nat /\ z = P * (z \div P) + (z % P) /\ z % P \in 0 .. P - 1
  BY <1>1, <1>3
<1> DEFINE w == z \div P
<1>5. w \in Nat /\ w * P <= z /\ w * P \in Nat
  <2>1. P * w = w * P /\ w * P \in Nat
    BY <1>1, <1>4
  <2>2. QED
    BY <1>1, <1>3, <1>4, <2>1
<1> HIDE DEF w
<1>6. w < hi
  <2> SUFFICES ASSUME hi <= w PROVE FALSE
    BY <1>5
  <2>1. (w - hi) * P >= 0 /\ (w - hi) * P = w * P - hi * P /\ hi * P \in Int
    BY <1>1, <1>5
  <2>2. QED
    BY <1>2, <1>3, <1>5, <2>1
<1>7. QED
  BY <1>6 DEF Rest, z, w, P

LEMMA WithinSmall ==
    ASSUME NEW v \in Int, NEW low \in Nat, NEW hi \in Nat, hi > 0, NEW lim \in Nat,
           lim <= Power(low) * hi, Within(v, lim)
    PROVE  Rest(v, low) < hi
<1> DEFINE m == Power(low) * hi
<1>1. m \in Nat
  <2>1. Power(low) \in Nat
    BY PowerFacts
  <2>2. QED
    BY <2>1
<1>2. lim <= m /\ -lim < v /\ v < lim
  BY DEF Within
<1> HIDE DEF m
<1>3. -m <= v /\ v < m
  BY <1>1, <1>2
<1>4. QED
  BY <1>3, RestSmall DEF m

\* What an int16_t holds is coded in the bits that there are.
LEMMA SmallHead ==
    ASSUME NEW x \in -Half16 .. Half16 - 1
    PROVE  Rest(x \div Power(Extra), Low00) < Hi00
<1> DEFINE E == Power(Extra)
           H == Half16
           P == Power(Low00)
           m == P * Hi00
           y == x \div E
<1>1. /\ H \in Nat /\ 2 * H = m * E /\ P \in Nat /\ P > 0 /\ E \in Nat /\ E > 0
      /\ Hi00 \in Nat /\ Hi00 > 0
  BY HalfRange, SizeFacts
<1>2. x \in Int /\ -H <= x /\ x < H
  BY <1>1
<1>3. m \in Nat
  BY <1>1
<1> HIDE DEF E, H, P
<1>4. y \in Int /\ y * E <= x /\ x < y * E + E
  <2>1. x % E \in 0 .. E - 1 /\ x \div E \in Int /\ x = E * (x \div E) + (x % E)
    BY <1>1, <1>2
  <2>2. E * (x \div E) = (x \div E) * E
    BY <1>1, <2>1
  <2>3. QED
    BY <1>1, <2>1, <2>2
<1> HIDE DEF m, y
<1>5. y < m
  <2> SUFFICES ASSUME y >= m PROVE FALSE
    BY <1>3, <1>4
  <2>1. (y - m) * E >= 0 /\ (y - m) * E = y * E - m * E /\ y * E \in Int /\ m * E \in Nat
    BY <1>1, <1>3, <1>4
  <2>2. QED
    BY <1>1, <1>2, <1>4, <2>1
<1>6. -m <= y
  <2> SUFFICES ASSUME y < -m PROVE FALSE
    BY <1>3, <1>4
  <2>1. ((-m) - (y + 1)) * E >= 0 /\ ((-m) - (y + 1)) * E = -(m * E) - (y * E) - E
        /\ y * E \in Int /\ m * E \in Nat
    BY <1>1, <1>3, <1>4
  <2>2. QED
    BY <1>1, <1>2, <1>4, <2>1
<1>7. QED
  BY <1>1, <1>4, <1>5, <1>6, RestSmall, SizeFacts DEF y, m, P, E

\* A key is the encoding of what is made of it, but for a head that wraps.
LEMMA KeyCanonical ==
    ASSUME NEW bits \in Seq(Bit), Len(bits) = PublicArea, DecodePublic(FALSE, bits) # NoKey
    PROVE  EncodePublic(DecodePublic(FALSE, bits)) = bits
              <=> CodedHead(bits) = Int16(CodedHead(bits))
<1>1. PICK q00, q01 : KeyOf(bits, q00, q01)
  BY DecodedKey
<1> DEFINE w == Wrapped(q00)
           q == DecodePublic(FALSE, bits)
           x == CodedHead(bits)
<1>2. q = [q00 |-> w, q01 |-> q01] /\ x = q00[1]
  BY <1>1, KeyDecodes
<1>3. /\ q00 \in [1 .. Len00 -> Int] /\ Small(Scaled(q00), Len00, Low00, Hi00)
      /\ q01 \in [1 .. Len01 -> Int] /\ Small(q01, Len01, Low01, Hi01)
      /\ KeyLength(q00, q01) <= PublicArea /\ bits = KeyBits(q00, q01)
  BY <1>1 DEF KeyOf
<1>4. /\ w \in [1 .. Len00 -> Int] /\ w[1] = Int16(q00[1]) /\ q00[1] \in Int /\ 1 \in 1 .. Len00
      /\ (q00[1] = Int16(q00[1]) => w = q00)
  BY <1>3, ScaledFacts
<1> HIDE DEF w, q, x
<1>5. EncodePublic(q) = IF KeyLength(w, q01) <= PublicArea THEN KeyBits(w, q01) ELSE NoBits
  BY <1>2, <1>3, <1>4, EncodePublicExact
<1>6. x = Int16(x) => EncodePublic(q) = bits
  BY <1>2, <1>3, <1>4, <1>5
<1>7. Small(Scaled(w), Len00, Low00, Hi00)
  <2>1. \A u \in 1 .. Len00 : Rest(Scaled(w)[u], Low00) < Hi00
    <3> SUFFICES ASSUME NEW u \in 1 .. Len00 PROVE Rest(Scaled(w)[u], Low00) < Hi00
      OBVIOUS
    <3>1. CASE u = 1
      <4>1. Scaled(w)[1] = w[1] \div Power(Extra)
        BY <1>4, ScaledFacts
      <4>2. w[1] \in -Half16 .. Half16 - 1
        BY <1>4, Int16Facts
      <4>3. Rest(w[1] \div Power(Extra), Low00) < Hi00
        BY <4>2, SmallHead
      <4>4. QED
        BY <3>1, <4>1, <4>3
    <3>2. CASE u # 1
      <4>1. u \in 2 .. Len00
        BY <3>2, SizeFacts
      <4>2. Scaled(w)[u] = w[u] /\ Scaled(q00)[u] = q00[u]
        BY <1>3, <1>4, <4>1, ScaledFacts
      <4>3. w[u] = q00[u]
        BY <1>3, <3>2 DEF w, Wrapped
      <4>4. Rest(Scaled(q00)[u], Low00) < Hi00
        BY <1>3 DEF Small
      <4>5. QED
        BY <4>2, <4>3, <4>4
    <3>3. QED
      BY <3>1, <3>2
  <2>2. QED
    BY <2>1 DEF Small
<1>8. ASSUME EncodePublic(q) = bits PROVE x = Int16(x)
  <2>1. bits # NoBits
    <3> DEFINE s == EncodeQ00(q00)
               g == EncodeGR(q01, Low01)
               t == HeadArea(q00)
               p == Pad(s, t)
               r == Pad(g, PublicArea - t)
    <3>1. KeyParts(bits, q00, q01, s, g, t, p, r) /\ s = EncodeQ00(q00)
      BY DEF KeyParts
    <3> HIDE DEF s, g, t, p, r
    <3>2. Len(s) <= t /\ t <= PublicArea /\ t \in Nat /\ s \in Seq(Bit)
      BY <1>1, <3>1, KeyPartsFacts
    <3> DEFINE gr == EncodeGR(Scaled(q00), Low00)
               eb == q00[1] % Power(Extra)
    <3>3. HeadParts(q00, gr, eb)
      BY DEF HeadParts
    <3> HIDE DEF gr, eb
    <3>4. Len(s) = Len(gr) + Extra /\ Len(gr) \in Nat /\ Len(gr) > 0
      BY <1>3, <3>1, <3>3, HeadFacts
    <3>5. Len(bits) > 0
      <4>1. Extra \in Nat /\ PublicArea \in Nat
        BY SizeFacts, AreaFacts DEF PublicArea
      <4>2. QED
        BY <3>2, <3>4, <4>1
    <3>6. QED
      BY <3>5 DEF NoBits
  <2>2. KeyLength(w, q01) <= PublicArea /\ bits = KeyBits(w, q01)
    BY <1>5, <1>8, <2>1
  <2>3. KeyOf(bits, w, q01)
    BY <1>3, <1>4, <1>7, <2>2 DEF KeyOf
  <2>4. CodedHead(bits) = w[1]
    BY <2>3, KeyDecodes
  <2>5. QED
    BY <1>2, <1>4, <2>4 DEF x
<1>9. QED
  BY <1>6, <1>8 DEF q, x

\* A signature is the encoding of what is made of it.
LEMMA SignatureCanonical ==
    ASSUME NEW bits \in Seq(Bit), Len(bits) = SignatureArea, DecodeSig(FALSE, bits) # NoSignature
    PROVE  EncodeSig(FALSE, DecodeSig(FALSE, bits).salt, DecodeSig(FALSE, bits).s1) = bits
<1>1. PICK salt, s1 : SignatureOf(bits, salt, s1)
  BY DecodedSignature
<1>2. DecodeSig(FALSE, bits) = [salt |-> salt, s1 |-> s1]
  BY <1>1, SignatureDecodes
<1>3. DecodeSig(FALSE, bits).salt = salt /\ DecodeSig(FALSE, bits).s1 = s1
  <2> DEFINE d == DecodeSig(FALSE, bits)
  <2>1. d = [salt |-> salt, s1 |-> s1]
    BY <1>2
  <2> HIDE DEF d
  <2>2. d.salt = salt /\ d.s1 = s1
    BY <2>1
  <2>3. QED
    BY <2>2 DEF d
<1>4. /\ s1 \in [1 .. LenSig -> Int] /\ Small(s1, LenSig, LowSig, HiSig)
      /\ SaltArea + Len(EncodeGR(s1, LowSig)) <= SignatureArea
      /\ bits = Pad(salt \o EncodeGR(s1, LowSig), SignatureArea)
  BY <1>1 DEF SignatureOf
<1>5. EncodeSig(FALSE, salt, s1) = bits
  BY <1>4, EncodeSigExact
<1>6. QED
  BY <1>3, <1>5

\* A build with AVX2 decodes to the same.
LEMMA VectorAlike ==
    ASSUME NEW b \in Seq(Bit), NEW avx2 \in BOOLEAN
    PROVE  /\ DecodeVector(avx2, b, Len00, Low00, Hi00) = DecodeVector(FALSE, b, Len00, Low00, Hi00)
           /\ DecodeVector(avx2, b, Len01, Low01, Hi01) = DecodeVector(FALSE, b, Len01, Low01, Hi01)
           /\ DecodeVector(avx2, b, LenSig, LowSig, HiSig) = DecodeVector(FALSE, b, LenSig, LowSig, HiSig)
<1>1. /\ ByteBits \in Nat \ {0} /\ WordSize \in Nat /\ WordSize >= 2
      /\ {Len00, Len01, LenSig} \subseteq Nat \ {0} /\ {Low00, Low01, LowSig} \subseteq Nat
      /\ {Hi00, Hi01, HiSig} \subseteq Nat
      /\ \A n \in {Len00, Len01, LenSig} : n % ByteBits = 0
      /\ \A hi \in {Hi00, Hi01, HiSig} : hi <= WordSize * ByteBits
  BY CodeAssumption, LookAssumption
<1>2. WordSize * ByteBits = ByteBits * WordSize
  BY <1>1
<1>3. \A hi \in {Hi00, Hi01, HiSig} : hi <= ByteBits * WordSize
  BY <1>1, <1>2, Zenon
<1>4. DecodeVector(avx2, b, Len00, Low00, Hi00) = DecodeVector(FALSE, b, Len00, Low00, Hi00)
  <2>1. ByWords(b, Len00, Low00, Hi00, ByteBits, WordSize)
    BY <1>1, <1>3 DEF ByWords
  <2>2. DecodeWide(b, Len00, Low00, Hi00, ByteBits, WordSize) = DecodeGR(b, Len00, Low00, Hi00)
    BY <2>1, WideDecodesAlike
  <2>3. QED
    BY <2>2, Zenon DEF DecodeVector
<1>5. DecodeVector(avx2, b, Len01, Low01, Hi01) = DecodeVector(FALSE, b, Len01, Low01, Hi01)
  <2>1. ByWords(b, Len01, Low01, Hi01, ByteBits, WordSize)
    BY <1>1, <1>3 DEF ByWords
  <2>2. DecodeWide(b, Len01, Low01, Hi01, ByteBits, WordSize) = DecodeGR(b, Len01, Low01, Hi01)
    BY <2>1, WideDecodesAlike
  <2>3. QED
    BY <2>2, Zenon DEF DecodeVector
<1>6. DecodeVector(avx2, b, LenSig, LowSig, HiSig) = DecodeVector(FALSE, b, LenSig, LowSig, HiSig)
  <2>1. ByWords(b, LenSig, LowSig, HiSig, ByteBits, WordSize)
    BY <1>1, <1>3 DEF ByWords
  <2>2. DecodeWide(b, LenSig, LowSig, HiSig, ByteBits, WordSize) = DecodeGR(b, LenSig, LowSig, HiSig)
    BY <2>1, WideDecodesAlike
  <2>3. QED
    BY <2>2, Zenon DEF DecodeVector
<1>7. QED
  BY <1>4, <1>5, <1>6, Zenon

LEMMA CleanAlike ==
    ASSUME NEW b \in Seq(Bit), NEW avx2 \in BOOLEAN
    PROVE  /\ DecodeClean(avx2, b, Len01, Low01, Hi01) = DecodeClean(FALSE, b, Len01, Low01, Hi01)
           /\ DecodeClean(avx2, b, LenSig, LowSig, HiSig)
              = DecodeClean(FALSE, b, LenSig, LowSig, HiSig)
<1>1. DecodeVector(avx2, b, Len01, Low01, Hi01) = DecodeVector(FALSE, b, Len01, Low01, Hi01)
  BY VectorAlike, Zenon
<1>2. DecodeVector(avx2, b, LenSig, LowSig, HiSig) = DecodeVector(FALSE, b, LenSig, LowSig, HiSig)
  BY VectorAlike, Zenon
<1>3. QED
  BY <1>1, <1>2, Zenon DEF DecodeClean, ToCleanEnd

\* The first polynomial of a key, and what follows it.
LEMMA HeadAlike ==
    ASSUME NEW b \in Seq(Bit), NEW avx2 \in BOOLEAN
    PROVE  /\ DecodeQ00(avx2, b) = DecodeQ00(FALSE, b)
           /\ DecodeQ00(FALSE, b) # None =>
                 SubSeq(b, DecodeQ00(FALSE, b).used + 1, Len(b)) \in Seq(Bit)
<1>1. DecodeVector(avx2, b, Len00, Low00, Hi00) = DecodeVector(FALSE, b, Len00, Low00, Hi00)
  BY VectorAlike, Zenon
<1>2. DecodeQ00(avx2, b) = DecodeQ00(FALSE, b)
  BY <1>1, Zenon DEF DecodeQ00, WithExtra
<1> DEFINE d == DecodeQ00(FALSE, b)
<1>3. ASSUME d # None PROVE SubSeq(b, d.used + 1, Len(b)) \in Seq(Bit)
  <2>1. PICK q00 : HeadCoded(b, q00)
    BY <1>3, DecodedHead
  <2> DEFINE t == ToByte(Len(EncodeQ00(q00)))
  <2>2. d = [values |-> Wrapped(q00), used |-> t]
    BY <2>1, HeadDecodes
  <2> HIDE DEF d
  <2>3. d.used = t
    BY <2>2
  <2>4. t <= Len(b) /\ Small(Scaled(q00), Len00, Low00, Hi00) /\ q00 \in [1 .. Len00 -> Int]
    BY <2>1 DEF HeadCoded
  <2>5. t \in Nat
    <3> DEFINE g == EncodeGR(Scaled(q00), Low00)
               e == q00[1] % Power(Extra)
    <3>1. HeadParts(q00, g, e)
      BY DEF HeadParts
    <3> HIDE DEF g, e
    <3>2. EncodeQ00(q00) \in Seq(Bit)
      BY <2>4, <3>1, HeadFacts
    <3>3. Len(EncodeQ00(q00)) \in Nat
      BY <3>2
    <3>4. QED
      BY <3>3, ByteFacts
  <2>6. t \in 0 .. Len(b)
    <3>1. Len(b) \in Nat
      OBVIOUS
    <3> HIDE DEF t
    <3>2. QED
      BY <2>4, <2>5, <3>1 DEF t
  <2> HIDE DEF t
  <2>7. SubSeq(b, t + 1, Len(b)) \in Seq(Bit)
    BY <2>6, Parts
  <2>8. QED
    BY <2>3, <2>7
<1>4. QED
  BY <1>2, <1>3

LEMMA KeyAlike ==
    ASSUME NEW b \in Seq(Bit), NEW avx2 \in BOOLEAN
    PROVE  /\ DecodePublic(avx2, b) = DecodePublic(FALSE, b)
           /\ KeyFlaw(avx2, b) = KeyFlaw(FALSE, b)
<1> DEFINE d == DecodeQ00(FALSE, b)
           tail == SubSeq(b, d.used + 1, Len(b))
           Clean(a) == DecodeClean(a, tail, Len01, Low01, Hi01)
           Public(a) == IF d = None \/ Clean(a) = None \/ ~AllZero(tail, Clean(a).used + 1, Len(tail))
                        THEN NoKey
                        ELSE [q00 |-> d.values, q01 |-> Clean(a).values]
<1>1. DecodeQ00(avx2, b) = d
  BY HeadAlike
<1>2. DecodePublic(avx2, b) = Public(avx2) /\ DecodePublic(FALSE, b) = Public(FALSE)
  BY <1>1, Zenon DEF DecodePublic, DecodeAfter, KeyFrom
<1>3. d # None => Clean(avx2) = Clean(FALSE)
  <2>1. d # None => tail \in Seq(Bit)
    BY HeadAlike
  <2> HIDE DEF tail, d
  <2>2. QED
    BY <2>1, CleanAlike
<1>4. Public(avx2) = Public(FALSE)
  <2> HIDE DEF tail, d, Clean
  <2>1. QED
    BY <1>3, Zenon
<1>5. DecodePublic(avx2, b) = DecodePublic(FALSE, b)
  <2> HIDE DEF Public
  <2>1. QED
    BY <1>2, <1>4, Zenon
<1> DEFINE Flaw(a) == IF d = None THEN "q00"
                      ELSE IF Clean(a) = None THEN "q01"
                      ELSE IF DecodePublic(a, b) = NoKey THEN "padding"
                      ELSE IF d.values[1] < 0 THEN "head" ELSE "none"
<1>6. KeyFlaw(avx2, b) = Flaw(avx2) /\ KeyFlaw(FALSE, b) = Flaw(FALSE)
  BY <1>1, Zenon DEF KeyFlaw
<1>7. Flaw(avx2) = Flaw(FALSE)
  <2> HIDE DEF tail, d, Clean
  <2>1. QED
    BY <1>3, <1>5, Zenon
<1>8. QED
  BY <1>5, <1>6, <1>7, Zenon

LEMMA SignatureAlike ==
    ASSUME NEW b \in Seq(Bit), Len(b) = SignatureArea, NEW avx2 \in BOOLEAN
    PROVE  /\ DecodeSig(avx2, b) = DecodeSig(FALSE, b)
           /\ SigFlaw(avx2, b) = SigFlaw(FALSE, b)
<1> DEFINE split == SaltSize * ByteBits
           tail == SubSeq(b, split + 1, Len(b))
<1>1. split \in 0 .. Len(b)
  BY AreaFacts DEF SignatureArea
<1> HIDE DEF split
<1>2. tail \in Seq(Bit)
  BY <1>1, Parts
<1>3. DecodeClean(avx2, tail, LenSig, LowSig, HiSig) = DecodeClean(FALSE, tail, LenSig, LowSig, HiSig)
  <2> HIDE DEF tail
  <2>1. QED
    BY <1>2, CleanAlike
<1>4. DecodeSig(avx2, b) = DecodeSig(FALSE, b)
  BY <1>3, Zenon DEF DecodeSig, SignatureFrom, tail, split
<1>5. QED
  BY <1>4, Zenon DEF SigFlaw

\* What is signed is sent if it fits, and then arrives.
LEMMA SignatureArrives ==
    ASSUME NEW words \in BOOLEAN, NEW salt \in Seq(Bit), Len(salt) = SaltArea,
           NEW s1 \in [1 .. LenSig -> Int], Small(s1, LenSig, LowSig, HiSig),
           NEW bits, bits = EncodeSig(words, salt, s1)
    PROVE  IF SaltArea + Len(EncodeGR(s1, LowSig)) <= SignatureArea
           THEN bits # NoBits
                /\ \A avx2 \in BOOLEAN : DecodeSig(avx2, bits) = [salt |-> salt, s1 |-> s1]
           ELSE bits = NoBits
<1> DEFINE g == EncodeGR(s1, LowSig)
<1>1. bits = IF SaltArea + Len(g) <= SignatureArea
             THEN Pad(salt \o g, SignatureArea) ELSE NoBits
  BY EncodeSigExact
<1>2. ASSUME SaltArea + Len(g) <= SignatureArea
      PROVE  bits # NoBits
             /\ \A avx2 \in BOOLEAN : DecodeSig(avx2, bits) = [salt |-> salt, s1 |-> s1]
  <2>1. SignatureOf(bits, salt, s1)
    BY <1>1, <1>2 DEF SignatureOf
  <2>0. DecodeSig(FALSE, bits) = [salt |-> salt, s1 |-> s1] /\ Len(bits) = SignatureArea
        /\ bits \in Seq(Bit)
    BY <2>1, SignatureDecodes
  <2>2. (\A avx2 \in BOOLEAN : DecodeSig(avx2, bits) = [salt |-> salt, s1 |-> s1])
        /\ Len(bits) = SignatureArea
    BY <2>0, SignatureAlike
  <2>3. Len(g) > 0 /\ Len(g) \in Nat
    <3>1. LenSig \in Nat /\ LenSig > 0 /\ LowSig \in Nat
      BY SizeFacts
    <3>2. /\ g \in Seq(Bit)
          /\ \E ks, end : /\ Ends(LenSig, LowSig, ks, end)
                          /\ \A u \in 1 .. LenSig : ks[u] = Rest(s1[u], LowSig)
                          /\ Coded(g, LenSig, LowSig, s1, ks, end)
                          /\ Len(g) = end[LenSig]
                          /\ end[LenSig] >= LenSig
      BY <3>1, EncodeFacts
    <3> HIDE DEF g
    <3>3. QED
      BY <3>1, <3>2
  <2>4. SignatureArea > 0
    <3>1. SaltArea \in Nat /\ SignatureArea \in Nat
      BY AreaFacts DEF SaltArea, SignatureArea
    <3> HIDE DEF g
    <3>2. QED
      BY <1>2, <2>3, <3>1
  <2>5. bits # NoBits
    BY <2>2, <2>4 DEF NoBits
  <2>6. QED
    BY <2>2, <2>5
<1>3. QED
  BY <1>1, <1>2

-----------------------------------------------------------------------------
(***************************************************************************)
(* Key generation.                                                         *)
(***************************************************************************)
\* What is within the limits can be coded.
LEMMA LimitsSmall ==
    ASSUME NEW q00 \in [1 .. Len00 -> Int], NEW q01 \in [1 .. Len01 -> Int],
           NEW q, q = [q00 |-> q00, q01 |-> q01], LimitsOK(q)
    PROVE  /\ Small(Scaled(q00), Len00, Low00, Hi00) /\ Small(q01, Len01, Low01, Hi01)
           /\ q00[1] = Int16(q00[1])
<1>1. /\ Lim00 \in Nat /\ Lim00 <= Power(Low00) * Hi00
      /\ Lim01 \in Nat /\ Lim01 <= Power(Low01) * Hi01
  BY LimitsAssumption
<1>2. /\ Len00 \in Nat /\ Len00 > 0 /\ Low00 \in Nat /\ Hi00 \in Nat /\ Hi00 > 0
      /\ Len01 \in Nat /\ Low01 \in Nat /\ Hi01 \in Nat /\ Hi01 > 0
  BY SizeFacts
<1>3. /\ q00[1] = Int16(q00[1])
      /\ \A u \in 2 .. Len00 : Within(q00[u], Lim00)
      /\ \A u \in 1 .. Len01 : Within(q01[u], Lim01)
  BY DEF LimitsOK
<1>4. Small(q01, Len01, Low01, Hi01)
  <2> SUFFICES ASSUME NEW u \in 1 .. Len01 PROVE Rest(q01[u], Low01) < Hi01
    BY DEF Small
  <2>1. q01[u] \in Int /\ Within(q01[u], Lim01)
    BY <1>3
  <2>2. QED
    BY <1>1, <1>2, <2>1, WithinSmall
<1>5. Small(Scaled(q00), Len00, Low00, Hi00)
  <2> SUFFICES ASSUME NEW u \in 1 .. Len00 PROVE Rest(Scaled(q00)[u], Low00) < Hi00
    BY DEF Small
  <2>1. CASE u = 1
    <3>1. q00[1] \in Int /\ Scaled(q00)[1] = q00[1] \div Power(Extra)
      BY ScaledFacts
    <3>2. q00[1] \in -Half16 .. Half16 - 1
      BY <1>3, <3>1, Int16Facts
    <3>3. Rest(q00[1] \div Power(Extra), Low00) < Hi00
      BY <3>2, SmallHead
    <3>4. QED
      BY <2>1, <3>1, <3>3
  <2>2. CASE u # 1
    <3>1. u \in 2 .. Len00
      BY <1>2, <2>2
    <3>2. Scaled(q00)[u] = q00[u] /\ q00[u] \in Int /\ Within(q00[u], Lim00)
      BY <1>3, <3>1, ScaledFacts
    <3>3. Rest(q00[u], Low00) < Hi00
      BY <1>1, <1>2, <3>2, WithinSmall
    <3>4. QED
      BY <3>2, <3>3
  <2>3. QED
    BY <2>1, <2>2
<1>6. QED
  BY <1>3, <1>4, <1>5

\* A key that has been encoded is decoded, to what it was.
LEMMA FormArrives ==
    ASSUME NEW s \in Seeds, LimitsOK(Form[s]), EncodePublic(Form[s]) # NoBits
    PROVE  \A avx2 \in BOOLEAN : DecodePublic(avx2, EncodePublic(Form[s])) = Form[s]
<1> DEFINE q00 == Form[s].q00
           q01 == Form[s].q01
           q == Form[s]
           bits == EncodePublic(q)
<1>1. /\ q00 \in [1 .. Len00 -> Int] /\ q01 \in [1 .. Len01 -> Int]
      /\ q = [q00 |-> q00, q01 |-> q01]
  BY FormAssumption
<1>2. LimitsOK(q) /\ bits # NoBits
  OBVIOUS
<1> HIDE DEF q00, q01, q
<1>3. /\ Small(Scaled(q00), Len00, Low00, Hi00) /\ Small(q01, Len01, Low01, Hi01)
      /\ q00[1] = Int16(q00[1])
  BY <1>1, <1>2, LimitsSmall
<1>4. bits = IF KeyLength(q00, q01) <= PublicArea THEN KeyBits(q00, q01) ELSE NoBits
  BY <1>1, EncodePublicExact
<1>5. KeyOf(bits, q00, q01)
  BY <1>1, <1>2, <1>3, <1>4 DEF KeyOf
<1> HIDE DEF bits
<1>0. bits \in Seq(Bit) /\ DecodePublic(FALSE, bits) = [q00 |-> Wrapped(q00), q01 |-> q01]
  BY <1>5, KeyDecodes
<1>6. \A avx2 \in BOOLEAN : DecodePublic(avx2, bits) = [q00 |-> Wrapped(q00), q01 |-> q01]
  BY <1>0, KeyAlike
<1>7. Wrapped(q00) = q00
  BY <1>1, <1>3, ScaledFacts
<1>8. QED
  BY <1>1, <1>6, <1>7 DEF bits, q

LEMMA KeygenConsistent ==
    ASSUME KeygenInv PROVE KeysConsistent
<1> SUFFICES ASSUME pc = "done" PROVE KeysConsistent
  BY DEF KeysConsistent
<1>1. /\ api \in {"hawk", "e8"} /\ seed_buf \in Seeds /\ fg = RegenFG(seed_buf)
      /\ priv = [seed |-> seed_buf, FG |-> Solution(fg), hpub |-> Hash(pub)]
  BY DEF KeygenInv
<1> DEFINE sk == Prepared(priv)
<1>2. sk = [fg |-> fg, FG |-> Solution(fg), hpub |-> Hash(pub)]
  BY <1>1 DEF Prepared
<1> HIDE DEF sk
<1>3. sk.fg = fg /\ sk.FG = Solution(fg) /\ sk.hpub = Hash(pub)
  BY <1>2
<1>4. SeedOf(fg) = seed_buf /\ FormOf(fg) = Form[seed_buf]
  BY <1>1 DEF SeedOf, RegenFG, FormOf
<1>5. ASSUME api = "hawk"
      PROVE  \A avx2 \in BOOLEAN : DecodePublic(avx2, pub) = FormOf(sk.fg)
  <2>1. /\ LimitsOK(FormOf(fg)) /\ pub = EncodePublic(FormOf(fg)) /\ pub # NoBits
    BY <1>5 DEF KeygenInv
  <2>2. QED
    BY <1>1, <1>3, <1>4, <2>1, FormArrives
<1>6. ASSUME api = "e8" PROVE pub = E8Form(sk.fg, sk.FG) /\ E8LimitsOK(pub)
  <2>1. pub = E8Form(fg, Solution(fg)) /\ seed_buf \in E8Within
    BY <1>6 DEF KeygenInv
  <2>2. E8Seed(pub) = seed_buf
    BY <1>4, <2>1 DEF E8Seed, E8Form
  <2>3. QED
    BY <1>3, <2>1, <2>2 DEF E8LimitsOK
<1>7. QED
  BY <1>3, <1>5, <1>6, Zenon DEF KeysConsistent, sk

\* The steps of key generation, but for those of NTRU.
LEMMA KeygenStepKept ==
    ASSUME KeygenInv, KeygenStep
    PROVE  KeygenInv'
<1>1. /\ api \in {"hawk", "e8"} /\ own = [FG |-> own.FG, q |-> Junk, seed |-> own.seed]
      /\ pc \in {"form", "hawk", "e8", "limits"} => seed_buf \in Seeds /\ fg = RegenFG(seed_buf)
      /\ pc = "form" => work = [Empty EXCEPT !.FG = Solution(fg)]
      /\ pc = "hawk" =>
            /\ api = "hawk" /\ LimitsOK(FormOf(fg))
            /\ work = [FG |-> Solution(fg), q |-> FormOf(fg), seed |-> seed_buf]
      /\ pc \in {"e8", "limits"} =>
            api = "e8" /\ own.FG = Solution(fg) /\ own.seed = seed_buf
      /\ pc = "limits" => work.q = E8Form(fg, own.FG)
  BY DEF KeygenInv
<1>2. ASSUME NEW s \in Seeds, Draw(s) PROVE KeygenInv'
  BY <1>1, <1>2 DEF Draw, Goto, KeygenInv
<1>3. CASE RejectForm
  BY <1>1, <1>3 DEF RejectForm, Goto, KeygenInv
<1>4. CASE RejectForm11
  BY <1>1, <1>4 DEF RejectForm11, Goto, KeygenInv
<1>5. CASE Return
  <2>1. /\ pc = "form" /\ LimitsOK(FormOf(fg)) /\ pc' = api
        /\ work' = [work EXCEPT !.q = FormOf(fg), !.seed = seed_buf]
        /\ own' = CopyOut(work')
        /\ UNCHANGED <<api, seed_buf, fg, priv, pub>>
    BY <1>5 DEF Return, Goto
  <2>2. work = [FG |-> Solution(fg), q |-> Junk, seed |-> Junk]
    BY <1>1, <2>1 DEF Empty
  <2>3. work' = [FG |-> Solution(fg), q |-> FormOf(fg), seed |-> seed_buf]
    BY <2>1, <2>2
  <2>4. work'.FG = Solution(fg) /\ work'.seed = seed_buf
    BY <2>3
  <2> DEFINE F == own.FG
             S == own.seed
             W == work'
  <2>5. own = [FG |-> F, q |-> Junk, seed |-> S]
    BY <1>1
  <2> HIDE DEF F, S
  <2>6. own' = IF api = "e8" THEN [own EXCEPT !.FG = W.FG, !.seed = W.seed] ELSE own
    BY <2>1 DEF CopyOut
  <2>7. own' = IF api = "e8" THEN [FG |-> Solution(fg), q |-> Junk, seed |-> seed_buf] ELSE own
    <3> DEFINE a == Solution(fg)
               o == [FG |-> F, q |-> Junk, seed |-> S]
               m == [FG |-> a, q |-> Junk, seed |-> S]
    <3> HIDE DEF a
    <3>1. [o EXCEPT !.FG = a, !.seed = seed_buf] = [FG |-> a, q |-> Junk, seed |-> seed_buf]
      <4>1. [o EXCEPT !.FG = a] = m
        OBVIOUS
      <4>2. [m EXCEPT !.seed = seed_buf] = [FG |-> a, q |-> Junk, seed |-> seed_buf]
        OBVIOUS
      <4> HIDE DEF o, m
      <4>3. QED
        BY <4>1, <4>2
    <3>2. W.FG = a /\ W.seed = seed_buf /\ own = o
      BY <2>4, <2>5 DEF a
    <3> HIDE DEF o, W
    <3>3. QED
      BY <2>6, <3>1, <3>2, Zenon DEF a
  <2>8. own'= [FG |-> own'.FG, q |-> Junk, seed |-> own'.seed]
    BY <2>5, <2>7
  <2>9. api = "e8" => own'.FG = Solution(fg) /\ own'.seed = seed_buf
    BY <2>7
  <2> HIDE DEF W
  <2>10. seed_buf \in Seeds /\ fg = RegenFG(seed_buf)
    BY <1>1, <2>1
  <2>11. QED
    BY <1>1, <2>1, <2>3, <2>8, <2>9, <2>10 DEF KeygenInv
<1>6. CASE EncodeFails
  BY <1>1, <1>6 DEF EncodeFails, EncodeAgain, Goto, KeygenInv
<1>7. CASE Encode
  <2>1. /\ pc = "hawk" /\ EncodePublic(work.q) # NoBits /\ pub' = EncodePublic(work.q)
        /\ priv' = [seed |-> work.seed, FG |-> work.FG, hpub |-> Hash(pub')]
        /\ pc' = "done" /\ UNCHANGED <<api, seed_buf, fg, work, own>>
    BY <1>7 DEF Encode, Goto
  <2>2. work.q = FormOf(fg) /\ work.seed = seed_buf /\ work.FG = Solution(fg) /\ api = "hawk"
        /\ LimitsOK(FormOf(fg))
    BY <1>1, <2>1
  <2>3. QED
    BY <1>1, <2>1, <2>2 DEF KeygenInv
<1>8. CASE MakeForm
  <2>1. /\ pc = "e8" /\ pc' = "limits" /\ UNCHANGED <<api, seed_buf, fg, own, priv, pub>>
        /\ work' = [Empty EXCEPT !.q = E8Form(fg, own.FG)]
    BY <1>8 DEF MakeForm, Goto
  <2>2. work'.q = E8Form(fg, own.FG)
    BY <2>1 DEF Empty
  <2>3. QED
    BY <1>1, <2>1, <2>2 DEF KeygenInv
<1>9. CASE RejectE8
  BY <1>1, <1>9 DEF RejectE8, Goto, KeygenInv
<1>10. CASE Output
  <2>1. /\ pc = "limits" /\ E8FormOK(work.q) /\ pub' = work.q
        /\ priv' = [seed |-> own.seed, FG |-> own.FG, hpub |-> Hash(pub')]
        /\ pc' = "done" /\ UNCHANGED <<api, seed_buf, fg, work, own>>
    BY <1>10 DEF Output, Goto
  <2>2. /\ work.q = E8Form(fg, Solution(fg)) /\ own.FG = Solution(fg) /\ own.seed = seed_buf
        /\ api = "e8" /\ seed_buf \in Seeds /\ fg = RegenFG(seed_buf)
    BY <1>1, <2>1
  <2>3. E8Seed(work.q) = seed_buf
    BY <2>2 DEF E8Seed, E8Form, SeedOf, RegenFG
  <2>4. seed_buf \in E8Within
    BY <2>1, <2>3 DEF E8FormOK, E8LimitsOK
  <2>5. QED
    BY <1>1, <2>1, <2>2, <2>4 DEF KeygenInv
<1>11. QED
  BY <1>2, <1>3, <1>4, <1>5, <1>6, <1>7, <1>8, <1>9, <1>10 DEF KeygenStep

\* Those between the check of f and g and that of the form.
LEMMA SolveKept ==
    ASSUME KeygenInv, SolveNTRU, spc = "formed" => Solver!Solved
    PROVE  KeygenInv'
<1>1. pc = "check" /\ (pc = "check" => seed_buf \in Seeds /\ fg = RegenFG(seed_buf))
  BY DEF SolveNTRU, KeygenInv
<1>2. CASE UNCHANGED keygenVars
  BY <1>2 DEF keygenVars, KeygenInv
<1>3. CASE RejectPair
  BY <1>3 DEF RejectPair, Goto, KeygenInv
<1>4. CASE Solve(Solution(fg))
  BY <1>1, <1>4 DEF Solve, Goto, KeygenInv
<1>5. QED
  BY <1>2, <1>3, <1>4, Zenon DEF SolveNTRU

\* Outside of it, nothing is promised.
LEMMA KeygenRests ==
    ASSUME KeygenInv, UNCHANGED <<api, own>>,
           pc' \in {"idle", "draw", "received", "verify"}
    PROVE  KeygenInv'
BY DEF KeygenInv

-----------------------------------------------------------------------------
(***************************************************************************)
(* Keys and signatures on their way.                                       *)
(***************************************************************************)
\* A buffer of its size.
LEMMA BufferSeq ==
    ASSUME NEW k \in Nat, NEW b \in [1 .. k -> Bit]
    PROVE  b \in Seq(Bit) /\ Len(b) = k
OBVIOUS

LEMMA KeyBuffer ==
    ASSUME NEW b \in [1 .. PubSize * ByteBits -> Bit]
    PROVE  b \in Seq(Bit) /\ Len(b) = PublicArea
<1>1. PublicArea \in Nat /\ b \in [1 .. PublicArea -> Bit]
  BY AreaFacts DEF PublicArea
<1>2. QED
  BY <1>1, BufferSeq

LEMMA SignatureBuffer ==
    ASSUME NEW b \in [1 .. SigSize * ByteBits -> Bit]
    PROVE  b \in Seq(Bit) /\ Len(b) = SignatureArea
<1>1. SignatureArea \in Nat /\ b \in [1 .. SignatureArea -> Bit]
  BY AreaFacts DEF SignatureArea
<1>2. QED
  BY <1>1, BufferSeq

LEMMA ReceivedKept ==
    ASSUME Arrive PROVE WireInv'
<1>0. ASSUME NEW b, NEW w
      PROVE  [Nothing EXCEPT !.is = w, !.bits = b]
             = [is |-> w, bits |-> b, salt |-> <<>>, s1 |-> <<>>]
  <2> DEFINE n == [is |-> w, bits |-> NoBits, salt |-> <<>>, s1 |-> <<>>]
  <2>1. [Nothing EXCEPT !.is = w] = n
    BY DEF Nothing
  <2>2. [n EXCEPT !.bits = b] = [is |-> w, bits |-> b, salt |-> <<>>, s1 |-> <<>>]
    OBVIOUS
  <2> HIDE DEF n
  <2>3. QED
    BY <2>1, <2>2
<1>1. \A b : [Nothing EXCEPT !.is = "key", !.bits = b]
             = [is |-> "key", bits |-> b, salt |-> <<>>, s1 |-> <<>>]
  BY <1>0, Zenon
<1>2. \A b : [Nothing EXCEPT !.is = "signature", !.bits = b]
             = [is |-> "signature", bits |-> b, salt |-> <<>>, s1 |-> <<>>]
  BY <1>0, Zenon
<1>3. ASSUME NEW b \in Keys, NEW avx2 \in BOOLEAN, ReceiveKey(avx2, b) PROVE WireInv'
  <2>1. wire' = [is |-> "key", bits |-> b, salt |-> <<>>, s1 |-> <<>>]
        /\ decoded' = DecodePublic(avx2, b)
    BY <1>1, <1>3, Zenon DEF ReceiveKey, Receive
  <2>2. wire'.is = "key" /\ wire'.bits = b
    BY <2>1
  <2>3. b \in Seq(Bit)
    BY WireAssumption, KeyBuffer
  <2>4. DecodePublic(avx2, b) = DecodePublic(FALSE, b)
    BY <2>3, KeyAlike
  <2>5. QED
    BY <2>1, <2>2, <2>4 DEF WireInv
<1>4. ASSUME NEW b \in Signatures, NEW avx2 \in BOOLEAN, ReceiveSignature(avx2, b)
      PROVE  WireInv'
  <2>1. wire' = [is |-> "signature", bits |-> b, salt |-> <<>>, s1 |-> <<>>]
        /\ decoded' = DecodeSig(avx2, b)
    BY <1>2, <1>4, Zenon DEF ReceiveSignature, Receive
  <2>2. wire'.is = "signature" /\ wire'.bits = b
    BY <2>1
  <2>3. b \in Seq(Bit) /\ Len(b) = SignatureArea
    BY WireAssumption, SignatureBuffer
  <2>4. DecodeSig(avx2, b) = DecodeSig(FALSE, b)
    BY <2>3, SignatureAlike
  <2>5. QED
    BY <2>1, <2>2, <2>4 DEF WireInv
<1>5. ASSUME NEW words \in BOOLEAN, NEW salt \in Salts, NEW s1 \in Vectors,
             NEW avx2 \in BOOLEAN, SendSignature(words, avx2, salt, s1)
      PROVE  WireInv'
  <2> DEFINE b == EncodeSig(words, salt, s1)
  <2>1. wire' = [is |-> "sent", bits |-> b, salt |-> salt, s1 |-> s1]
        /\ decoded' = IF b = NoBits THEN NoSignature ELSE DecodeSig(avx2, b)
    BY <1>5, Zenon DEF SendSignature, Receive
  <2> HIDE DEF b
  <2>2. wire'.is = "sent" /\ wire'.bits = b /\ wire'.salt = salt /\ wire'.s1 = s1
    BY <2>1
  <2>3. \E ww \in BOOLEAN : wire'.bits = EncodeSig(ww, wire'.salt, wire'.s1)
    BY <2>2 DEF b
  <2>4. \E a \in BOOLEAN :
           decoded' = IF wire'.bits = NoBits THEN NoSignature ELSE DecodeSig(a, wire'.bits)
    BY <2>1, <2>2
  <2>5. QED
    BY <2>1, <2>2, <2>3, <2>4 DEF WireInv
<1>6. QED
  BY <1>3, <1>4, <1>5 DEF Arrive

LEMMA WireCanonical ==
    ASSUME WireInv PROVE Canonical
<1>1. ASSUME wire.is = "key", decoded # NoKey
      PROVE  EncodePublic(decoded) = wire.bits
                <=> CodedHead(wire.bits) = Int16(CodedHead(wire.bits))
  <2>1. decoded = DecodePublic(FALSE, wire.bits)
    BY <1>1 DEF WireInv
  <2>3. wire.bits \in Seq(Bit) /\ Len(wire.bits) = PublicArea
    BY <1>1, WireAssumption, KeyBuffer DEF WireInv
  <2>4. QED
    BY <1>1, <2>1, <2>3, KeyCanonical
<1>2. ASSUME wire.is = "signature", decoded # NoSignature
      PROVE  EncodeSig(FALSE, decoded.salt, decoded.s1) = wire.bits
  <2>1. decoded = DecodeSig(FALSE, wire.bits)
    BY <1>2 DEF WireInv
  <2>3. wire.bits \in Seq(Bit) /\ Len(wire.bits) = SignatureArea
    BY <1>2, WireAssumption, SignatureBuffer DEF WireInv
  <2>4. QED
    BY <1>2, <2>1, <2>3, SignatureCanonical
<1>3. ASSUME wire.is = "key", NEW avx2 \in BOOLEAN PROVE decoded = DecodePublic(avx2, wire.bits)
  <2>1. decoded = DecodePublic(FALSE, wire.bits) /\ wire.bits \in Seq(Bit)
    BY <1>3, WireAssumption, KeyBuffer DEF WireInv
  <2>2. QED
    BY <2>1, KeyAlike
<1>4. ASSUME wire.is = "signature", NEW avx2 \in BOOLEAN
      PROVE  decoded = DecodeSig(avx2, wire.bits)
  <2>1. decoded = DecodeSig(FALSE, wire.bits) /\ wire.bits \in Seq(Bit)
        /\ Len(wire.bits) = SignatureArea
    BY <1>4, WireAssumption, SignatureBuffer DEF WireInv
  <2>2. QED
    BY <2>1, SignatureAlike
<1>5. QED
  BY <1>1, <1>2, <1>3, <1>4 DEF Canonical

LEMMA WireArrives ==
    ASSUME WireInv PROVE SentArrives
<1> SUFFICES ASSUME wire.is = "sent"
             PROVE  IF SaltArea + Len(EncodeGR(wire.s1, LowSig)) <= SignatureArea
                    THEN decoded = [salt |-> wire.salt, s1 |-> wire.s1]
                    ELSE wire.bits = NoBits
  BY DEF SentArrives, SaltArea, SignatureArea
<1> DEFINE salt == wire.salt
           s1 == wire.s1
           b == wire.bits
<1>1. salt \in Salts /\ s1 \in Vectors
      /\ \E avx2 \in BOOLEAN :
            decoded = IF b = NoBits THEN NoSignature ELSE DecodeSig(avx2, b)
  BY DEF WireInv
<1>2. PICK words \in BOOLEAN : b = EncodeSig(words, salt, s1)
  BY DEF WireInv
<1> HIDE DEF salt, s1, b
<1>3. salt \in Seq(Bit) /\ Len(salt) = SaltArea
  <2>1. SaltArea \in Nat /\ salt \in [1 .. SaltArea -> Bit]
    BY <1>1, AreaFacts, WireAssumption DEF SaltArea
  <2>2. QED
    BY <2>1, BufferSeq
<1>4. s1 \in [1 .. LenSig -> Int] /\ Small(s1, LenSig, LowSig, HiSig)
  BY <1>1, WireAssumption DEF Small
<1>5. IF SaltArea + Len(EncodeGR(s1, LowSig)) <= SignatureArea
      THEN b # NoBits /\ \A avx2 \in BOOLEAN : DecodeSig(avx2, b) = [salt |-> salt, s1 |-> s1]
      ELSE b = NoBits
  BY <1>2, <1>3, <1>4, SignatureArrives
<1>6. QED
  BY <1>1, <1>5 DEF salt, s1, b

\* Decoding finds one flaw of a key, at most, and one of a signature.
LEMMA FlawsFound ==
    ASSUME NEW avx2, NEW pair, NEW others \in SUBSET OtherFlaws
    PROVE  Flawed(avx2, pair) \cup others \subseteq Verify!Flaws
<1>1. KeyFlaw(avx2, pair[1]) \in {"q00", "q01", "padding", "head", "none"}
  BY DEF KeyFlaw
<1>2. SigFlaw(avx2, pair[2]) \in {"signature", "none"}
  BY DEF SigFlaw
<1>3. QED
  BY <1>1, <1>2 DEF Flawed, OtherFlaws, Verify!Flaws, Verify!SigFlaws, Verify!PubFlaws

\* All builds find the same.
LEMMA FlawsAlike ==
    ASSUME NEW avx2 \in BOOLEAN, NEW pair \in Pairs
    PROVE  Flawed(avx2, pair) = Flawed(FALSE, pair)
<1> DEFINE b == pair[1]
           c == pair[2]
<1>1. b \in [1 .. PubSize * ByteBits -> Bit] /\ c \in [1 .. SigSize * ByteBits -> Bit]
  BY PairAssumption
<1> HIDE DEF b, c
<1>2. b \in Seq(Bit) /\ c \in Seq(Bit) /\ Len(c) = SignatureArea
  BY <1>1, KeyBuffer, SignatureBuffer
<1>3. KeyFlaw(avx2, b) = KeyFlaw(FALSE, b) /\ SigFlaw(avx2, c) = SigFlaw(FALSE, c)
  BY <1>2, KeyAlike, SignatureAlike
<1>4. QED
  BY <1>3, Zenon DEF Flawed, b, c

-----------------------------------------------------------------------------
(***************************************************************************)
(* The theorems.                                                           *)
(***************************************************************************)
\* What is in the buffer, what has been checked and which norms there are is,
\* at each step of verify_finish() and verify_inner(), what it is to be.
THEOREM ReceiveInvariance == ReceiveSpec => []ReceiveInv
<1>1. ReceiveInit => ReceiveInv
  BY DEF ReceiveInit, AtRest, ReceiveInv
<1>2. ReceiveInv /\ [ReceiveNext]_receiveVars => ReceiveInv'
  <2> SUFFICES ASSUME ReceiveInv, [ReceiveNext]_receiveVars
               PROVE  ReceiveInv'
    OBVIOUS
  <2>1. CASE UNCHANGED verifyVars
    BY <2>1, ElsewhereStep
  <2>2. ASSUME NEW pair \in Pairs, StartVerify(pair)
        PROVE  ReceiveInv'
    <3>1. PICK others \in SUBSET OtherFlaws : flaws' = Flawed(FALSE, pair) \cup others
      BY <2>2, FlawsAlike DEF StartVerify
    <3>2. PICK size \in Sizes, skew \in Skews : skew <= size /\ Verify!Call(size, skew)
      BY <2>2 DEF StartVerify
    <3>3. size \in Nat /\ skew \in Nat
      BY SizeAssumption
    <3>4. flaws' \subseteq Verify!Flaws
      BY <3>1, FlawsFound
    <3>5. Verify!VerifyInv'
      BY <3>2, <3>3, <3>4, CallFacts
    <3>6. given' = pair
      BY <2>2 DEF StartVerify
    <3>7. vpc' = "pub"
      BY <3>2 DEF Verify!Call
    <3>8. QED
      BY <3>1, <3>5, <3>6, <3>7 DEF ReceiveInv
  <2>3. CASE Verify!Step /\ UNCHANGED <<vars, given, solverVars>>
    BY <2>3, VerifyStep
  <2>4. CASE Verified
    BY <2>4 DEF Verified, ReceiveInv
  <2>5. CASE UNCHANGED receiveVars
    BY <2>1, <2>5 DEF receiveVars
  <2>6. QED
    BY <2>1, <2>2, <2>3, <2>4, <2>5 DEF ReceiveNext
<1>3. QED
  BY <1>1, <1>2, PTL DEF ReceiveSpec

\* The verdict of HAWK's verification is exact: although every polynomial goes
\* through one buffer, the norms that are compared are those of the key, the
\* signature and the hash; what has no flaw is accepted, what has one is not;
\* and the caller's memory is left as it was.
THEOREM VerdictsExact == ReceiveSpec => []VerdictExact
<1>1. ReceiveInv => VerdictExact
  <2> SUFFICES ASSUME ReceiveInv PROVE VerdictExact
    OBVIOUS
  <2>1. CASE vpc = "rest"
    <3>1. mem = <<>> /\ norm = <<>> /\ ~result
      BY <2>1 DEF ReceiveInv
    <3>2. \A at, term, count : Verify!Put16(<<>>, at, term, count) = <<>>
      BY DEF Verify!Put16
    <3>3. mem = Verify!PutSig(Verify!PutPubHash(mem, Verify!CallersPub), Verify!CallersSig)
      BY <3>1, <3>2 DEF Verify!PutSig, Verify!PutPubHash, Verify!PutPub
    <3>4. QED
      BY <2>1, <3>1, <3>3 DEF VerdictExact, Verify!VerdictExact
  <2>2. CASE vpc # "rest"
    <3>1. /\ Verify!VerifyInv /\ Flawed(FALSE, given) \subseteq flaws
          /\ \A avx2 \in BOOLEAN : Flawed(avx2, given) = Flawed(FALSE, given)
      BY <2>2, FlawsAlike DEF ReceiveInv
    <3>2. \A k \in 1 .. Len(norm) :
             vpc \in {"compare", "bound", "done"} => norm[k] = Verify!TheNorm(k)
      BY <3>1 DEF Verify!VerifyInv, Verify!NormInv
    <3>3. vpc = "done" => (result <=> flaws = {} /\ room >= Verify!Need)
      BY <3>1 DEF Verify!VerifyInv, Verify!FlawInv
    <3>4. result => Len(norm) = 2
      BY <3>1 DEF Verify!VerifyInv, Verify!NormInv
    <3>5. mem = Verify!PutSig(Verify!PutPubHash(mem, Verify!CallersPub), Verify!CallersSig)
      BY <3>1, CallersMemory DEF Verify!VerifyInv
    <3>6. result => \A avx2 \in BOOLEAN : Flawed(avx2, given) = {}
      BY <3>1, <3>3 DEF Verify!VerifyInv, Verify!FlawInv
    <3>7. QED
      BY <3>2, <3>3, <3>4, <3>5, <3>6 DEF VerdictExact, Verify!VerdictExact
  <2>3. QED
    BY <2>1, <2>2
<1>2. QED
  BY <1>1, ReceiveInvariance, PTL

\* What was received stays what was given or sent.
THEOREM WireInvariance == ReceiveSpec => []WireInv
<1>1. ReceiveInit => WireInv
  BY DEF ReceiveInit, Init, Nothing, WireInv
<1>2. WireInv /\ [ReceiveNext]_receiveVars => WireInv'
  <2> SUFFICES ASSUME WireInv, [ReceiveNext]_receiveVars
               PROVE  WireInv'
    OBVIOUS
  <2>1. CASE UNCHANGED <<wire, decoded>>
    BY <2>1 DEF WireInv
  <2>2. CASE Arrive
    BY <2>2, ReceivedKept
  <2>3. CASE Received
    BY <2>3 DEF Received, Nothing, WireInv
  <2>4. CASE Next
    BY <2>1, <2>2, <2>3, <2>4 DEF Next, MakeKeys
  <2>5. ASSUME NEW pair \in Pairs, StartVerify(pair) PROVE WireInv'
    BY <2>1, <2>5 DEF StartVerify
  <2>6. CASE Verified
    BY <2>1, <2>6 DEF Verified
  <2>7. CASE UNCHANGED vars
    BY <2>1, <2>7 DEF vars
  <2>8. CASE UNCHANGED receiveVars
    BY <2>7, <2>8 DEF receiveVars
  <2>9. QED
    BY <2>1, <2>4, <2>5, <2>6, <2>7, <2>8 DEF ReceiveNext
<1>3. QED
  BY <1>1, <1>2, PTL DEF ReceiveSpec

\* No key and no signature has a second encoding, but for a key whose head an
\* int16_t does not hold: what a decoder accepts, whatever bytes it was given,
\* is the encoding of what it makes of them.
THEOREM CodesCanonical == ReceiveSpec => []Canonical
<1>1. WireInv => Canonical
  BY WireCanonical
<1>2. QED
  BY <1>1, WireInvariance, PTL

\* Both ways to write a signature's unary part refuse a signature only if it
\* does not fit, and what is sent is decoded to what was signed.
THEOREM SignaturesArrive == ReceiveSpec => []SentArrives
<1>1. WireInv => SentArrives
  BY WireArrives
<1>2. QED
  BY <1>1, WireInvariance, PTL

-----------------------------------------------------------------------------
(***************************************************************************)
(* The operators of the solver, by their own names.                        *)
(***************************************************************************)
Hawk256 == Solver!Hawk256
Hawk512 == Solver!Hawk512
Hawk1024 == Solver!Hawk1024
Profile == Solver!Profile
N0 == Solver!N0
Degree(d) == Solver!Degree(d)
Large(d) == Solver!Large(d)
Window(d) == Solver!Window(d)
Saved(d) == Solver!Saved(d)
Length(d) == Solver!Length(d)
Area == Solver!Area
SaveOffset == Solver!SaveOffset
SavedAt == Solver!SavedAt
Known(xs) == Solver!Known(xs)
Term(op, xs) == Solver!Term(op, xs)
f(d) == Solver!f(d)
g(d) == Solver!g(d)
HalfDegree(x) == Solver!HalfDegree(x)
Bezout(x, y) == Solver!Bezout(x, y)
Lift(F, y) == Solver!Lift(F, y)
Reciprocal(x) == Solver!Reciprocal(x)
Subtract(F, k, x) == Solver!Subtract(F, k, x)
SolveForG(F, x, y) == Solver!SolveForG(F, x, y)
Product(x, y, z, t) == Solver!Product(x, y, z, t)
Quotient(num, den) == Solver!Quotient(num, den)
Minus(F, k, x) == Solver!Minus(F, k, x)
TheF == Solver!TheF
Unreduced(d) == Solver!Unreduced(d)
TopK == Solver!TopK
TopF == Solver!TopF
TopG == Solver!TopG
Q(F, G) == Solver!Q(F, G)
Unset == Solver!Unset
Words(x) == Solver!Words(x)
NTT(x) == Solver!NTT(x)
FFT(x) == Solver!FFT(x)
At(at, len, what) == Solver!At(at, len, what)
Apart(e, w) == Solver!Apart(e, w)
Outlasts(e, writes, k) == Solver!Outlasts(e, writes, k)
Lasting(m, writes) == Solver!Lasting(m, writes)
Puts(m, writes) == Solver!Puts(m, writes)
Put(m, at, len, what) == Solver!Put(m, at, len, what)
Read(m, at, len, form) == Solver!Read(m, at, len, form)
MovePair(m, to, from, len) == Solver!MovePair(m, to, from, len)
Down == Solver!Down
Base == Solver!Base
n == Solver!n
slen == Solver!slen
llen == Solver!llen
Ft == Solver!Ft
ft == Solver!ft
gt == Solver!gt
Fd == Solver!Fd
UseNTT == Solver!UseNTT
rt3 == Solver!rt3
rt1 == Solver!rt1
t2 == Solver!t2
blen == Solver!blen
scale_fg == Solver!scale_fg
SubtractRoom == Solver!SubtractRoom
EnoughWords == Solver!EnoughWords
Subtracted == Solver!Subtracted
NextScale == Solver!NextScale
NextLen(s) == Solver!NextLen(s)
T(k) == Solver!T(k)
U(k) == Solver!U(k)
Solved == Solver!Solved
Tidy(m) == Solver!Tidy(m)
Pair(at, d) == Solver!Pair(at, d)
SavedTo(top) == Solver!SavedTo(top)
DeeperF == Solver!DeeperF
Between == Solver!Between
AtZero == Solver!AtZero
AtStep == Solver!AtStep
AtDeepest == Solver!AtDeepest
AtFetch == Solver!AtFetch
AtMove == Solver!AtMove
AtLift == Solver!AtLift
AtScale == Solver!AtScale
AtReduce == Solver!AtReduce
AtQuotient == Solver!AtQuotient
AtSubtract == Solver!AtSubtract
AtBytes == Solver!AtBytes
AtForm == Solver!AtForm
SolverInv == Solver!SolverInv

USE DEF Hawk256, Hawk512, Hawk1024, Profile, N0, Degree, Large, Window, Saved,
        Length, Area, SaveOffset, SavedAt, Known, Term, f, g, HalfDegree, Bezout,
        Lift, Reciprocal, Subtract, SolveForG, Product, Quotient, Minus, TheF,
        Unreduced, TopK, TopF, TopG, Q, Unset, Words, NTT, FFT, At, Apart,
        Outlasts, Lasting, Puts, Put, Read, MovePair, Down, Base, n, slen, llen,
        Ft, ft, gt, Fd, UseNTT, rt3, rt1, t2, blen, scale_fg, SubtractRoom,
        EnoughWords, Subtracted, NextScale, NextLen, T, U, Solved, Tidy, Pair,
        SavedTo, DeeperF, Between, AtZero, AtStep, AtDeepest, AtFetch, AtMove,
        AtLift, AtScale, AtReduce, AtQuotient, AtSubtract, AtBytes, AtForm,
        SolverInv

-----------------------------------------------------------------------------
(***************************************************************************)
(* The NTRU solver: its memory.                                            *)
(***************************************************************************)
\* An extent that is in the area; and what is behind a place, and stays.
Placed(e) == e.at \in Nat /\ e.len \in Nat /\ e.at + e.len <= Area
KeepsAbove(m, p, roof) == \A e \in m : e.at >= roof => e \in p

\* Writes that stay in the area keep what is apart from all of them, and are
\* there unless a later one goes over them; nothing overlaps that did not.
LEMMA PutsFacts ==
    ASSUME NEW m, NEW ws, Tidy(m), Area \in Nat,
           \A k \in DOMAIN ws : Placed(ws[k]), DOMAIN ws = 1 .. Len(ws), Len(ws) \in Nat
    PROVE  /\ Tidy(Puts(m, ws))
           /\ \A e \in m : (\A k \in DOMAIN ws : Apart(e, ws[k])) => e \in Puts(m, ws)
           /\ \A k \in DOMAIN ws :
                 (\A j \in k + 1 .. Len(ws) : Apart(ws[k], ws[j])) => ws[k] \in Puts(m, ws)
           /\ \A roof \in Nat :
                 (\A k \in DOMAIN ws : ws[k].at + ws[k].len <= roof) =>
                     KeepsAbove(m, Puts(m, ws), roof)
<1> DEFINE old == {e \in m : Outlasts(e, ws, 1)}
           new == {ws[k] : k \in {j \in DOMAIN ws : Outlasts(ws[j], ws, j + 1)}}
<1>1. Puts(m, ws) = old \cup new
  <2>1. ~(\E k \in DOMAIN ws : ws[k].at + ws[k].len > Area)
    BY DEF Placed
  <2>2. Puts(m, ws) = Lasting(m, ws)
    BY <2>1, Zenon DEF Solver!Puts
  <2>3. Lasting(m, ws) = old \cup new
    BY Zenon DEF Solver!Lasting
  <2>4. QED
    BY <2>2, <2>3, Zenon
<1>2. \A e \in m : (\A k \in DOMAIN ws : Apart(e, ws[k])) => e \in old
  BY DEF Solver!Outlasts
<1>3. \A k \in DOMAIN ws :
         (\A j \in k + 1 .. Len(ws) : Apart(ws[k], ws[j])) => ws[k] \in new
  BY DEF Solver!Outlasts
<1>4. \A e \in old : e.at \in Nat /\ e.len \in Nat
  BY DEF Solver!Tidy
<1>5. \A e \in new : e.at \in Nat /\ e.len \in Nat
  BY DEF Placed
<1>6. \A e, w : Apart(e, w) <=> Apart(w, e)
  BY DEF Solver!Apart
<1>7. ASSUME NEW e \in old, NEW w \in new PROVE Apart(e, w)
  BY DEF Solver!Outlasts
<1>8. ASSUME NEW e \in new, NEW w \in new PROVE e = w \/ Apart(e, w)
  <2>1. PICK k \in DOMAIN ws : e = ws[k] /\ Outlasts(ws[k], ws, k + 1)
    OBVIOUS
  <2>2. PICK j \in DOMAIN ws : w = ws[j] /\ Outlasts(ws[j], ws, j + 1)
    OBVIOUS
  <2>3. k = j \/ j \in k + 1 .. Len(ws) \/ k \in j + 1 .. Len(ws)
    OBVIOUS
  <2>4. QED
    BY <2>1, <2>2, <2>3, <1>6 DEF Solver!Outlasts
<1>9. \A e, w \in old : e = w \/ Apart(e, w)
  BY DEF Solver!Tidy
<1> HIDE DEF old, new
<1>10. Tidy(old \cup new)
  BY <1>4, <1>5, <1>6, <1>7, <1>8, <1>9 DEF Solver!Tidy
<1>11. ASSUME NEW roof \in Nat, \A k \in DOMAIN ws : ws[k].at + ws[k].len <= roof
       PROVE  KeepsAbove(m, old \cup new, roof)
  <2> SUFFICES ASSUME NEW e \in m, e.at >= roof PROVE e \in old
    BY DEF KeepsAbove
  <2>1. e.at \in Nat /\ e.len \in Nat
    BY DEF Solver!Tidy
  <2>2. \A k \in DOMAIN ws : Apart(e, ws[k])
    BY <1>11, <2>1 DEF Solver!Apart, Placed
  <2>3. QED
    BY <1>2, <2>2
<1>12. QED
  BY <1>1, <1>2, <1>3, <1>10, <1>11

\* The same for each number of writes that there is.
LEMMA PutsOne ==
    ASSUME NEW m, Tidy(m), Area \in Nat,
           NEW a, Placed(a)
    PROVE  LET p == Puts(m, <<a>>)
           IN  /\ Tidy(p) /\ a \in p
               /\ \A x \in m : Apart(x, a) => x \in p
               /\ \A roof \in Nat :
                     (\A x \in {a} : x.at + x.len <= roof) => KeepsAbove(m, p, roof)
<1> DEFINE ws == <<a>>
<1>1. DOMAIN ws = 1 .. Len(ws) /\ Len(ws) = 1
  OBVIOUS
<1>2. ws[1] = a
  OBVIOUS
<1> HIDE DEF ws
<1>3. DOMAIN ws = {1}
  BY <1>1
<1>4. \A k \in DOMAIN ws : Placed(ws[k])
  BY <1>2, <1>3
<1> DEFINE q == Puts(m, ws)
<1>5. /\ Tidy(q)
      /\ \A x \in m : (\A k \in DOMAIN ws : Apart(x, ws[k])) => x \in q
      /\ \A k \in DOMAIN ws :
            (\A j \in k + 1 .. Len(ws) : Apart(ws[k], ws[j])) => ws[k] \in q
      /\ \A roof \in Nat :
            (\A k \in DOMAIN ws : ws[k].at + ws[k].len <= roof) => KeepsAbove(m, q, roof)
  <2>1. Len(ws) \in Nat
    BY <1>1
  <2>2. QED
    BY <1>1, <1>4, <2>1, PutsFacts, Zenon
<1> HIDE DEF q
<1>6. \A x \in m : Apart(x, a) => x \in q
  BY <1>2, <1>3, <1>5
<1>7. ASSUME NEW roof \in Nat, \A x \in {a} : x.at + x.len <= roof
      PROVE  KeepsAbove(m, q, roof)
  <2>1. \A k \in DOMAIN ws : ws[k].at + ws[k].len <= roof
    BY <1>2, <1>3, <1>7
  <2>2. QED
    BY <1>5, <2>1
<1>8. a \in q
  BY <1>1, <1>2, <1>3, <1>5
<1>9. QED
  BY <1>5, <1>6, <1>7, <1>8, Zenon DEF q, ws

LEMMA PutsTwo ==
    ASSUME NEW m, Tidy(m), Area \in Nat,
           NEW a, Placed(a), NEW b, Placed(b)
    PROVE  LET p == Puts(m, <<a, b>>)
           IN  /\ Tidy(p) /\ b \in p
               /\ (Apart(a, b) => a \in p)
               /\ \A x \in m : Apart(x, a) /\ Apart(x, b) => x \in p
               /\ \A roof \in Nat :
                     (\A x \in {a, b} : x.at + x.len <= roof) => KeepsAbove(m, p, roof)
<1> DEFINE ws == <<a, b>>
<1>1. DOMAIN ws = 1 .. Len(ws) /\ Len(ws) = 2
  OBVIOUS
<1>2. ws[1] = a /\ ws[2] = b
  OBVIOUS
<1> HIDE DEF ws
<1>3. DOMAIN ws = {1, 2}
  BY <1>1
<1>4. \A k \in DOMAIN ws : Placed(ws[k])
  BY <1>2, <1>3
<1> DEFINE q == Puts(m, ws)
<1>5. /\ Tidy(q)
      /\ \A x \in m : (\A k \in DOMAIN ws : Apart(x, ws[k])) => x \in q
      /\ \A k \in DOMAIN ws :
            (\A j \in k + 1 .. Len(ws) : Apart(ws[k], ws[j])) => ws[k] \in q
      /\ \A roof \in Nat :
            (\A k \in DOMAIN ws : ws[k].at + ws[k].len <= roof) => KeepsAbove(m, q, roof)
  <2>1. Len(ws) \in Nat
    BY <1>1
  <2>2. QED
    BY <1>1, <1>4, <2>1, PutsFacts, Zenon
<1> HIDE DEF q
<1>6. \A x \in m : Apart(x, a) /\ Apart(x, b) => x \in q
  BY <1>2, <1>3, <1>5
<1>7. ASSUME NEW roof \in Nat, \A x \in {a, b} : x.at + x.len <= roof
      PROVE  KeepsAbove(m, q, roof)
  <2>1. \A k \in DOMAIN ws : ws[k].at + ws[k].len <= roof
    BY <1>2, <1>3, <1>7
  <2>2. QED
    BY <1>5, <2>1
<1>8. b \in q
  BY <1>1, <1>2, <1>3, <1>5
<1>9. Apart(a, b) => a \in q
  BY <1>1, <1>2, <1>3, <1>5
<1>10. QED
  BY <1>5, <1>6, <1>7, <1>8, <1>9, Zenon DEF q, ws

LEMMA PutsThree ==
    ASSUME NEW m, Tidy(m), Area \in Nat,
           NEW a, Placed(a), NEW b, Placed(b), NEW c, Placed(c)
    PROVE  LET p == Puts(m, <<a, b, c>>)
           IN  /\ Tidy(p) /\ c \in p
               /\ (Apart(b, c) => b \in p)
               /\ (Apart(a, b) /\ Apart(a, c) => a \in p)
               /\ \A x \in m : Apart(x, a) /\ Apart(x, b) /\ Apart(x, c) => x \in p
               /\ \A roof \in Nat :
                     (\A x \in {a, b, c} : x.at + x.len <= roof) => KeepsAbove(m, p, roof)
<1> DEFINE ws == <<a, b, c>>
<1>1. DOMAIN ws = 1 .. Len(ws) /\ Len(ws) = 3
  OBVIOUS
<1>2. ws[1] = a /\ ws[2] = b /\ ws[3] = c
  OBVIOUS
<1> HIDE DEF ws
<1>3. DOMAIN ws = {1, 2, 3}
  BY <1>1
<1>4. \A k \in DOMAIN ws : Placed(ws[k])
  BY <1>2, <1>3
<1> DEFINE q == Puts(m, ws)
<1>5. /\ Tidy(q)
      /\ \A x \in m : (\A k \in DOMAIN ws : Apart(x, ws[k])) => x \in q
      /\ \A k \in DOMAIN ws :
            (\A j \in k + 1 .. Len(ws) : Apart(ws[k], ws[j])) => ws[k] \in q
      /\ \A roof \in Nat :
            (\A k \in DOMAIN ws : ws[k].at + ws[k].len <= roof) => KeepsAbove(m, q, roof)
  <2>1. Len(ws) \in Nat
    BY <1>1
  <2>2. QED
    BY <1>1, <1>4, <2>1, PutsFacts, Zenon
<1> HIDE DEF q
<1>6. \A x \in m : Apart(x, a) /\ Apart(x, b) /\ Apart(x, c) => x \in q
  BY <1>2, <1>3, <1>5
<1>7. ASSUME NEW roof \in Nat, \A x \in {a, b, c} : x.at + x.len <= roof
      PROVE  KeepsAbove(m, q, roof)
  <2>1. \A k \in DOMAIN ws : ws[k].at + ws[k].len <= roof
    BY <1>2, <1>3, <1>7
  <2>2. QED
    BY <1>5, <2>1
<1>8. c \in q
  BY <1>1, <1>2, <1>3, <1>5
<1>9. Apart(b, c) => b \in q
  BY <1>1, <1>2, <1>3, <1>5
<1>10. Apart(a, b) /\ Apart(a, c) => a \in q
  BY <1>1, <1>2, <1>3, <1>5
<1>11. QED
  BY <1>5, <1>6, <1>7, <1>8, <1>9, <1>10, Zenon DEF q, ws

LEMMA PutsFour ==
    ASSUME NEW m, Tidy(m), Area \in Nat,
           NEW a, Placed(a), NEW b, Placed(b), NEW c, Placed(c),
           NEW d, Placed(d)
    PROVE  LET p == Puts(m, <<a, b, c, d>>)
           IN  /\ Tidy(p) /\ d \in p
               /\ (Apart(c, d) => c \in p)
               /\ (Apart(b, c) /\ Apart(b, d) => b \in p)
               /\ (Apart(a, b) /\ Apart(a, c) /\ Apart(a, d) => a \in p)
               /\ \A x \in m : Apart(x, a) /\ Apart(x, b) /\ Apart(x, c) /\ Apart(x, d) => x \in p
               /\ \A roof \in Nat :
                     (\A x \in {a, b, c, d} : x.at + x.len <= roof) => KeepsAbove(m, p, roof)
<1> DEFINE ws == <<a, b, c, d>>
<1>1. DOMAIN ws = 1 .. Len(ws) /\ Len(ws) = 4
  OBVIOUS
<1>2. ws[1] = a /\ ws[2] = b /\ ws[3] = c /\ ws[4] = d
  OBVIOUS
<1> HIDE DEF ws
<1>3. DOMAIN ws = {1, 2, 3, 4}
  BY <1>1
<1>4. \A k \in DOMAIN ws : Placed(ws[k])
  BY <1>2, <1>3
<1> DEFINE q == Puts(m, ws)
<1>5. /\ Tidy(q)
      /\ \A x \in m : (\A k \in DOMAIN ws : Apart(x, ws[k])) => x \in q
      /\ \A k \in DOMAIN ws :
            (\A j \in k + 1 .. Len(ws) : Apart(ws[k], ws[j])) => ws[k] \in q
      /\ \A roof \in Nat :
            (\A k \in DOMAIN ws : ws[k].at + ws[k].len <= roof) => KeepsAbove(m, q, roof)
  <2>1. Len(ws) \in Nat
    BY <1>1
  <2>2. QED
    BY <1>1, <1>4, <2>1, PutsFacts, Zenon
<1> HIDE DEF q
<1>6. \A x \in m : Apart(x, a) /\ Apart(x, b) /\ Apart(x, c) /\ Apart(x, d) => x \in q
  BY <1>2, <1>3, <1>5
<1>7. ASSUME NEW roof \in Nat, \A x \in {a, b, c, d} : x.at + x.len <= roof
      PROVE  KeepsAbove(m, q, roof)
  <2>1. \A k \in DOMAIN ws : ws[k].at + ws[k].len <= roof
    BY <1>2, <1>3, <1>7
  <2>2. QED
    BY <1>5, <2>1
<1>8. d \in q
  BY <1>1, <1>2, <1>3, <1>5
<1>9. Apart(c, d) => c \in q
  BY <1>1, <1>2, <1>3, <1>5
<1>10. Apart(b, c) /\ Apart(b, d) => b \in q
  BY <1>1, <1>2, <1>3, <1>5
<1>11. Apart(a, b) /\ Apart(a, c) /\ Apart(a, d) => a \in q
  BY <1>1, <1>2, <1>3, <1>5
<1>12. QED
  BY <1>5, <1>6, <1>7, <1>8, <1>9, <1>10, <1>11, Zenon DEF q, ws

LEMMA PutsFive ==
    ASSUME NEW m, Tidy(m), Area \in Nat,
           NEW a, Placed(a), NEW b, Placed(b), NEW c, Placed(c),
           NEW d, Placed(d), NEW e, Placed(e)
    PROVE  LET p == Puts(m, <<a, b, c, d, e>>)
           IN  /\ Tidy(p) /\ e \in p
               /\ (Apart(d, e) => d \in p)
               /\ (Apart(c, d) /\ Apart(c, e) => c \in p)
               /\ (Apart(b, c) /\ Apart(b, d) /\ Apart(b, e) => b \in p)
               /\ (Apart(a, b) /\ Apart(a, c) /\ Apart(a, d) /\ Apart(a, e) => a \in p)
               /\ \A x \in m : Apart(x, a) /\ Apart(x, b) /\ Apart(x, c) /\ Apart(x, d)
                                /\ Apart(x, e) => x \in p
               /\ \A roof \in Nat :
                     (\A x \in {a, b, c, d, e} : x.at + x.len <= roof) => KeepsAbove(m, p, roof)
<1> DEFINE ws == <<a, b, c, d, e>>
<1>1. DOMAIN ws = 1 .. Len(ws) /\ Len(ws) = 5
  OBVIOUS
<1>2. ws[1] = a /\ ws[2] = b /\ ws[3] = c /\ ws[4] = d /\ ws[5] = e
  OBVIOUS
<1> HIDE DEF ws
<1>3. DOMAIN ws = {1, 2, 3, 4, 5}
  BY <1>1
<1>4. \A k \in DOMAIN ws : Placed(ws[k])
  BY <1>2, <1>3
<1> DEFINE q == Puts(m, ws)
<1>5. /\ Tidy(q)
      /\ \A x \in m : (\A k \in DOMAIN ws : Apart(x, ws[k])) => x \in q
      /\ \A k \in DOMAIN ws :
            (\A j \in k + 1 .. Len(ws) : Apart(ws[k], ws[j])) => ws[k] \in q
      /\ \A roof \in Nat :
            (\A k \in DOMAIN ws : ws[k].at + ws[k].len <= roof) => KeepsAbove(m, q, roof)
  <2>1. Len(ws) \in Nat
    BY <1>1
  <2>2. QED
    BY <1>1, <1>4, <2>1, PutsFacts, Zenon
<1> HIDE DEF q
<1>6. \A x \in m : Apart(x, a) /\ Apart(x, b) /\ Apart(x, c) /\ Apart(x, d)
                    /\ Apart(x, e) => x \in q
  BY <1>2, <1>3, <1>5
<1>7. ASSUME NEW roof \in Nat, \A x \in {a, b, c, d, e} : x.at + x.len <= roof
      PROVE  KeepsAbove(m, q, roof)
  <2>1. \A k \in DOMAIN ws : ws[k].at + ws[k].len <= roof
    BY <1>2, <1>3, <1>7
  <2>2. QED
    BY <1>5, <2>1
<1>8. e \in q
  BY <1>1, <1>2, <1>3, <1>5
<1>9. Apart(d, e) => d \in q
  BY <1>1, <1>2, <1>3, <1>5
<1>10. Apart(c, d) /\ Apart(c, e) => c \in q
  BY <1>1, <1>2, <1>3, <1>5
<1>11. Apart(b, c) /\ Apart(b, d) /\ Apart(b, e) => b \in q
  BY <1>1, <1>2, <1>3, <1>5
<1>12. Apart(a, b) /\ Apart(a, c) /\ Apart(a, d) /\ Apart(a, e) => a \in q
  BY <1>1, <1>2, <1>3, <1>5
<1>13. QED
  BY <1>5, <1>6, <1>7, <1>8, <1>9, <1>10, <1>11, <1>12, Zenon DEF q, ws

LEMMA PutsSix ==
    ASSUME NEW m, Tidy(m), Area \in Nat,
           NEW a, Placed(a), NEW b, Placed(b), NEW c, Placed(c),
           NEW d, Placed(d), NEW e, Placed(e), NEW v, Placed(v)
    PROVE  LET p == Puts(m, <<a, b, c, d, e, v>>)
           IN  /\ Tidy(p) /\ v \in p
               /\ (Apart(e, v) => e \in p)
               /\ (Apart(d, e) /\ Apart(d, v) => d \in p)
               /\ (Apart(c, d) /\ Apart(c, e) /\ Apart(c, v) => c \in p)
               /\ (Apart(b, c) /\ Apart(b, d) /\ Apart(b, e) /\ Apart(b, v) => b \in p)
               /\ (Apart(a, b) /\ Apart(a, c) /\ Apart(a, d) /\ Apart(a, e) /\ Apart(a, v)
                     => a \in p)
               /\ \A x \in m : Apart(x, a) /\ Apart(x, b) /\ Apart(x, c) /\ Apart(x, d)
                                /\ Apart(x, e) /\ Apart(x, v) => x \in p
               /\ \A roof \in Nat :
                     (\A x \in {a, b, c, d, e, v} : x.at + x.len <= roof)
                         => KeepsAbove(m, p, roof)
<1> DEFINE ws == <<a, b, c, d, e, v>>
<1>1. DOMAIN ws = 1 .. Len(ws) /\ Len(ws) = 6
  OBVIOUS
<1>2. ws[1] = a /\ ws[2] = b /\ ws[3] = c /\ ws[4] = d /\ ws[5] = e /\ ws[6] = v
  OBVIOUS
<1> HIDE DEF ws
<1>3. DOMAIN ws = {1, 2, 3, 4, 5, 6}
  BY <1>1
<1>4. \A k \in DOMAIN ws : Placed(ws[k])
  BY <1>2, <1>3
<1> DEFINE q == Puts(m, ws)
<1>5. /\ Tidy(q)
      /\ \A x \in m : (\A k \in DOMAIN ws : Apart(x, ws[k])) => x \in q
      /\ \A k \in DOMAIN ws :
            (\A j \in k + 1 .. Len(ws) : Apart(ws[k], ws[j])) => ws[k] \in q
      /\ \A roof \in Nat :
            (\A k \in DOMAIN ws : ws[k].at + ws[k].len <= roof) => KeepsAbove(m, q, roof)
  <2>1. Len(ws) \in Nat
    BY <1>1
  <2>2. QED
    BY <1>1, <1>4, <2>1, PutsFacts, Zenon
<1> HIDE DEF q
<1>6. \A x \in m : Apart(x, a) /\ Apart(x, b) /\ Apart(x, c) /\ Apart(x, d)
                    /\ Apart(x, e) /\ Apart(x, v) => x \in q
  BY <1>2, <1>3, <1>5
<1>7. ASSUME NEW roof \in Nat, \A x \in {a, b, c, d, e, v} : x.at + x.len <= roof
      PROVE  KeepsAbove(m, q, roof)
  <2>1. \A k \in DOMAIN ws : ws[k].at + ws[k].len <= roof
    BY <1>2, <1>3, <1>7
  <2>2. QED
    BY <1>5, <2>1
<1>8. v \in q
  BY <1>1, <1>2, <1>3, <1>5
<1>9. Apart(e, v) => e \in q
  BY <1>1, <1>2, <1>3, <1>5
<1>10. Apart(d, e) /\ Apart(d, v) => d \in q
  BY <1>1, <1>2, <1>3, <1>5
<1>11. Apart(c, d) /\ Apart(c, e) /\ Apart(c, v) => c \in q
  BY <1>1, <1>2, <1>3, <1>5
<1>12. Apart(b, c) /\ Apart(b, d) /\ Apart(b, e) /\ Apart(b, v) => b \in q
  BY <1>1, <1>2, <1>3, <1>5
<1>13. Apart(a, b) /\ Apart(a, c) /\ Apart(a, d) /\ Apart(a, e) /\ Apart(a, v) => a \in q
  BY <1>1, <1>2, <1>3, <1>5
<1>14. QED
  BY <1>5, <1>6, <1>7, <1>8, <1>9, <1>10, <1>11, <1>12, <1>13, Zenon DEF q, ws

\* What is read is what the extent holds.
LEMMA ReadExtent ==
    ASSUME NEW m, Tidy(m), NEW at, NEW len \in Nat \ {0}, NEW form, NEW x,
           At(at, len, [form |-> form, of |-> x]) \in m
    PROVE  Read(m, at, len, form) = x
<1> DEFINE found == {e \in m : e.at = at /\ e.len = len /\ e.is.form = form}
           it == At(at, len, [form |-> form, of |-> x])
<1>1. it \in found /\ it.is.of = x
  BY DEF Solver!At
<1>2. ASSUME NEW e \in found PROVE e = it
  <2>1. e.at \in Nat /\ it.at = at /\ it.len = len /\ e.at = at /\ e.len = len
    BY DEF Solver!Tidy, Solver!At
  <2>2. e = it \/ Apart(e, it)
    BY <1>1 DEF Solver!Tidy
  <2>3. QED
    BY <2>1, <2>2 DEF Solver!Apart
<1> HIDE DEF it
<1>3. found # {} /\ (CHOOSE e \in found : TRUE) = it
  BY <1>1, <1>2
<1>4. Read(m, at, len, form) =
         IF found = {} THEN Solver!None ELSE (CHOOSE e \in found : TRUE).is.of
  BY Zenon DEF Solver!Read
<1> HIDE DEF found
<1>5. QED
  BY <1>1, <1>3, <1>4

LEMMA ReadForms ==
    ASSUME NEW m, Tidy(m), NEW at, NEW len \in Nat \ {0}, NEW x
    PROVE  /\ At(at, len, Words(x)) \in m => Read(m, at, len, "int") = x
           /\ At(at, len, NTT(x)) \in m => Read(m, at, len, "ntt") = x
           /\ At(at, len, FFT(x)) \in m => Read(m, at, len, "fft") = x
           /\ At(at, len, Solver!Bytes(x)) \in m => Read(m, at, len, "bytes") = x
<1>1. At(at, len, Words(x)) \in m => Read(m, at, len, "int") = x
  BY ReadExtent, Zenon DEF Solver!Words
<1>2. At(at, len, NTT(x)) \in m => Read(m, at, len, "ntt") = x
  BY ReadExtent, Zenon DEF Solver!NTT
<1>3. At(at, len, FFT(x)) \in m => Read(m, at, len, "fft") = x
  BY ReadExtent, Zenon DEF Solver!FFT
<1>4. At(at, len, Solver!Bytes(x)) \in m => Read(m, at, len, "bytes") = x
  BY ReadExtent, Zenon DEF Solver!Bytes
<1>5. QED
  BY <1>1, <1>2, <1>3, <1>4

\* An extent has the place that it was given.
LEMMA AtFields ==
    \A at, len, what : At(at, len, what).at = at /\ At(at, len, what).len = len
BY DEF Solver!At

\* A pair that is moved is where it was moved to, and what is not there stays.
LEMMA MovePairFacts ==
    ASSUME NEW m, Tidy(m), Area \in Nat, NEW from \in Nat, NEW to \in Nat,
           NEW len \in Nat \ {0}, to + 2 * len <= Area, NEW x, NEW y,
           At(from, len, NTT(x)) \in m, At(from + len, len, NTT(y)) \in m
    PROVE  LET p == MovePair(m, to, from, len)
           IN  /\ Tidy(p)
               /\ At(to, len, NTT(x)) \in p /\ At(to + len, len, NTT(y)) \in p
               /\ \A e \in m : e.at + e.len <= to \/ to + 2 * len <= e.at => e \in p
               /\ \A roof \in Nat : to + 2 * len <= roof => KeepsAbove(m, p, roof)
<1> DEFINE a == At(to, 2 * len, Unset)
           b == At(to, len, NTT(x))
           c == At(to + len, len, NTT(y))
           p == Puts(m, <<a, b, c>>)
<1>1. MovePair(m, to, from, len) = p
  <2>1. Read(m, from, len, "ntt") = x /\ Read(m, from + len, len, "ntt") = y
    BY ReadForms
  <2>2. QED
    BY <2>1, Zenon DEF Solver!MovePair
<1>2. /\ a.at = to /\ a.len = 2 * len /\ b.at = to /\ b.len = len
      /\ c.at = to + len /\ c.len = len
  BY DEF Solver!At
<1> HIDE DEF a, b, c
<1>3. Placed(a) /\ Placed(b) /\ Placed(c) /\ Apart(b, c)
  BY <1>2 DEF Placed, Solver!Apart
<1> HIDE DEF p
<1>4. /\ Tidy(p) /\ c \in p /\ (Apart(b, c) => b \in p)
      /\ \A e \in m : Apart(e, a) /\ Apart(e, b) /\ Apart(e, c) => e \in p
      /\ \A roof \in Nat : (\A e \in {a, b, c} : e.at + e.len <= roof) => KeepsAbove(m, p, roof)
  BY <1>3, PutsThree, Zenon DEF p
<1>5. ASSUME NEW e \in m, e.at + e.len <= to \/ to + 2 * len <= e.at PROVE e \in p
  <2>1. e.at \in Nat /\ e.len \in Nat
    BY DEF Solver!Tidy
  <2>2. Apart(e, a) /\ Apart(e, b) /\ Apart(e, c)
    BY <1>2, <1>5, <2>1 DEF Solver!Apart
  <2>3. QED
    BY <1>4, <2>2
<1>6. ASSUME NEW roof \in Nat, to + 2 * len <= roof PROVE KeepsAbove(m, p, roof)
  <2>1. \A e \in {a, b, c} : e.at + e.len <= roof
    BY <1>2, <1>6
  <2>2. QED
    BY <1>4, <2>1
<1>7. At(to, len, NTT(x)) \in p /\ At(to + len, len, NTT(y)) \in p
  BY <1>3, <1>4 DEF b, c
<1>8. QED
  BY <1>1, <1>4, <1>5, <1>6, <1>7, Zenon

-----------------------------------------------------------------------------
(***************************************************************************)
(* The NTRU solver: its terms.                                             *)
(***************************************************************************)
LEMMA TermOfTwo ==
    ASSUME NEW op, NEW x, NEW y
    PROVE  /\ x # Solver!None /\ y # Solver!None => Term(op, <<x, y>>) = <<op, <<x, y>>>>
           /\ x = Solver!None \/ y = Solver!None => Term(op, <<x, y>>) = Solver!None
<1>1. Known(<<x, y>>) <=> x # Solver!None /\ y # Solver!None
  BY DEF Solver!Known
<1>2. QED
  BY <1>1, Zenon DEF Solver!Term

\* The norm of f is the f of the next level.
LEMMA HalfDegreeOf ==
    ASSUME NEW d \in Nat
    PROVE  HalfDegree(f(d)) = f(d + 1) /\ HalfDegree(g(d)) = g(d + 1)
BY DEF Solver!HalfDegree, Solver!f, Solver!g, Solver!None

\* What is reduced by f is not changed when it is reduced again.
LEMMA SubtractAgain ==
    ASSUME NEW F, NEW x, NEW y
    PROVE  LET r == Subtract(Lift(F, y), Reciprocal(x), x)
           IN  Subtract(r, Reciprocal(x), x) = r
<1> DEFINE k == Reciprocal(x)
           u == Lift(F, y)
           r == Subtract(u, k, x)
<1>1. CASE k = Solver!None
  BY <1>1 DEF Solver!Subtract
<1>2. CASE k # Solver!None
  <2>1. u = Solver!None \/ (u # Solver!None /\ u[1] = "lift")
    <3>1. u = Term("lift", <<F, y>>)
      BY DEF Solver!Lift
    <3> HIDE DEF u
    <3>2. CASE F # Solver!None /\ y # Solver!None
      <4>1. u = <<"lift", <<F, y>>>>
        BY <3>1, <3>2, TermOfTwo
      <4>2. QED
        BY <4>1 DEF Solver!None
    <3>3. CASE ~(F # Solver!None /\ y # Solver!None)
      BY <3>1, <3>3, TermOfTwo
    <3>4. QED
      BY <3>2, <3>3
  <2>2. r = Term("reduced", <<u, x>>)
    <3> HIDE DEF u
    <3>1. ~(u # Solver!None /\ u[1] = "reduced")
      BY <2>1
    <3>2. QED
      BY <1>2, <3>1, Zenon DEF Solver!Subtract
  <2> HIDE DEF u, k
  <2>3. CASE u # Solver!None /\ x # Solver!None
    <3>1. r = <<"reduced", <<u, x>>>>
      BY <2>2, <2>3, TermOfTwo
    <3> HIDE DEF r
    <3>2. r # Solver!None /\ r[1] = "reduced" /\ r[2][2] = x
      BY <3>1 DEF Solver!None
    <3>3. QED
      BY <1>2, <3>2, Zenon DEF Solver!Subtract, k, r, u
  <2>4. CASE ~(u # Solver!None /\ x # Solver!None)
    <3>1. r = Solver!None
      BY <2>2, <2>4, TermOfTwo
    <3> HIDE DEF r
    <3>2. Term("reduced", <<r, x>>) = Solver!None
      BY <3>1, TermOfTwo
    <3>3. Subtract(r, k, x) = Term("reduced", <<r, x>>)
      BY <1>2, <3>1, Zenon DEF Solver!Subtract, k
    <3>4. QED
      BY <3>1, <3>2, <3>3 DEF r, k, u
  <2>5. QED
    BY <2>3, <2>4
<1>3. QED
  BY <1>1, <1>2

-----------------------------------------------------------------------------
(***************************************************************************)
(* The NTRU solver: where things are in the work area.                     *)
(***************************************************************************)
LEMMA SolverPower ==
    \A k : Solver!Power(k) = Power(k)
BY Zenon DEF Solver!Power, Power

LEMMA Powers ==
    /\ Solver!Power(0) = 1 /\ Solver!Power(1) = 2 /\ Solver!Power(2) = 4 /\ Solver!Power(3) = 8
           /\ Solver!Power(4) = 16
    /\ Solver!Power(5) = 32 /\ Solver!Power(6) = 64 /\ Solver!Power(7) = 128 /\ Solver!Power(8)
           = 256
    /\ Solver!Power(9) = 512 /\ Solver!Power(10) = 1024
<1>1. Solver!Power(1) = 2
  BY PowerFacts, SolverPower, 0 + 1 = 1
<1>2. Solver!Power(2) = 4
  BY PowerFacts, SolverPower, <1>1, 1 + 1 = 2
<1>3. Solver!Power(3) = 8
  BY PowerFacts, SolverPower, <1>2, 2 + 1 = 3
<1>4. Solver!Power(4) = 16
  BY PowerFacts, SolverPower, <1>3, 3 + 1 = 4
<1>5. Solver!Power(5) = 32
  BY PowerFacts, SolverPower, <1>4, 4 + 1 = 5
<1>6. Solver!Power(6) = 64
  BY PowerFacts, SolverPower, <1>5, 5 + 1 = 6
<1>7. Solver!Power(7) = 128
  BY PowerFacts, SolverPower, <1>6, 6 + 1 = 7
<1>8. Solver!Power(8) = 256
  BY PowerFacts, SolverPower, <1>7, 7 + 1 = 8
<1>9. Solver!Power(9) = 512
  BY PowerFacts, SolverPower, <1>8, 8 + 1 = 9
<1>10. Solver!Power(10) = 1024
  BY PowerFacts, SolverPower, <1>9, 9 + 1 = 10
<1>11. QED
  BY PowerFacts, SolverPower, <1>1, <1>2, <1>3, <1>4, <1>5, <1>6, <1>7, <1>8, <1>9, <1>10

\* The tables of Hawk256, with the lengths that follow.
LEMMA Tables8 ==
    ASSUME logn = 8
    PROVE  /\ Profile = Hawk256 /\ Profile.save = 2 /\ Profile.reduce = 14
           /\ N0 = 256 /\ Area = 1280 /\ SaveOffset = 1280
           /\ Degree(0) = 256 /\ Degree(1) = 128 /\ Degree(2) = 64
           /\ Degree(3) = 32 /\ Degree(4) = 16 /\ Degree(5) = 8
           /\ Degree(6) = 4 /\ Degree(7) = 2 /\ Degree(8) = 1
           /\ Solver!Small(0) = 1 /\ Solver!Small(1) = 1 /\ Solver!Small(2) = 1
                  /\ Solver!Small(3) = 2
           /\ Solver!Small(4) = 3 /\ Solver!Small(5) = 5 /\ Solver!Small(6) = 9
                  /\ Solver!Small(7) = 17
           /\ Solver!Small(8) = 34
           /\ Large(0) = 1 /\ Large(1) = 1 /\ Large(2) = 2 /\ Large(3) = 4
           /\ Large(4) = 7 /\ Large(5) = 13 /\ Large(6) = 26 /\ Large(7) = 50
           /\ Window(0) = 1 /\ Window(1) = 1 /\ Window(2) = 1 /\ Window(3) = 2
           /\ Window(4) = 3 /\ Window(5) = 3 /\ Window(6) = 3 /\ Window(7) = 4
           /\ Length(0) = 256 /\ Length(1) = 128 /\ Length(2) = 64
           /\ Length(3) = 64 /\ Length(4) = 48 /\ Length(5) = 40
           /\ Length(6) = 36 /\ Length(7) = 34 /\ Length(8) = 34
<1>1. Profile = Hawk256
  BY DEF Solver!Profile
<1>2. Profile.save = 2 /\ Profile.reduce = 14
  BY <1>1 DEF Solver!Hawk256
<1>3. N0 = 256 /\ Area = 1280 /\ SaveOffset = 1280
  BY Powers DEF Solver!N0, Solver!Area, Solver!SaveOffset
<1>4. /\ Degree(0) = 256 /\ Degree(1) = 128 /\ Degree(2) = 64
      /\ Degree(3) = 32 /\ Degree(4) = 16 /\ Degree(5) = 8
      /\ Degree(6) = 4 /\ Degree(7) = 2 /\ Degree(8) = 1
  BY Powers DEF Solver!Degree
<1>5. /\ Solver!Small(0) = 1 /\ Solver!Small(1) = 1 /\ Solver!Small(2) = 1 /\ Solver!Small(3) = 2
      /\ Solver!Small(4) = 3 /\ Solver!Small(5) = 5 /\ Solver!Small(6) = 9 /\ Solver!Small(7) = 17
      /\ Solver!Small(8) = 34
  BY <1>1 DEF Solver!Small, Solver!Hawk256
<1>6. /\ Large(0) = 1 /\ Large(1) = 1 /\ Large(2) = 2 /\ Large(3) = 4
      /\ Large(4) = 7 /\ Large(5) = 13 /\ Large(6) = 26 /\ Large(7) = 50
  BY <1>1 DEF Solver!Large, Solver!Hawk256
<1>7. /\ Window(0) = 1 /\ Window(1) = 1 /\ Window(2) = 1
      /\ Window(3) = 2 /\ Window(4) = 3 /\ Window(5) = 3
      /\ Window(6) = 3 /\ Window(7) = 4
  BY <1>1 DEF Solver!Window, Solver!Hawk256
<1>8. /\ Length(0) = 256 /\ Length(1) = 128 /\ Length(2) = 64
      /\ Length(3) = 64 /\ Length(4) = 48 /\ Length(5) = 40
      /\ Length(6) = 36 /\ Length(7) = 34 /\ Length(8) = 34
  BY <1>4, <1>5 DEF Solver!Length
<1>9. QED
  BY <1>1, <1>2, <1>3, <1>4, <1>5, <1>6, <1>7, <1>8

\* The tables of Hawk512, with the lengths that follow.
LEMMA Tables9 ==
    ASSUME logn = 9
    PROVE  /\ Profile = Hawk512 /\ Profile.save = 2 /\ Profile.reduce = 11
           /\ N0 = 512 /\ Area = 2560 /\ SaveOffset = 2560
           /\ Degree(0) = 512 /\ Degree(1) = 256 /\ Degree(2) = 128
           /\ Degree(3) = 64 /\ Degree(4) = 32 /\ Degree(5) = 16
           /\ Degree(6) = 8 /\ Degree(7) = 4 /\ Degree(8) = 2 /\ Degree(9) = 1
           /\ Solver!Small(0) = 1 /\ Solver!Small(1) = 1 /\ Solver!Small(2) = 1
                  /\ Solver!Small(3) = 2
           /\ Solver!Small(4) = 3 /\ Solver!Small(5) = 6 /\ Solver!Small(6) = 11
                  /\ Solver!Small(7) = 21
           /\ Solver!Small(8) = 41 /\ Solver!Small(9) = 82
           /\ Large(0) = 1 /\ Large(1) = 2 /\ Large(2) = 3 /\ Large(3) = 5
           /\ Large(4) = 8 /\ Large(5) = 16 /\ Large(6) = 31 /\ Large(7) = 61
           /\ Large(8) = 121
           /\ Window(0) = 1 /\ Window(1) = 1 /\ Window(2) = 1 /\ Window(3) = 2
           /\ Window(4) = 2 /\ Window(5) = 3 /\ Window(6) = 3 /\ Window(7) = 4
           /\ Window(8) = 6
           /\ Length(0) = 512 /\ Length(1) = 256 /\ Length(2) = 128
           /\ Length(3) = 128 /\ Length(4) = 96 /\ Length(5) = 96
           /\ Length(6) = 88 /\ Length(7) = 84 /\ Length(8) = 82
           /\ Length(9) = 82
<1>1. Profile = Hawk512
  BY DEF Solver!Profile
<1>2. Profile.save = 2 /\ Profile.reduce = 11
  BY <1>1 DEF Solver!Hawk512
<1>3. N0 = 512 /\ Area = 2560 /\ SaveOffset = 2560
  BY Powers DEF Solver!N0, Solver!Area, Solver!SaveOffset
<1>4. /\ Degree(0) = 512 /\ Degree(1) = 256 /\ Degree(2) = 128
      /\ Degree(3) = 64 /\ Degree(4) = 32 /\ Degree(5) = 16
      /\ Degree(6) = 8 /\ Degree(7) = 4 /\ Degree(8) = 2
      /\ Degree(9) = 1
  BY Powers DEF Solver!Degree
<1>5. /\ Solver!Small(0) = 1 /\ Solver!Small(1) = 1 /\ Solver!Small(2) = 1 /\ Solver!Small(3) = 2
      /\ Solver!Small(4) = 3 /\ Solver!Small(5) = 6 /\ Solver!Small(6) = 11 /\ Solver!Small(7)
             = 21
      /\ Solver!Small(8) = 41 /\ Solver!Small(9) = 82
  BY <1>1 DEF Solver!Small, Solver!Hawk512
<1>6. /\ Large(0) = 1 /\ Large(1) = 2 /\ Large(2) = 3 /\ Large(3) = 5
      /\ Large(4) = 8 /\ Large(5) = 16 /\ Large(6) = 31 /\ Large(7) = 61
      /\ Large(8) = 121
  BY <1>1 DEF Solver!Large, Solver!Hawk512
<1>7. /\ Window(0) = 1 /\ Window(1) = 1 /\ Window(2) = 1
      /\ Window(3) = 2 /\ Window(4) = 2 /\ Window(5) = 3
      /\ Window(6) = 3 /\ Window(7) = 4 /\ Window(8) = 6
  BY <1>1 DEF Solver!Window, Solver!Hawk512
<1>8. /\ Length(0) = 512 /\ Length(1) = 256 /\ Length(2) = 128
      /\ Length(3) = 128 /\ Length(4) = 96 /\ Length(5) = 96
      /\ Length(6) = 88 /\ Length(7) = 84 /\ Length(8) = 82
      /\ Length(9) = 82
  BY <1>4, <1>5 DEF Solver!Length
<1>9. QED
  BY <1>1, <1>2, <1>3, <1>4, <1>5, <1>6, <1>7, <1>8

\* The tables of Hawk1024, with the lengths that follow.
LEMMA Tables10 ==
    ASSUME logn = 10
    PROVE  /\ Profile = Hawk1024 /\ Profile.save = 3 /\ Profile.reduce = 9
           /\ N0 = 1024 /\ Area = 5120 /\ SaveOffset = 5120
           /\ Degree(0) = 1024 /\ Degree(1) = 512 /\ Degree(2) = 256
           /\ Degree(3) = 128 /\ Degree(4) = 64 /\ Degree(5) = 32
           /\ Degree(6) = 16 /\ Degree(7) = 8 /\ Degree(8) = 4
           /\ Degree(9) = 2 /\ Degree(10) = 1
           /\ Solver!Small(0) = 1 /\ Solver!Small(1) = 1 /\ Solver!Small(2) = 2
                  /\ Solver!Small(3) = 2
           /\ Solver!Small(4) = 4 /\ Solver!Small(5) = 7 /\ Solver!Small(6) = 13
                  /\ Solver!Small(7) = 25
           /\ Solver!Small(8) = 48 /\ Solver!Small(9) = 96 /\ Solver!Small(10) = 191
           /\ Large(0) = 1 /\ Large(1) = 2 /\ Large(2) = 3 /\ Large(3) = 5
           /\ Large(4) = 10 /\ Large(5) = 19 /\ Large(6) = 37 /\ Large(7) = 72
           /\ Large(8) = 143 /\ Large(9) = 284
           /\ Window(0) = 1 /\ Window(1) = 1 /\ Window(2) = 2 /\ Window(3) = 2
           /\ Window(4) = 3 /\ Window(5) = 3 /\ Window(6) = 3 /\ Window(7) = 4
           /\ Window(8) = 4 /\ Window(9) = 7
           /\ Length(0) = 1024 /\ Length(1) = 512 /\ Length(2) = 512
           /\ Length(3) = 256 /\ Length(4) = 256 /\ Length(5) = 224
           /\ Length(6) = 208 /\ Length(7) = 200 /\ Length(8) = 192
           /\ Length(9) = 192 /\ Length(10) = 191
<1>1. Profile = Hawk1024
  BY DEF Solver!Profile
<1>2. Profile.save = 3 /\ Profile.reduce = 9
  BY <1>1 DEF Solver!Hawk1024
<1>3. N0 = 1024 /\ Area = 5120 /\ SaveOffset = 5120
  BY Powers DEF Solver!N0, Solver!Area, Solver!SaveOffset
<1>4. /\ Degree(0) = 1024 /\ Degree(1) = 512 /\ Degree(2) = 256
      /\ Degree(3) = 128 /\ Degree(4) = 64 /\ Degree(5) = 32
      /\ Degree(6) = 16 /\ Degree(7) = 8 /\ Degree(8) = 4
      /\ Degree(9) = 2 /\ Degree(10) = 1
  BY Powers DEF Solver!Degree
<1>5. /\ Solver!Small(0) = 1 /\ Solver!Small(1) = 1 /\ Solver!Small(2) = 2 /\ Solver!Small(3) = 2
      /\ Solver!Small(4) = 4 /\ Solver!Small(5) = 7 /\ Solver!Small(6) = 13 /\ Solver!Small(7)
             = 25
      /\ Solver!Small(8) = 48 /\ Solver!Small(9) = 96 /\ Solver!Small(10) = 191
  BY <1>1 DEF Solver!Small, Solver!Hawk1024
<1>6. /\ Large(0) = 1 /\ Large(1) = 2 /\ Large(2) = 3 /\ Large(3) = 5
      /\ Large(4) = 10 /\ Large(5) = 19 /\ Large(6) = 37
      /\ Large(7) = 72 /\ Large(8) = 143 /\ Large(9) = 284
  BY <1>1 DEF Solver!Large, Solver!Hawk1024
<1>7. /\ Window(0) = 1 /\ Window(1) = 1 /\ Window(2) = 2
      /\ Window(3) = 2 /\ Window(4) = 3 /\ Window(5) = 3
      /\ Window(6) = 3 /\ Window(7) = 4 /\ Window(8) = 4
      /\ Window(9) = 7
  BY <1>1 DEF Solver!Window, Solver!Hawk1024
<1>8. /\ Length(0) = 1024 /\ Length(1) = 512 /\ Length(2) = 512
      /\ Length(3) = 256 /\ Length(4) = 256 /\ Length(5) = 224
      /\ Length(6) = 208 /\ Length(7) = 200 /\ Length(8) = 192
      /\ Length(9) = 192 /\ Length(10) = 191
  BY <1>4, <1>5 DEF Solver!Length
<1>9. QED
  BY <1>1, <1>2, <1>3, <1>4, <1>5, <1>6, <1>7, <1>8

\* Every length is positive.
LEMMA Lengths ==
    ASSUME logn \in 8 .. 10
    PROVE  /\ Area \in Nat /\ N0 \in Nat /\ Area = 5 * N0 /\ N0 \in {256, 512, 1024}
           /\ \A d \in 0 .. logn : /\ Degree(d) \in Nat \ {0} /\ Solver!Small(d) \in Nat \ {0}
                                   /\ Length(d) \in Nat \ {0}
                                   /\ Length(d) = Solver!Small(d) * Degree(d)
           /\ \A d \in 0 .. logn - 1 : /\ Large(d) \in Nat \ {0} /\ Window(d) \in Nat \ {0}
                                       /\ Solver!Small(d) <= Large(d)
           /\ Profile.save \in 2 .. 3 /\ Profile.reduce \in Nat \ {0}
<1>1. \A d \in 0 .. logn : Length(d) = Solver!Small(d) * Degree(d)
  BY DEF Solver!Length
<1>2. CASE logn = 8
  <2>1. \A d \in 0 .. logn : d \in {0, 1, 2, 3, 4, 5, 6, 7, 8}
    BY <1>2
  <2>2. \A d \in 0 .. logn - 1 : d \in {0, 1, 2, 3, 4, 5, 6, 7}
    BY <1>2
  <2>3. QED
    BY <1>1, <1>2, <2>1, <2>2, Tables8
<1>3. CASE logn = 9
  <2>1. \A d \in 0 .. logn : d \in {0, 1, 2, 3, 4, 5, 6, 7, 8, 9}
    BY <1>3
  <2>2. \A d \in 0 .. logn - 1 : d \in {0, 1, 2, 3, 4, 5, 6, 7, 8}
    BY <1>3
  <2>3. QED
    BY <1>1, <1>3, <2>1, <2>2, Tables9
<1>4. CASE logn = 10
  <2>1. \A d \in 0 .. logn : d \in {0, 1, 2, 3, 4, 5, 6, 7, 8, 9, 10}
    BY <1>4
  <2>2. \A d \in 0 .. logn - 1 : d \in {0, 1, 2, 3, 4, 5, 6, 7, 8, 9}
    BY <1>4
  <2>3. QED
    BY <1>1, <1>4, <2>1, <2>2, Tables10
<1>5. QED
  BY <1>2, <1>3, <1>4

\* Where the pairs of the levels are saved, one below the other.
LEMMA SavedAtLoop ==
    ASSUME logn \in 8 .. 10
    PROVE  \A d \in 0 .. logn - 1 :
              SavedAt[d] = IF d < Profile.save THEN SaveOffset ELSE SavedAt[d - 1] - 2 * Length(d)
<1> DEFINE Next1(d, x) == IF d < Profile.save THEN SaveOffset ELSE x - 2 * Length(d)
           Loop(v) == v = [d \in 0 .. logn - 1 |->
                              IF d < Profile.save THEN SaveOffset ELSE v[d - 1] - 2 * Length(d)]
           F == [d \in 1 .. logn - 1 |-> [x \in Int |-> Next1(d, x)]]
<1>1. /\ SaveOffset \in Int /\ Profile.save \in Int /\ Profile.save >= 2
      /\ \A d \in 0 .. logn - 1 : Length(d) \in Int
  BY Lengths DEF Solver!SaveOffset
<1>2. SavedAt = CHOOSE v : Loop(v)
  BY Zenon DEF Solver!SavedAt
<1>3. \A x \in Int : \A d \in 1 .. logn - 1 : F[d][x] = Next1(d, x)
  OBVIOUS
<1>4. \A x \in Int : \A d \in 1 .. logn - 1 : Next1(d, x) \in Int
  BY <1>1
<1> HIDE DEF F
<1>5. PICK v \in [0 .. logn - 1 -> Int] : LoopStates(SaveOffset, logn - 1, F, v)
  <2>1. \A x \in Int : \A d \in 1 .. logn - 1 : F[d][x] \in Int
    BY <1>3, <1>4
  <2>2. logn - 1 \in Nat
    OBVIOUS
  <2>3. QED
    BY <1>1, <2>1, <2>2, LoopExists
<1>6. ASSUME NEW d \in 0 .. logn - 1
      PROVE  v[d] = IF d < Profile.save THEN SaveOffset ELSE v[d - 1] - 2 * Length(d)
  <2>1. v[d] = IF d = 0 THEN SaveOffset ELSE F[d][v[d - 1]]
    BY <1>5, Zenon DEF LoopStates
  <2>2. CASE d = 0
    BY <1>1, <2>1, <2>2
  <2>3. CASE d # 0
    <3>1. d \in 1 .. logn - 1 /\ d - 1 \in 0 .. logn - 1
      BY <2>3
    <3>2. v[d - 1] \in Int
      BY <3>1, <1>5
    <3>3. QED
      BY <2>1, <2>3, <3>1, <3>2, <1>3
  <2>4. QED
    BY <2>2, <2>3
<1>7. v = [d \in 0 .. logn - 1 |-> v[d]]
  BY <1>5
<1>8. Loop(v)
  BY <1>6, <1>7, Zenon
<1> HIDE DEF Loop
<1>9. Loop(SavedAt)
  BY <1>2, <1>8, Zenon
<1>10. QED
  BY <1>9, Zenon DEF Loop

LEMMA Saved8 ==
    ASSUME logn = 8
    PROVE  /\ SavedAt[0] = 1280 /\ SavedAt[1] = 1280 /\ SavedAt[2] = 1152 /\ SavedAt[3] = 1024
           /\ SavedAt[4] = 928 /\ SavedAt[5] = 848 /\ SavedAt[6] = 776 /\ SavedAt[7] = 708
<1> DEFINE s == SavedAt
<1>1. \A d \in 0 .. 7 :
         s[d] = IF d < 2 THEN 1280 ELSE s[d - 1] - 2 * Length(d)
  BY SavedAtLoop, Tables8
<1> HIDE DEF s
<1>2. s[0] = 1280 /\ s[1] = 1280
  BY <1>1
<1>3. s[2] = 1152
  BY <1>1, <1>2, Tables8
<1>4. s[3] = 1024
  BY <1>1, <1>3, Tables8
<1>5. s[4] = 928
  BY <1>1, <1>4, Tables8
<1>6. s[5] = 848
  BY <1>1, <1>5, Tables8
<1>7. s[6] = 776
  BY <1>1, <1>6, Tables8
<1>8. s[7] = 708
  BY <1>1, <1>7, Tables8
<1>9. QED
  BY <1>2, <1>3, <1>4, <1>5, <1>6, <1>7, <1>8 DEF s

LEMMA Saved9 ==
    ASSUME logn = 9
    PROVE  /\ SavedAt[0] = 2560 /\ SavedAt[1] = 2560 /\ SavedAt[2] = 2304 /\ SavedAt[3] = 2048
                  /\ SavedAt[4] = 1856
           /\ SavedAt[5] = 1664 /\ SavedAt[6] = 1488 /\ SavedAt[7] = 1320 /\ SavedAt[8] = 1156
<1> DEFINE s == SavedAt
<1>1. \A d \in 0 .. 8 :
         s[d] = IF d < 2 THEN 2560 ELSE s[d - 1] - 2 * Length(d)
  BY SavedAtLoop, Tables9
<1> HIDE DEF s
<1>2. s[0] = 2560 /\ s[1] = 2560
  BY <1>1
<1>3. s[2] = 2304
  BY <1>1, <1>2, Tables9
<1>4. s[3] = 2048
  BY <1>1, <1>3, Tables9
<1>5. s[4] = 1856
  BY <1>1, <1>4, Tables9
<1>6. s[5] = 1664
  BY <1>1, <1>5, Tables9
<1>7. s[6] = 1488
  BY <1>1, <1>6, Tables9
<1>8. s[7] = 1320
  BY <1>1, <1>7, Tables9
<1>9. s[8] = 1156
  BY <1>1, <1>8, Tables9
<1>10. QED
  BY <1>2, <1>3, <1>4, <1>5, <1>6, <1>7, <1>8, <1>9 DEF s

LEMMA Saved10 ==
    ASSUME logn = 10
    PROVE  /\ SavedAt[0] = 5120 /\ SavedAt[1] = 5120 /\ SavedAt[2] = 5120 /\ SavedAt[3] = 4608
                  /\ SavedAt[4] = 4096
           /\ SavedAt[5] = 3648 /\ SavedAt[6] = 3232 /\ SavedAt[7] = 2832 /\ SavedAt[8] = 2448
                  /\ SavedAt[9] = 2064
<1> DEFINE s == SavedAt
<1>1. \A d \in 0 .. 9 :
         s[d] = IF d < 3 THEN 5120 ELSE s[d - 1] - 2 * Length(d)
  BY SavedAtLoop, Tables10
<1> HIDE DEF s
<1>2. s[0] = 5120 /\ s[1] = 5120 /\ s[2] = 5120
  BY <1>1
<1>3. s[3] = 4608
  BY <1>1, <1>2, Tables10
<1>4. s[4] = 4096
  BY <1>1, <1>3, Tables10
<1>5. s[5] = 3648
  BY <1>1, <1>4, Tables10
<1>6. s[6] = 3232
  BY <1>1, <1>5, Tables10
<1>7. s[7] = 2832
  BY <1>1, <1>6, Tables10
<1>8. s[8] = 2448
  BY <1>1, <1>7, Tables10
<1>9. s[9] = 2064
  BY <1>1, <1>8, Tables10
<1>10. QED
  BY <1>2, <1>3, <1>4, <1>5, <1>6, <1>7, <1>8, <1>9 DEF s

\* What F is at each level, from that of the level below.
LEMMA TheFLoop ==
    ASSUME logn \in 8 .. 10
    PROVE  /\ TheF[logn] = Bezout(f(logn), g(logn))
           /\ \A d \in 1 .. logn - 1 :
                 TheF[d] = Subtract(Lift(TheF[d + 1], g(d)), Reciprocal(f(d)), f(d))
<1> DEFINE Above(d, F) == Subtract(Lift(F, g(d)), Reciprocal(f(d)), f(d))
           Loop(v) == v = [d \in 1 .. logn |-> IF d = logn THEN Bezout(f(d), g(d))
                                               ELSE Above(d, v[d + 1])]
           s0 == Bezout(f(logn), g(logn))
           s1 == Above(logn - 1, s0)
           s2 == Above(logn - 2, s1)
           s3 == Above(logn - 3, s2)
           s4 == Above(logn - 4, s3)
           s5 == Above(logn - 5, s4)
           s6 == Above(logn - 6, s5)
           s7 == Above(logn - 7, s6)
           s8 == Above(logn - 8, s7)
           s9 == Above(logn - 9, s8)
           v == [d \in 1 .. logn |->
                    IF d = logn - 0 THEN s0 ELSE
                    IF d = logn - 1 THEN s1 ELSE
                    IF d = logn - 2 THEN s2 ELSE
                    IF d = logn - 3 THEN s3 ELSE
                    IF d = logn - 4 THEN s4 ELSE
                    IF d = logn - 5 THEN s5 ELSE
                    IF d = logn - 6 THEN s6 ELSE
                    IF d = logn - 7 THEN s7 ELSE
                    IF d = logn - 8 THEN s8 ELSE
                    s9]
<1>1. TheF = CHOOSE p : Loop(p)
  BY Zenon DEF Solver!TheF
<1> HIDE DEF Above
<1>2. s1 = Above(logn - 1, s0) /\ s2 = Above(logn - 2, s1) /\ s3 = Above(logn - 3, s2)
      /\ s4 = Above(logn - 4, s3) /\ s5 = Above(logn - 5, s4) /\ s6 = Above(logn - 6, s5)
      /\ s7 = Above(logn - 7, s6) /\ s8 = Above(logn - 8, s7) /\ s9 = Above(logn - 9, s8)
  OBVIOUS
<1>3. \A d \in 1 .. logn : d = logn => s0 = Bezout(f(d), g(d))
  OBVIOUS
<1> HIDE DEF s0, s1, s2, s3, s4, s5, s6, s7, s8, s9
<1>4. \A d \in 1 .. logn :
         /\ d = logn - 0 => v[d] = s0
         /\ d = logn - 1 => v[d] = s1
         /\ d = logn - 2 => v[d] = s2
         /\ d = logn - 3 => v[d] = s3
         /\ d = logn - 4 => v[d] = s4
         /\ d = logn - 5 => v[d] = s5
         /\ d = logn - 6 => v[d] = s6
         /\ d = logn - 7 => v[d] = s7
         /\ d = logn - 8 => v[d] = s8
         /\ d = logn - 9 => v[d] = s9
  OBVIOUS
<1>5. v = [d \in 1 .. logn |-> v[d]]
  OBVIOUS
<1> HIDE DEF v
<1>6. ASSUME NEW d \in 1 .. logn
      PROVE  v[d] = IF d = logn THEN Bezout(f(d), g(d)) ELSE Above(d, v[d + 1])
  <2>1. CASE d = logn
    BY <1>3, <1>4, <2>1
  <2>2. CASE d = logn - 1
    <3>1. d + 1 \in 1 .. logn /\ d + 1 = logn - 0 /\ d # logn
      BY <2>2
    <3>2. v[d] = s1 /\ v[d + 1] = s0
      BY <1>4, <2>2, <3>1
    <3>3. QED
      BY <1>2, <2>2, <3>1, <3>2, Zenon
  <2>3. CASE d = logn - 2
    <3>1. d + 1 \in 1 .. logn /\ d + 1 = logn - 1 /\ d # logn
      BY <2>3
    <3>2. v[d] = s2 /\ v[d + 1] = s1
      BY <1>4, <2>3, <3>1
    <3>3. QED
      BY <1>2, <2>3, <3>1, <3>2, Zenon
  <2>4. CASE d = logn - 3
    <3>1. d + 1 \in 1 .. logn /\ d + 1 = logn - 2 /\ d # logn
      BY <2>4
    <3>2. v[d] = s3 /\ v[d + 1] = s2
      BY <1>4, <2>4, <3>1
    <3>3. QED
      BY <1>2, <2>4, <3>1, <3>2, Zenon
  <2>5. CASE d = logn - 4
    <3>1. d + 1 \in 1 .. logn /\ d + 1 = logn - 3 /\ d # logn
      BY <2>5
    <3>2. v[d] = s4 /\ v[d + 1] = s3
      BY <1>4, <2>5, <3>1
    <3>3. QED
      BY <1>2, <2>5, <3>1, <3>2, Zenon
  <2>6. CASE d = logn - 5
    <3>1. d + 1 \in 1 .. logn /\ d + 1 = logn - 4 /\ d # logn
      BY <2>6
    <3>2. v[d] = s5 /\ v[d + 1] = s4
      BY <1>4, <2>6, <3>1
    <3>3. QED
      BY <1>2, <2>6, <3>1, <3>2, Zenon
  <2>7. CASE d = logn - 6
    <3>1. d + 1 \in 1 .. logn /\ d + 1 = logn - 5 /\ d # logn
      BY <2>7
    <3>2. v[d] = s6 /\ v[d + 1] = s5
      BY <1>4, <2>7, <3>1
    <3>3. QED
      BY <1>2, <2>7, <3>1, <3>2, Zenon
  <2>8. CASE d = logn - 7
    <3>1. d + 1 \in 1 .. logn /\ d + 1 = logn - 6 /\ d # logn
      BY <2>8
    <3>2. v[d] = s7 /\ v[d + 1] = s6
      BY <1>4, <2>8, <3>1
    <3>3. QED
      BY <1>2, <2>8, <3>1, <3>2, Zenon
  <2>9. CASE d = logn - 8
    <3>1. d + 1 \in 1 .. logn /\ d + 1 = logn - 7 /\ d # logn
      BY <2>9
    <3>2. v[d] = s8 /\ v[d + 1] = s7
      BY <1>4, <2>9, <3>1
    <3>3. QED
      BY <1>2, <2>9, <3>1, <3>2, Zenon
  <2>10. CASE d = logn - 9
    <3>1. d + 1 \in 1 .. logn /\ d + 1 = logn - 8 /\ d # logn
      BY <2>10
    <3>2. v[d] = s9 /\ v[d + 1] = s8
      BY <1>4, <2>10, <3>1
    <3>3. QED
      BY <1>2, <2>10, <3>1, <3>2, Zenon
  <2>11. QED
    BY <2>1, <2>2, <2>3, <2>4, <2>5, <2>6, <2>7, <2>8, <2>9, <2>10
<1>7. Loop(v)
  BY <1>5, <1>6, Zenon
<1> HIDE DEF Loop
<1>8. Loop(TheF)
  BY <1>1, <1>7, Zenon
<1> USE DEF Loop
<1>9. \A d \in 1 .. logn : TheF[d] = IF d = logn THEN Bezout(f(d), g(d))
                               ELSE Above(d, TheF[d + 1])
  BY <1>8, Zenon
<1>10. QED
  BY <1>9 DEF Above

\* At a level between the ends there is room for what the steps write there,
\* below the pairs that are saved for the levels above.
RoomBetween ==
    LET roof == SavedAt[depth - 1]
        L == Length(depth)
    IN  /\ roof \in Nat /\ roof <= Area
        /\ n \in Nat \ {0} /\ slen \in Nat \ {0} /\ llen \in Nat \ {0} /\ slen <= llen
        /\ slen * n = L /\ L \in Nat \ {0} /\ (slen + 1) * n = L + n /\ llen * n = ft
        /\ Length(depth + 1) \in Nat \ {0} /\ Length(depth + 1) <= ft
        /\ ft \in Nat /\ gt = ft + L /\ Fd = gt + L
        /\ Length(depth + 1) + 2 * L <= roof /\ Fd + Length(depth + 1) <= roof
        /\ Fd + 3 * n <= roof /\ Fd + slen <= roof /\ gt + llen <= roof /\ gt + slen <= roof
        /\ rt3 = gt + (IF UseNTT THEN n ELSE 0) /\ rt1 = rt3 + 2 * n /\ t2 = rt1 + n
        /\ rt1 + 2 * n <= roof /\ SubtractRoom \in Nat /\ t2 + SubtractRoom <= roof
        /\ UseNTT => (slen + 2) * n \in Nat /\ t2 + (slen + 2) * n <= roof
        /\ Profile.reduce \in Nat \ {0}
        /\ blen \in 0 .. slen - 1 /\ scale_fg = 31 * blen
        /\ depth = 1 => blen = 0 /\ ~UseNTT /\ llen \in {1, 2} /\ Profile.reduce \in {9, 11, 14}
                        /\ slen = 1

LEMMA MaxOfTwo ==
    ASSUME NEW x \in Nat, NEW y \in Nat
    PROVE  /\ Solver!Max({x, y}) \in {x, y} /\ Solver!Max({x, y}) >= x /\ Solver!Max({x, y}) >= y
           /\ Solver!Min({x, y}) \in {x, y} /\ Solver!Min({x, y}) <= x /\ Solver!Min({x, y}) <= y
<1>1. \E z \in {x, y} : \A t \in {x, y} : z >= t
  OBVIOUS
<1>2. \E z \in {x, y} : \A t \in {x, y} : z <= t
  OBVIOUS
<1>3. QED
  BY <1>1, <1>2 DEF Solver!Max, Solver!Min

LEMMA MaxIs ==
    \A x, y \in Nat : Solver!Max({x, y}) = IF x >= y THEN x ELSE y
BY MaxOfTwo

LEMMA RoomBetweenHolds ==
    ASSUME logn \in 8 .. 10, Between
    PROVE  RoomBetween
<1>1. CASE logn = 8
  <2>1. depth \in 1 .. 7
    BY <1>1 DEF Solver!Between
  <2>2. CASE depth = 1
    <3>1. /\ n = 128 /\ slen = 1 /\ llen = 1 /\ SavedAt[depth - 1] = 1280
          /\ Length(depth) = 128 /\ Length(depth + 1) = 64 /\ Window(depth) = 1
          /\ Area = 1280 /\ Profile.reduce = 14
      BY <1>1, <2>2, Tables8, Saved8 DEF Solver!n, Solver!slen, Solver!llen
    <3>2. ft = 128 /\ gt = 256 /\ Fd = 384 /\ UseNTT = FALSE /\ blen = 0
      BY <1>1, <2>2, <3>1, MaxOfTwo DEF Solver!ft, Solver!gt, Solver!Fd, Solver!UseNTT,
         Solver!blen
    <3>3. rt3 = 256 /\ rt1 = 512 /\ t2 = 640 /\ SubtractRoom = 384 /\ scale_fg = 0
      BY <2>2, <3>1, <3>2 DEF Solver!rt3, Solver!rt1, Solver!t2, Solver!SubtractRoom,
         Solver!scale_fg
    <3>4. QED
      BY <2>2, <3>1, <3>2, <3>3 DEF RoomBetween
  <2>3. CASE depth = 2
    <3>1. /\ n = 64 /\ slen = 1 /\ llen = 2 /\ SavedAt[depth - 1] = 1280
          /\ Length(depth) = 64 /\ Length(depth + 1) = 64 /\ Window(depth) = 1
          /\ Area = 1280 /\ Profile.reduce = 14
      BY <1>1, <2>3, Tables8, Saved8 DEF Solver!n, Solver!slen, Solver!llen
    <3>2. ft = 128 /\ gt = 192 /\ Fd = 256 /\ UseNTT = TRUE /\ blen = 0
      BY <1>1, <2>3, <3>1, MaxOfTwo DEF Solver!ft, Solver!gt, Solver!Fd, Solver!UseNTT,
         Solver!blen
    <3>3. slen + 1 = 2 /\ Solver!Max({64, 2}) = 64
      BY <3>1, MaxIs
    <3>4. rt3 = 256 /\ rt1 = 384 /\ t2 = 448 /\ SubtractRoom = 320 /\ scale_fg = 0
      BY <2>3, <3>1, <3>2, <3>3 DEF Solver!rt3, Solver!rt1, Solver!t2, Solver!SubtractRoom,
         Solver!scale_fg
    <3>5. QED
      BY <2>3, <3>1, <3>2, <3>4 DEF RoomBetween
  <2>4. CASE depth = 3
    <3>1. /\ n = 32 /\ slen = 2 /\ llen = 4 /\ SavedAt[depth - 1] = 1152
          /\ Length(depth) = 64 /\ Length(depth + 1) = 48 /\ Window(depth) = 2
          /\ Area = 1280 /\ Profile.reduce = 14
      BY <1>1, <2>4, Tables8, Saved8 DEF Solver!n, Solver!slen, Solver!llen
    <3>2. ft = 128 /\ gt = 192 /\ Fd = 256 /\ UseNTT = TRUE /\ blen = 0
      BY <1>1, <2>4, <3>1, MaxOfTwo DEF Solver!ft, Solver!gt, Solver!Fd, Solver!UseNTT,
         Solver!blen
    <3>3. slen + 1 = 3 /\ Solver!Max({32, 3}) = 32
      BY <3>1, MaxIs
    <3>4. rt3 = 224 /\ rt1 = 288 /\ t2 = 320 /\ SubtractRoom = 192 /\ scale_fg = 0
      BY <2>4, <3>1, <3>2, <3>3 DEF Solver!rt3, Solver!rt1, Solver!t2, Solver!SubtractRoom,
         Solver!scale_fg
    <3>5. QED
      BY <2>4, <3>1, <3>2, <3>4 DEF RoomBetween
  <2>5. CASE depth = 4
    <3>1. /\ n = 16 /\ slen = 3 /\ llen = 7 /\ SavedAt[depth - 1] = 1024
          /\ Length(depth) = 48 /\ Length(depth + 1) = 40 /\ Window(depth) = 3
          /\ Area = 1280 /\ Profile.reduce = 14
      BY <1>1, <2>5, Tables8, Saved8 DEF Solver!n, Solver!slen, Solver!llen
    <3>2. ft = 112 /\ gt = 160 /\ Fd = 208 /\ UseNTT = TRUE /\ blen = 0
      BY <1>1, <2>5, <3>1, MaxOfTwo DEF Solver!ft, Solver!gt, Solver!Fd, Solver!UseNTT,
         Solver!blen
    <3>3. slen + 1 = 4 /\ Solver!Max({16, 4}) = 16
      BY <3>1, MaxIs
    <3>4. rt3 = 176 /\ rt1 = 208 /\ t2 = 224 /\ SubtractRoom = 112 /\ scale_fg = 0
      BY <2>5, <3>1, <3>2, <3>3 DEF Solver!rt3, Solver!rt1, Solver!t2, Solver!SubtractRoom,
         Solver!scale_fg
    <3>5. QED
      BY <2>5, <3>1, <3>2, <3>4 DEF RoomBetween
  <2>6. CASE depth = 5
    <3>1. /\ n = 8 /\ slen = 5 /\ llen = 13 /\ SavedAt[depth - 1] = 928
          /\ Length(depth) = 40 /\ Length(depth + 1) = 36 /\ Window(depth) = 3
          /\ Area = 1280 /\ Profile.reduce = 14
      BY <1>1, <2>6, Tables8, Saved8 DEF Solver!n, Solver!slen, Solver!llen
    <3>2. ft = 104 /\ gt = 144 /\ Fd = 184 /\ UseNTT = FALSE /\ blen = 2
      BY <1>1, <2>6, <3>1, MaxOfTwo DEF Solver!ft, Solver!gt, Solver!Fd, Solver!UseNTT,
         Solver!blen
    <3>3. rt3 = 144 /\ rt1 = 160 /\ t2 = 168 /\ SubtractRoom = 0 /\ scale_fg = 62
      BY <2>6, <3>1, <3>2 DEF Solver!rt3, Solver!rt1, Solver!t2, Solver!SubtractRoom,
         Solver!scale_fg
    <3>4. QED
      BY <2>6, <3>1, <3>2, <3>3 DEF RoomBetween
  <2>7. CASE depth = 6
    <3>1. /\ n = 4 /\ slen = 9 /\ llen = 26 /\ SavedAt[depth - 1] = 848
          /\ Length(depth) = 36 /\ Length(depth + 1) = 34 /\ Window(depth) = 3
          /\ Area = 1280 /\ Profile.reduce = 14
      BY <1>1, <2>7, Tables8, Saved8 DEF Solver!n, Solver!slen, Solver!llen
    <3>2. ft = 104 /\ gt = 140 /\ Fd = 176 /\ UseNTT = FALSE /\ blen = 6
      BY <1>1, <2>7, <3>1, MaxOfTwo DEF Solver!ft, Solver!gt, Solver!Fd, Solver!UseNTT,
         Solver!blen
    <3>3. rt3 = 140 /\ rt1 = 148 /\ t2 = 152 /\ SubtractRoom = 0 /\ scale_fg = 186
      BY <2>7, <3>1, <3>2 DEF Solver!rt3, Solver!rt1, Solver!t2, Solver!SubtractRoom,
         Solver!scale_fg
    <3>4. QED
      BY <2>7, <3>1, <3>2, <3>3 DEF RoomBetween
  <2>8. CASE depth = 7
    <3>1. /\ n = 2 /\ slen = 17 /\ llen = 50 /\ SavedAt[depth - 1] = 776
          /\ Length(depth) = 34 /\ Length(depth + 1) = 34 /\ Window(depth) = 4
          /\ Area = 1280 /\ Profile.reduce = 14
      BY <1>1, <2>8, Tables8, Saved8 DEF Solver!n, Solver!slen, Solver!llen
    <3>2. ft = 100 /\ gt = 134 /\ Fd = 168 /\ UseNTT = FALSE /\ blen = 13
      BY <1>1, <2>8, <3>1, MaxOfTwo DEF Solver!ft, Solver!gt, Solver!Fd, Solver!UseNTT,
         Solver!blen
    <3>3. rt3 = 134 /\ rt1 = 138 /\ t2 = 140 /\ SubtractRoom = 0 /\ scale_fg = 403
      BY <2>8, <3>1, <3>2 DEF Solver!rt3, Solver!rt1, Solver!t2, Solver!SubtractRoom,
         Solver!scale_fg
    <3>4. QED
      BY <2>8, <3>1, <3>2, <3>3 DEF RoomBetween
  <2>9. QED
    BY <2>1, <2>2, <2>3, <2>4, <2>5, <2>6, <2>7, <2>8
<1>2. CASE logn = 9
  <2>1. depth \in 1 .. 8
    BY <1>2 DEF Solver!Between
  <2>2. CASE depth = 1
    <3>1. /\ n = 256 /\ slen = 1 /\ llen = 2 /\ SavedAt[depth - 1] = 2560
          /\ Length(depth) = 256 /\ Length(depth + 1) = 128 /\ Window(depth) = 1
          /\ Area = 2560 /\ Profile.reduce = 11
      BY <1>2, <2>2, Tables9, Saved9 DEF Solver!n, Solver!slen, Solver!llen
    <3>2. ft = 512 /\ gt = 768 /\ Fd = 1024 /\ UseNTT = FALSE /\ blen = 0
      BY <1>2, <2>2, <3>1, MaxOfTwo DEF Solver!ft, Solver!gt, Solver!Fd, Solver!UseNTT,
         Solver!blen
    <3>3. rt3 = 768 /\ rt1 = 1280 /\ t2 = 1536 /\ SubtractRoom = 768 /\ scale_fg = 0
      BY <2>2, <3>1, <3>2 DEF Solver!rt3, Solver!rt1, Solver!t2, Solver!SubtractRoom,
         Solver!scale_fg
    <3>4. QED
      BY <2>2, <3>1, <3>2, <3>3 DEF RoomBetween
  <2>3. CASE depth = 2
    <3>1. /\ n = 128 /\ slen = 1 /\ llen = 3 /\ SavedAt[depth - 1] = 2560
          /\ Length(depth) = 128 /\ Length(depth + 1) = 128 /\ Window(depth) = 1
          /\ Area = 2560 /\ Profile.reduce = 11
      BY <1>2, <2>3, Tables9, Saved9 DEF Solver!n, Solver!slen, Solver!llen
    <3>2. ft = 384 /\ gt = 512 /\ Fd = 640 /\ UseNTT = TRUE /\ blen = 0
      BY <1>2, <2>3, <3>1, MaxOfTwo DEF Solver!ft, Solver!gt, Solver!Fd, Solver!UseNTT,
         Solver!blen
    <3>3. slen + 1 = 2 /\ Solver!Max({128, 2}) = 128
      BY <3>1, MaxIs
    <3>4. rt3 = 640 /\ rt1 = 896 /\ t2 = 1024 /\ SubtractRoom = 640 /\ scale_fg = 0
      BY <2>3, <3>1, <3>2, <3>3 DEF Solver!rt3, Solver!rt1, Solver!t2, Solver!SubtractRoom,
         Solver!scale_fg
    <3>5. QED
      BY <2>3, <3>1, <3>2, <3>4 DEF RoomBetween
  <2>4. CASE depth = 3
    <3>1. /\ n = 64 /\ slen = 2 /\ llen = 5 /\ SavedAt[depth - 1] = 2304
          /\ Length(depth) = 128 /\ Length(depth + 1) = 96 /\ Window(depth) = 2
          /\ Area = 2560 /\ Profile.reduce = 11
      BY <1>2, <2>4, Tables9, Saved9 DEF Solver!n, Solver!slen, Solver!llen
    <3>2. ft = 320 /\ gt = 448 /\ Fd = 576 /\ UseNTT = TRUE /\ blen = 0
      BY <1>2, <2>4, <3>1, MaxOfTwo DEF Solver!ft, Solver!gt, Solver!Fd, Solver!UseNTT,
         Solver!blen
    <3>3. slen + 1 = 3 /\ Solver!Max({64, 3}) = 64
      BY <3>1, MaxIs
    <3>4. rt3 = 512 /\ rt1 = 640 /\ t2 = 704 /\ SubtractRoom = 384 /\ scale_fg = 0
      BY <2>4, <3>1, <3>2, <3>3 DEF Solver!rt3, Solver!rt1, Solver!t2, Solver!SubtractRoom,
         Solver!scale_fg
    <3>5. QED
      BY <2>4, <3>1, <3>2, <3>4 DEF RoomBetween
  <2>5. CASE depth = 4
    <3>1. /\ n = 32 /\ slen = 3 /\ llen = 8 /\ SavedAt[depth - 1] = 2048
          /\ Length(depth) = 96 /\ Length(depth + 1) = 96 /\ Window(depth) = 2
          /\ Area = 2560 /\ Profile.reduce = 11
      BY <1>2, <2>5, Tables9, Saved9 DEF Solver!n, Solver!slen, Solver!llen
    <3>2. ft = 256 /\ gt = 352 /\ Fd = 448 /\ UseNTT = TRUE /\ blen = 1
      BY <1>2, <2>5, <3>1, MaxOfTwo DEF Solver!ft, Solver!gt, Solver!Fd, Solver!UseNTT,
         Solver!blen
    <3>3. slen + 1 = 4 /\ Solver!Max({32, 4}) = 32
      BY <3>1, MaxIs
    <3>4. rt3 = 384 /\ rt1 = 448 /\ t2 = 480 /\ SubtractRoom = 224 /\ scale_fg = 31
      BY <2>5, <3>1, <3>2, <3>3 DEF Solver!rt3, Solver!rt1, Solver!t2, Solver!SubtractRoom,
         Solver!scale_fg
    <3>5. QED
      BY <2>5, <3>1, <3>2, <3>4 DEF RoomBetween
  <2>6. CASE depth = 5
    <3>1. /\ n = 16 /\ slen = 6 /\ llen = 16 /\ SavedAt[depth - 1] = 1856
          /\ Length(depth) = 96 /\ Length(depth + 1) = 88 /\ Window(depth) = 3
          /\ Area = 2560 /\ Profile.reduce = 11
      BY <1>2, <2>6, Tables9, Saved9 DEF Solver!n, Solver!slen, Solver!llen
    <3>2. ft = 256 /\ gt = 352 /\ Fd = 448 /\ UseNTT = TRUE /\ blen = 3
      BY <1>2, <2>6, <3>1, MaxOfTwo DEF Solver!ft, Solver!gt, Solver!Fd, Solver!UseNTT,
         Solver!blen
    <3>3. slen + 1 = 7 /\ Solver!Max({16, 7}) = 16
      BY <3>1, MaxIs
    <3>4. rt3 = 368 /\ rt1 = 400 /\ t2 = 416 /\ SubtractRoom = 160 /\ scale_fg = 93
      BY <2>6, <3>1, <3>2, <3>3 DEF Solver!rt3, Solver!rt1, Solver!t2, Solver!SubtractRoom,
         Solver!scale_fg
    <3>5. QED
      BY <2>6, <3>1, <3>2, <3>4 DEF RoomBetween
  <2>7. CASE depth = 6
    <3>1. /\ n = 8 /\ slen = 11 /\ llen = 31 /\ SavedAt[depth - 1] = 1664
          /\ Length(depth) = 88 /\ Length(depth + 1) = 84 /\ Window(depth) = 3
          /\ Area = 2560 /\ Profile.reduce = 11
      BY <1>2, <2>7, Tables9, Saved9 DEF Solver!n, Solver!slen, Solver!llen
    <3>2. ft = 248 /\ gt = 336 /\ Fd = 424 /\ UseNTT = FALSE /\ blen = 8
      BY <1>2, <2>7, <3>1, MaxOfTwo DEF Solver!ft, Solver!gt, Solver!Fd, Solver!UseNTT,
         Solver!blen
    <3>3. rt3 = 336 /\ rt1 = 352 /\ t2 = 360 /\ SubtractRoom = 0 /\ scale_fg = 248
      BY <2>7, <3>1, <3>2 DEF Solver!rt3, Solver!rt1, Solver!t2, Solver!SubtractRoom,
         Solver!scale_fg
    <3>4. QED
      BY <2>7, <3>1, <3>2, <3>3 DEF RoomBetween
  <2>8. CASE depth = 7
    <3>1. /\ n = 4 /\ slen = 21 /\ llen = 61 /\ SavedAt[depth - 1] = 1488
          /\ Length(depth) = 84 /\ Length(depth + 1) = 82 /\ Window(depth) = 4
          /\ Area = 2560 /\ Profile.reduce = 11
      BY <1>2, <2>8, Tables9, Saved9 DEF Solver!n, Solver!slen, Solver!llen
    <3>2. ft = 244 /\ gt = 328 /\ Fd = 412 /\ UseNTT = FALSE /\ blen = 17
      BY <1>2, <2>8, <3>1, MaxOfTwo DEF Solver!ft, Solver!gt, Solver!Fd, Solver!UseNTT,
         Solver!blen
    <3>3. rt3 = 328 /\ rt1 = 336 /\ t2 = 340 /\ SubtractRoom = 0 /\ scale_fg = 527
      BY <2>8, <3>1, <3>2 DEF Solver!rt3, Solver!rt1, Solver!t2, Solver!SubtractRoom,
         Solver!scale_fg
    <3>4. QED
      BY <2>8, <3>1, <3>2, <3>3 DEF RoomBetween
  <2>9. CASE depth = 8
    <3>1. /\ n = 2 /\ slen = 41 /\ llen = 121 /\ SavedAt[depth - 1] = 1320
          /\ Length(depth) = 82 /\ Length(depth + 1) = 82 /\ Window(depth) = 6
          /\ Area = 2560 /\ Profile.reduce = 11
      BY <1>2, <2>9, Tables9, Saved9 DEF Solver!n, Solver!slen, Solver!llen
    <3>2. ft = 242 /\ gt = 324 /\ Fd = 406 /\ UseNTT = FALSE /\ blen = 35
      BY <1>2, <2>9, <3>1, MaxOfTwo DEF Solver!ft, Solver!gt, Solver!Fd, Solver!UseNTT,
         Solver!blen
    <3>3. rt3 = 324 /\ rt1 = 328 /\ t2 = 330 /\ SubtractRoom = 0 /\ scale_fg = 1085
      BY <2>9, <3>1, <3>2 DEF Solver!rt3, Solver!rt1, Solver!t2, Solver!SubtractRoom,
         Solver!scale_fg
    <3>4. QED
      BY <2>9, <3>1, <3>2, <3>3 DEF RoomBetween
  <2>10. QED
    BY <2>1, <2>2, <2>3, <2>4, <2>5, <2>6, <2>7, <2>8, <2>9
<1>3. CASE logn = 10
  <2>1. depth \in 1 .. 9
    BY <1>3 DEF Solver!Between
  <2>2. CASE depth = 1
    <3>1. /\ n = 512 /\ slen = 1 /\ llen = 2 /\ SavedAt[depth - 1] = 5120
          /\ Length(depth) = 512 /\ Length(depth + 1) = 512 /\ Window(depth) = 1
          /\ Area = 5120 /\ Profile.reduce = 9
      BY <1>3, <2>2, Tables10, Saved10 DEF Solver!n, Solver!slen, Solver!llen
    <3>2. ft = 1024 /\ gt = 1536 /\ Fd = 2048 /\ UseNTT = FALSE /\ blen = 0
      BY <1>3, <2>2, <3>1, MaxOfTwo DEF Solver!ft, Solver!gt, Solver!Fd, Solver!UseNTT,
         Solver!blen
    <3>3. rt3 = 1536 /\ rt1 = 2560 /\ t2 = 3072 /\ SubtractRoom = 1536 /\ scale_fg = 0
      BY <2>2, <3>1, <3>2 DEF Solver!rt3, Solver!rt1, Solver!t2, Solver!SubtractRoom,
         Solver!scale_fg
    <3>4. QED
      BY <2>2, <3>1, <3>2, <3>3 DEF RoomBetween
  <2>3. CASE depth = 2
    <3>1. /\ n = 256 /\ slen = 2 /\ llen = 3 /\ SavedAt[depth - 1] = 5120
          /\ Length(depth) = 512 /\ Length(depth + 1) = 256 /\ Window(depth) = 2
          /\ Area = 5120 /\ Profile.reduce = 9
      BY <1>3, <2>3, Tables10, Saved10 DEF Solver!n, Solver!slen, Solver!llen
    <3>2. ft = 768 /\ gt = 1280 /\ Fd = 1792 /\ UseNTT = TRUE /\ blen = 0
      BY <1>3, <2>3, <3>1, MaxOfTwo DEF Solver!ft, Solver!gt, Solver!Fd, Solver!UseNTT,
         Solver!blen
    <3>3. slen + 1 = 3 /\ Solver!Max({256, 3}) = 256
      BY <3>1, MaxIs
    <3>4. rt3 = 1536 /\ rt1 = 2048 /\ t2 = 2304 /\ SubtractRoom = 1536 /\ scale_fg = 0
      BY <2>3, <3>1, <3>2, <3>3 DEF Solver!rt3, Solver!rt1, Solver!t2, Solver!SubtractRoom,
         Solver!scale_fg
    <3>5. QED
      BY <2>3, <3>1, <3>2, <3>4 DEF RoomBetween
  <2>4. CASE depth = 3
    <3>1. /\ n = 128 /\ slen = 2 /\ llen = 5 /\ SavedAt[depth - 1] = 5120
          /\ Length(depth) = 256 /\ Length(depth + 1) = 256 /\ Window(depth) = 2
          /\ Area = 5120 /\ Profile.reduce = 9
      BY <1>3, <2>4, Tables10, Saved10 DEF Solver!n, Solver!slen, Solver!llen
    <3>2. ft = 640 /\ gt = 896 /\ Fd = 1152 /\ UseNTT = TRUE /\ blen = 0
      BY <1>3, <2>4, <3>1, MaxOfTwo DEF Solver!ft, Solver!gt, Solver!Fd, Solver!UseNTT,
         Solver!blen
    <3>3. slen + 1 = 3 /\ Solver!Max({128, 3}) = 128
      BY <3>1, MaxIs
    <3>4. rt3 = 1024 /\ rt1 = 1280 /\ t2 = 1408 /\ SubtractRoom = 768 /\ scale_fg = 0
      BY <2>4, <3>1, <3>2, <3>3 DEF Solver!rt3, Solver!rt1, Solver!t2, Solver!SubtractRoom,
         Solver!scale_fg
    <3>5. QED
      BY <2>4, <3>1, <3>2, <3>4 DEF RoomBetween
  <2>5. CASE depth = 4
    <3>1. /\ n = 64 /\ slen = 4 /\ llen = 10 /\ SavedAt[depth - 1] = 4608
          /\ Length(depth) = 256 /\ Length(depth + 1) = 224 /\ Window(depth) = 3
          /\ Area = 5120 /\ Profile.reduce = 9
      BY <1>3, <2>5, Tables10, Saved10 DEF Solver!n, Solver!slen, Solver!llen
    <3>2. ft = 640 /\ gt = 896 /\ Fd = 1152 /\ UseNTT = TRUE /\ blen = 1
      BY <1>3, <2>5, <3>1, MaxOfTwo DEF Solver!ft, Solver!gt, Solver!Fd, Solver!UseNTT,
         Solver!blen
    <3>3. slen + 1 = 5 /\ Solver!Max({64, 5}) = 64
      BY <3>1, MaxIs
    <3>4. rt3 = 960 /\ rt1 = 1088 /\ t2 = 1152 /\ SubtractRoom = 512 /\ scale_fg = 31
      BY <2>5, <3>1, <3>2, <3>3 DEF Solver!rt3, Solver!rt1, Solver!t2, Solver!SubtractRoom,
         Solver!scale_fg
    <3>5. QED
      BY <2>5, <3>1, <3>2, <3>4 DEF RoomBetween
  <2>6. CASE depth = 5
    <3>1. /\ n = 32 /\ slen = 7 /\ llen = 19 /\ SavedAt[depth - 1] = 4096
          /\ Length(depth) = 224 /\ Length(depth + 1) = 208 /\ Window(depth) = 3
          /\ Area = 5120 /\ Profile.reduce = 9
      BY <1>3, <2>6, Tables10, Saved10 DEF Solver!n, Solver!slen, Solver!llen
    <3>2. ft = 608 /\ gt = 832 /\ Fd = 1056 /\ UseNTT = TRUE /\ blen = 4
      BY <1>3, <2>6, <3>1, MaxOfTwo DEF Solver!ft, Solver!gt, Solver!Fd, Solver!UseNTT,
         Solver!blen
    <3>3. slen + 1 = 8 /\ Solver!Max({32, 8}) = 32
      BY <3>1, MaxIs
    <3>4. rt3 = 864 /\ rt1 = 928 /\ t2 = 960 /\ SubtractRoom = 352 /\ scale_fg = 124
      BY <2>6, <3>1, <3>2, <3>3 DEF Solver!rt3, Solver!rt1, Solver!t2, Solver!SubtractRoom,
         Solver!scale_fg
    <3>5. QED
      BY <2>6, <3>1, <3>2, <3>4 DEF RoomBetween
  <2>7. CASE depth = 6
    <3>1. /\ n = 16 /\ slen = 13 /\ llen = 37 /\ SavedAt[depth - 1] = 3648
          /\ Length(depth) = 208 /\ Length(depth + 1) = 200 /\ Window(depth) = 3
          /\ Area = 5120 /\ Profile.reduce = 9
      BY <1>3, <2>7, Tables10, Saved10 DEF Solver!n, Solver!slen, Solver!llen
    <3>2. ft = 592 /\ gt = 800 /\ Fd = 1008 /\ UseNTT = TRUE /\ blen = 10
      BY <1>3, <2>7, <3>1, MaxOfTwo DEF Solver!ft, Solver!gt, Solver!Fd, Solver!UseNTT,
         Solver!blen
    <3>3. slen + 1 = 14 /\ Solver!Max({16, 14}) = 16
      BY <3>1, MaxIs
    <3>4. rt3 = 816 /\ rt1 = 848 /\ t2 = 864 /\ SubtractRoom = 272 /\ scale_fg = 310
      BY <2>7, <3>1, <3>2, <3>3 DEF Solver!rt3, Solver!rt1, Solver!t2, Solver!SubtractRoom,
         Solver!scale_fg
    <3>5. QED
      BY <2>7, <3>1, <3>2, <3>4 DEF RoomBetween
  <2>8. CASE depth = 7
    <3>1. /\ n = 8 /\ slen = 25 /\ llen = 72 /\ SavedAt[depth - 1] = 3232
          /\ Length(depth) = 200 /\ Length(depth + 1) = 192 /\ Window(depth) = 4
          /\ Area = 5120 /\ Profile.reduce = 9
      BY <1>3, <2>8, Tables10, Saved10 DEF Solver!n, Solver!slen, Solver!llen
    <3>2. ft = 576 /\ gt = 776 /\ Fd = 976 /\ UseNTT = FALSE /\ blen = 21
      BY <1>3, <2>8, <3>1, MaxOfTwo DEF Solver!ft, Solver!gt, Solver!Fd, Solver!UseNTT,
         Solver!blen
    <3>3. rt3 = 776 /\ rt1 = 792 /\ t2 = 800 /\ SubtractRoom = 0 /\ scale_fg = 651
      BY <2>8, <3>1, <3>2 DEF Solver!rt3, Solver!rt1, Solver!t2, Solver!SubtractRoom,
         Solver!scale_fg
    <3>4. QED
      BY <2>8, <3>1, <3>2, <3>3 DEF RoomBetween
  <2>9. CASE depth = 8
    <3>1. /\ n = 4 /\ slen = 48 /\ llen = 143 /\ SavedAt[depth - 1] = 2832
          /\ Length(depth) = 192 /\ Length(depth + 1) = 192 /\ Window(depth) = 4
          /\ Area = 5120 /\ Profile.reduce = 9
      BY <1>3, <2>9, Tables10, Saved10 DEF Solver!n, Solver!slen, Solver!llen
    <3>2. ft = 572 /\ gt = 764 /\ Fd = 956 /\ UseNTT = FALSE /\ blen = 44
      BY <1>3, <2>9, <3>1, MaxOfTwo DEF Solver!ft, Solver!gt, Solver!Fd, Solver!UseNTT,
         Solver!blen
    <3>3. rt3 = 764 /\ rt1 = 772 /\ t2 = 776 /\ SubtractRoom = 0 /\ scale_fg = 1364
      BY <2>9, <3>1, <3>2 DEF Solver!rt3, Solver!rt1, Solver!t2, Solver!SubtractRoom,
         Solver!scale_fg
    <3>4. QED
      BY <2>9, <3>1, <3>2, <3>3 DEF RoomBetween
  <2>10. CASE depth = 9
    <3>1. /\ n = 2 /\ slen = 96 /\ llen = 284 /\ SavedAt[depth - 1] = 2448
          /\ Length(depth) = 192 /\ Length(depth + 1) = 191 /\ Window(depth) = 7
          /\ Area = 5120 /\ Profile.reduce = 9
      BY <1>3, <2>10, Tables10, Saved10 DEF Solver!n, Solver!slen, Solver!llen
    <3>2. ft = 568 /\ gt = 760 /\ Fd = 952 /\ UseNTT = FALSE /\ blen = 89
      BY <1>3, <2>10, <3>1, MaxOfTwo DEF Solver!ft, Solver!gt, Solver!Fd, Solver!UseNTT,
         Solver!blen
    <3>3. rt3 = 760 /\ rt1 = 764 /\ t2 = 766 /\ SubtractRoom = 0 /\ scale_fg = 2759
      BY <2>10, <3>1, <3>2 DEF Solver!rt3, Solver!rt1, Solver!t2, Solver!SubtractRoom,
         Solver!scale_fg
    <3>4. QED
      BY <2>10, <3>1, <3>2, <3>3 DEF RoomBetween
  <2>11. QED
    BY <2>1, <2>2, <2>3, <2>4, <2>5, <2>6, <2>7, <2>8, <2>9, <2>10
<1>4. QED
  BY <1>1, <1>2, <1>3

\* What is saved for a level is below what is saved for those above it.
LEMMA SavedOrder ==
    ASSUME logn \in 8 .. 10
    PROVE  /\ \A d \in 0 .. logn - 1 : SavedAt[d] \in Nat /\ SavedAt[d] <= Area
           /\ \A d, e \in 0 .. logn - 1 : e <= d => SavedAt[d] <= SavedAt[e]
<1>1. CASE logn = 8
  <2>1. \A d \in 0 .. logn - 1 : d \in {0, 1, 2, 3, 4, 5, 6, 7}
    BY <1>1
  <2>2. QED
    BY <1>1, <2>1, Saved8, Tables8
<1>2. CASE logn = 9
  <2>1. \A d \in 0 .. logn - 1 : d \in {0, 1, 2, 3, 4, 5, 6, 7, 8}
    BY <1>2
  <2>2. QED
    BY <1>2, <2>1, Saved9, Tables9
<1>3. CASE logn = 10
  <2>1. \A d \in 0 .. logn - 1 : d \in {0, 1, 2, 3, 4, 5, 6, 7, 8, 9}
    BY <1>3
  <2>2. QED
    BY <1>3, <2>1, Saved10, Tables10
<1>4. QED
  BY <1>1, <1>2, <1>3

\* The two numbers of the deepest level, eight times; and the first f and g with
\* what is needed to make them.
LEMMA RoomAtEnds ==
    ASSUME logn \in 8 .. 10
    PROVE  /\ Length(logn) = Solver!Small(logn) /\ 8 * Solver!Small(logn) <= SavedAt[logn - 1]
           /\ Length(0) = N0 /\ 2 * Length(1) = N0
           /\ Down \/ (Between /\ ~Saved(depth)) => Base \in Nat /\ Base + 3 * N0 <= Area
<1>1. CASE logn = 8
  <2>1. /\ Length(logn) = Solver!Small(logn) /\ 8 * Solver!Small(logn) <= SavedAt[logn - 1]
        /\ Length(0) = N0 /\ 2 * Length(1) = N0
    BY <1>1, Tables8, Saved8
  <2>2. CASE Down
    BY <1>1, <2>1, <2>2, Tables8 DEF Solver!Base
  <2>3. CASE ~Down /\ Between /\ ~Saved(depth)
    <3>1. depth \in {1} /\ Base = Length(depth + 1)
      BY <1>1, <2>3, Tables8 DEF Solver!Between, Solver!Saved, Solver!Base
    <3>2. QED
      BY <3>1, <2>1, <1>1, Tables8
  <2>4. QED
    BY <2>1, <2>2, <2>3
<1>2. CASE logn = 9
  <2>1. /\ Length(logn) = Solver!Small(logn) /\ 8 * Solver!Small(logn) <= SavedAt[logn - 1]
        /\ Length(0) = N0 /\ 2 * Length(1) = N0
    BY <1>2, Tables9, Saved9
  <2>2. CASE Down
    BY <1>2, <2>1, <2>2, Tables9 DEF Solver!Base
  <2>3. CASE ~Down /\ Between /\ ~Saved(depth)
    <3>1. depth \in {1} /\ Base = Length(depth + 1)
      BY <1>2, <2>3, Tables9 DEF Solver!Between, Solver!Saved, Solver!Base
    <3>2. QED
      BY <3>1, <2>1, <1>2, Tables9
  <2>4. QED
    BY <2>1, <2>2, <2>3
<1>3. CASE logn = 10
  <2>1. /\ Length(logn) = Solver!Small(logn) /\ 8 * Solver!Small(logn) <= SavedAt[logn - 1]
        /\ Length(0) = N0 /\ 2 * Length(1) = N0
    BY <1>3, Tables10, Saved10
  <2>2. CASE Down
    BY <1>3, <2>1, <2>2, Tables10 DEF Solver!Base
  <2>3. CASE ~Down /\ Between /\ ~Saved(depth)
    <3>1. depth \in {1, 2} /\ Base = Length(depth + 1)
      BY <1>3, <2>3, Tables10 DEF Solver!Between, Solver!Saved, Solver!Base
    <3>2. QED
      BY <3>1, <2>1, <1>3, Tables10
  <2>4. QED
    BY <2>1, <2>2, <2>3
<1>4. QED
  BY <1>1, <1>2, <1>3

\* A step from one level to the next has room below what is saved so far, and
\* the pair that it makes has room to be saved.
RoomStep ==
    LET L == Length(level)
        L1 == Length(level + 1)
        W == Degree(level)
        roof == SavedAt[level]
    IN  /\ roof \in Nat /\ roof <= Area /\ Base \in Nat
        /\ L \in Nat \ {0} /\ L1 \in Nat \ {0} /\ W \in Nat \ {0} /\ Solver!Small(level) \in Nat
        /\ Base + 2 * L + 2 * L1 + 2 * W <= roof \/ Solver!Small(level) >= Solver!Small(level + 1)
        /\ Base + 2 * L + 2 * L1 + W <= roof /\ Base + 2 * L + 2 * L1 + Solver!Small(level)
               <= roof
        /\ Down /\ Saved(level + 1) =>
              /\ SavedAt[level + 1] \in Nat
              /\ 2 * L1 <= SavedAt[level + 1] /\ SavedAt[level + 1] + 2 * L1 = roof

LEMMA RoomStepHolds ==
    ASSUME logn \in 8 .. 10, level \in 0 .. depth - 1, Down \/ (Between /\ ~Saved(depth))
    PROVE  RoomStep
<1>1. CASE logn = 8
  <2>1. CASE Down
    <3>1. level \in 0 .. 7 /\ Base = 0
      BY <1>1, <2>1 DEF Solver!Base, Solver!Down
    <3>2. CASE level = 0
      <4>1. ~Saved(level + 1)
        BY <1>1, <3>2, Tables8 DEF Solver!Saved
      <4>2. QED
        BY <1>1, <3>1, <3>2, <4>1, Tables8, Saved8 DEF RoomStep
    <3>3. CASE level = 1
      <4>1. SavedAt[level + 1] = 1152
        BY <1>1, <3>3, Saved8
      <4>2. QED
        BY <1>1, <3>1, <3>3, <4>1, Tables8, Saved8 DEF RoomStep
    <3>4. CASE level = 2
      <4>1. SavedAt[level + 1] = 1024
        BY <1>1, <3>4, Saved8
      <4>2. QED
        BY <1>1, <3>1, <3>4, <4>1, Tables8, Saved8 DEF RoomStep
    <3>5. CASE level = 3
      <4>1. SavedAt[level + 1] = 928
        BY <1>1, <3>5, Saved8
      <4>2. QED
        BY <1>1, <3>1, <3>5, <4>1, Tables8, Saved8 DEF RoomStep
    <3>6. CASE level = 4
      <4>1. SavedAt[level + 1] = 848
        BY <1>1, <3>6, Saved8
      <4>2. QED
        BY <1>1, <3>1, <3>6, <4>1, Tables8, Saved8 DEF RoomStep
    <3>7. CASE level = 5
      <4>1. SavedAt[level + 1] = 776
        BY <1>1, <3>7, Saved8
      <4>2. QED
        BY <1>1, <3>1, <3>7, <4>1, Tables8, Saved8 DEF RoomStep
    <3>8. CASE level = 6
      <4>1. SavedAt[level + 1] = 708
        BY <1>1, <3>8, Saved8
      <4>2. QED
        BY <1>1, <3>1, <3>8, <4>1, Tables8, Saved8 DEF RoomStep
    <3>9. CASE level = 7
      <4>1. ~Saved(level + 1)
        BY <1>1, <3>9, Tables8 DEF Solver!Saved
      <4>2. QED
        BY <1>1, <3>1, <3>9, <4>1, Tables8, Saved8 DEF RoomStep
    <3>10. QED
      BY <3>1, <3>2, <3>3, <3>4, <3>5, <3>6, <3>7, <3>8, <3>9
  <2>2. CASE ~Down /\ Between /\ ~Saved(depth)
    <3>1. depth \in {1} /\ Base = Length(depth + 1)
      BY <1>1, <2>2, Tables8 DEF Solver!Between, Solver!Saved, Solver!Base
    <3>2. level \in 0 .. depth - 1 /\ level \in {0}
      BY <3>1
    <3>3. QED
      BY <3>1, <3>2, <2>2, <1>1, Tables8, Saved8 DEF RoomStep
  <2>3. QED
    BY <2>1, <2>2
<1>2. CASE logn = 9
  <2>1. CASE Down
    <3>1. level \in 0 .. 8 /\ Base = 0
      BY <1>2, <2>1 DEF Solver!Base, Solver!Down
    <3>2. CASE level = 0
      <4>1. ~Saved(level + 1)
        BY <1>2, <3>2, Tables9 DEF Solver!Saved
      <4>2. QED
        BY <1>2, <3>1, <3>2, <4>1, Tables9, Saved9 DEF RoomStep
    <3>3. CASE level = 1
      <4>1. SavedAt[level + 1] = 2304
        BY <1>2, <3>3, Saved9
      <4>2. QED
        BY <1>2, <3>1, <3>3, <4>1, Tables9, Saved9 DEF RoomStep
    <3>4. CASE level = 2
      <4>1. SavedAt[level + 1] = 2048
        BY <1>2, <3>4, Saved9
      <4>2. QED
        BY <1>2, <3>1, <3>4, <4>1, Tables9, Saved9 DEF RoomStep
    <3>5. CASE level = 3
      <4>1. SavedAt[level + 1] = 1856
        BY <1>2, <3>5, Saved9
      <4>2. QED
        BY <1>2, <3>1, <3>5, <4>1, Tables9, Saved9 DEF RoomStep
    <3>6. CASE level = 4
      <4>1. SavedAt[level + 1] = 1664
        BY <1>2, <3>6, Saved9
      <4>2. QED
        BY <1>2, <3>1, <3>6, <4>1, Tables9, Saved9 DEF RoomStep
    <3>7. CASE level = 5
      <4>1. SavedAt[level + 1] = 1488
        BY <1>2, <3>7, Saved9
      <4>2. QED
        BY <1>2, <3>1, <3>7, <4>1, Tables9, Saved9 DEF RoomStep
    <3>8. CASE level = 6
      <4>1. SavedAt[level + 1] = 1320
        BY <1>2, <3>8, Saved9
      <4>2. QED
        BY <1>2, <3>1, <3>8, <4>1, Tables9, Saved9 DEF RoomStep
    <3>9. CASE level = 7
      <4>1. SavedAt[level + 1] = 1156
        BY <1>2, <3>9, Saved9
      <4>2. QED
        BY <1>2, <3>1, <3>9, <4>1, Tables9, Saved9 DEF RoomStep
    <3>10. CASE level = 8
      <4>1. ~Saved(level + 1)
        BY <1>2, <3>10, Tables9 DEF Solver!Saved
      <4>2. QED
        BY <1>2, <3>1, <3>10, <4>1, Tables9, Saved9 DEF RoomStep
    <3>11. QED
      BY <3>1, <3>2, <3>3, <3>4, <3>5, <3>6, <3>7, <3>8, <3>9, <3>10
  <2>2. CASE ~Down /\ Between /\ ~Saved(depth)
    <3>1. depth \in {1} /\ Base = Length(depth + 1)
      BY <1>2, <2>2, Tables9 DEF Solver!Between, Solver!Saved, Solver!Base
    <3>2. level \in 0 .. depth - 1 /\ level \in {0}
      BY <3>1
    <3>3. QED
      BY <3>1, <3>2, <2>2, <1>2, Tables9, Saved9 DEF RoomStep
  <2>3. QED
    BY <2>1, <2>2
<1>3. CASE logn = 10
  <2>1. CASE Down
    <3>1. level \in 0 .. 9 /\ Base = 0
      BY <1>3, <2>1 DEF Solver!Base, Solver!Down
    <3>2. CASE level = 0
      <4>1. ~Saved(level + 1)
        BY <1>3, <3>2, Tables10 DEF Solver!Saved
      <4>2. QED
        BY <1>3, <3>1, <3>2, <4>1, Tables10, Saved10 DEF RoomStep
    <3>3. CASE level = 1
      <4>1. ~Saved(level + 1)
        BY <1>3, <3>3, Tables10 DEF Solver!Saved
      <4>2. QED
        BY <1>3, <3>1, <3>3, <4>1, Tables10, Saved10 DEF RoomStep
    <3>4. CASE level = 2
      <4>1. SavedAt[level + 1] = 4608
        BY <1>3, <3>4, Saved10
      <4>2. QED
        BY <1>3, <3>1, <3>4, <4>1, Tables10, Saved10 DEF RoomStep
    <3>5. CASE level = 3
      <4>1. SavedAt[level + 1] = 4096
        BY <1>3, <3>5, Saved10
      <4>2. QED
        BY <1>3, <3>1, <3>5, <4>1, Tables10, Saved10 DEF RoomStep
    <3>6. CASE level = 4
      <4>1. SavedAt[level + 1] = 3648
        BY <1>3, <3>6, Saved10
      <4>2. QED
        BY <1>3, <3>1, <3>6, <4>1, Tables10, Saved10 DEF RoomStep
    <3>7. CASE level = 5
      <4>1. SavedAt[level + 1] = 3232
        BY <1>3, <3>7, Saved10
      <4>2. QED
        BY <1>3, <3>1, <3>7, <4>1, Tables10, Saved10 DEF RoomStep
    <3>8. CASE level = 6
      <4>1. SavedAt[level + 1] = 2832
        BY <1>3, <3>8, Saved10
      <4>2. QED
        BY <1>3, <3>1, <3>8, <4>1, Tables10, Saved10 DEF RoomStep
    <3>9. CASE level = 7
      <4>1. SavedAt[level + 1] = 2448
        BY <1>3, <3>9, Saved10
      <4>2. QED
        BY <1>3, <3>1, <3>9, <4>1, Tables10, Saved10 DEF RoomStep
    <3>10. CASE level = 8
      <4>1. SavedAt[level + 1] = 2064
        BY <1>3, <3>10, Saved10
      <4>2. QED
        BY <1>3, <3>1, <3>10, <4>1, Tables10, Saved10 DEF RoomStep
    <3>11. CASE level = 9
      <4>1. ~Saved(level + 1)
        BY <1>3, <3>11, Tables10 DEF Solver!Saved
      <4>2. QED
        BY <1>3, <3>1, <3>11, <4>1, Tables10, Saved10 DEF RoomStep
    <3>12. QED
      BY <3>1, <3>2, <3>3, <3>4, <3>5, <3>6, <3>7, <3>8, <3>9, <3>10, <3>11
  <2>2. CASE ~Down /\ Between /\ ~Saved(depth)
    <3>1. depth \in {1, 2} /\ Base = Length(depth + 1)
      BY <1>3, <2>2, Tables10 DEF Solver!Between, Solver!Saved, Solver!Base
    <3>2. level \in 0 .. depth - 1 /\ level \in {0, 1}
      BY <3>1
    <3>3. QED
      BY <3>1, <3>2, <2>2, <1>3, Tables10, Saved10 DEF RoomStep
  <2>3. QED
    BY <2>1, <2>2
<1>4. QED
  BY <1>1, <1>2, <1>3


-----------------------------------------------------------------------------
(***************************************************************************)
(* The NTRU solver: its steps.                                             *)
(***************************************************************************)
\* What depends on the degree of the keys alone stays.
LEMMA SameDegree ==
    ASSUME logn' = logn
    PROVE  /\ N0' = N0 /\ Area' = Area /\ Profile' = Profile
           /\ \A d : /\ Degree(d)' = Degree(d) /\ Solver!Small(d)' = Solver!Small(d) /\ Large(d)'
                         = Large(d)
                     /\ Length(d)' = Length(d) /\ (Saved(d)' <=> Saved(d))
           /\ SavedAt' = SavedAt /\ TheF' = TheF
<1>1. N0' = N0 /\ Area' = Area /\ Profile' = Profile
  BY DEF Solver!N0, Solver!Area, Solver!Profile
<1>2. \A d : Degree(d)' = Degree(d) /\ Solver!Small(d)' = Solver!Small(d) /\ Large(d)' = Large(d)
  BY <1>1 DEF Solver!Degree, Solver!Small, Solver!Large
<1>3. \A d : Length(d)' = Length(d) /\ (Saved(d)' <=> Saved(d))
  BY <1>1, <1>2 DEF Solver!Length, Solver!Saved
<1>4. SavedAt' = SavedAt
  BY <1>1, <1>3 DEF Solver!SavedAt, Solver!SaveOffset
<1>5. TheF' = TheF
  BY DEF Solver!TheF
<1>6. QED
  BY <1>1, <1>2, <1>3, <1>4, <1>5

LEMMA SameLevel ==
    ASSUME logn' = logn, depth' = depth
    PROVE  /\ Base' = Base /\ (Down' <=> Down) /\ (Between' <=> Between)
           /\ n' = n /\ slen' = slen /\ llen' = llen
           /\ ft' = ft /\ gt' = gt /\ Fd' = Fd /\ Ft' = Ft
           /\ (UseNTT' <=> UseNTT) /\ rt3' = rt3 /\ scale_fg' = scale_fg
<1>1. (Down' <=> Down) /\ (Between' <=> Between) /\ (UseNTT' <=> UseNTT) /\ Ft' = Ft
  BY DEF Solver!Down, Solver!Between, Solver!UseNTT, Solver!Ft
<1>2. n' = n /\ slen' = slen /\ llen' = llen /\ Window(depth)' = Window(depth)
  BY SameDegree DEF Solver!n, Solver!slen, Solver!llen, Solver!Window
<1>3. Base' = Base
  BY SameDegree, <1>1 DEF Solver!Base
<1>4. ft' = ft /\ gt' = gt
  BY <1>2 DEF Solver!ft, Solver!gt
<1>5. Fd' = Fd /\ rt3' = rt3
  BY <1>1, <1>2, <1>4 DEF Solver!Fd, Solver!rt3
<1>6. scale_fg' = scale_fg
  BY <1>2 DEF Solver!scale_fg, Solver!blen
<1>7. QED
  BY <1>1, <1>2, <1>3, <1>4, <1>5, <1>6

\* A pair is where its two extents are.
LEMMA PairNext ==
    ASSUME logn' = logn, NEW at, NEW d
    PROVE  Pair(at, d)' <=> /\ At(at, Length(d), NTT(f(d))) \in area'
                            /\ At(at + Length(d), Length(d), NTT(g(d))) \in area'
BY SameDegree, Zenon DEF Solver!Pair

\* What is saved for the levels above stays if nothing is written behind it.
LEMMA SavedKept ==
    ASSUME logn \in 8 .. 10, logn' = logn, NEW top \in 0 .. logn - 1, SavedTo(top),
           KeepsAbove(area, area', SavedAt[top])
    PROVE  \A d \in 1 .. top : Saved(d)' => Pair(SavedAt[d], d)'
<1> SUFFICES ASSUME NEW d \in 1 .. top, Saved(d) PROVE Pair(SavedAt[d], d)'
  BY SameDegree, Zenon DEF Solver!SavedTo
<1> DEFINE a == At(SavedAt[d], Length(d), NTT(f(d)))
           b == At(SavedAt[d] + Length(d), Length(d), NTT(g(d)))
<1>1. a \in area /\ b \in area
  BY Zenon DEF Solver!SavedTo, Solver!Pair
<1>2. d \in 0 .. logn - 1 /\ d \in 0 .. logn /\ d <= top
  OBVIOUS
<1>3. /\ SavedAt[d] \in Nat /\ SavedAt[top] \in Nat /\ SavedAt[d] >= SavedAt[top]
      /\ Length(d) \in Nat
  BY <1>2, SavedOrder, Lengths
<1>4. a.at >= SavedAt[top] /\ b.at >= SavedAt[top]
  BY <1>3, AtFields
<1> HIDE DEF a, b
<1>5. a \in area' /\ b \in area'
  BY <1>1, <1>4 DEF KeepsAbove
<1>6. QED
  BY <1>5, SameDegree, Zenon DEF Solver!Pair, a, b

LEMMA SavedKeptBelow ==
    ASSUME logn \in 8 .. 10, logn' = logn, depth' = depth, depth \in 1 .. logn,
           SavedTo(depth - 1), KeepsAbove(area, area', SavedAt[depth - 1])
    PROVE  SavedTo(depth - 1)'
<1>1. depth - 1 \in 0 .. logn - 1
  OBVIOUS
<1>2. \A d \in 1 .. depth - 1 : Saved(d)' => Pair(SavedAt[d], d)'
  BY <1>1, SavedKept, Zenon
<1>3. QED
  BY <1>2, Zenon DEF Solver!SavedTo

\* The offsets at the top level, in quarters of the degree.
LEMMA TopOffsets ==
    ASSUME logn \in 8 .. 10
    PROVE  \E B \in Nat \ {0} :
              /\ N0 = 4 * B /\ N0 \div 4 = B /\ N0 \div 2 = 2 * B /\ Area = 20 * B
              /\ Length(1) = 2 * B
              /\ T(1) = 0 /\ T(2) = 4 * B /\ T(3) = 8 * B /\ T(4) = 12 * B /\ T(5) = 16 * B
              /\ U(1) = 2 * B /\ U(2) = 6 * B /\ U(3) = 10 * B /\ U(4) = 14 * B /\ U(5) = 18 * B
<1>1. N0 \in {256, 512, 1024} /\ Area = 5 * N0 /\ 2 * Length(1) = N0 /\ Length(1) \in Nat
  BY Lengths, RoomAtEnds, 1 \in 0 .. logn
<1>2. PICK B \in {64, 128, 256} : N0 = 4 * B
  BY <1>1
<1>3. N0 \div 4 = B /\ N0 \div 2 = 2 * B /\ Area = 20 * B /\ Length(1) = 2 * B
  BY <1>1, <1>2
<1>4. T(1) = 0 /\ T(2) = 4 * B /\ T(3) = 8 * B /\ T(4) = 12 * B /\ T(5) = 16 * B
  BY <1>2 DEF Solver!T
<1>5. U(1) = 2 * B /\ U(2) = 6 * B /\ U(3) = 10 * B /\ U(4) = 14 * B /\ U(5) = 18 * B
  BY <1>2, <1>3 DEF Solver!U
<1>6. QED
  BY <1>2, <1>3, <1>4, <1>5

LEMMA SameTop ==
    ASSUME logn' = logn
    PROVE  /\ \A k : T(k)' = T(k) /\ U(k)' = U(k)
           /\ \A d : Unreduced(d)' = Unreduced(d)
           /\ TopK' = TopK /\ TopF' = TopF /\ TopG' = TopG
<1>1. \A d : Unreduced(d)' = Unreduced(d)
  BY SameDegree, Zenon DEF Solver!Unreduced
<1>2. TopK' = TopK
  BY <1>1, Zenon DEF Solver!TopK
<1>3. TopF' = TopF
  BY <1>1, <1>2, Zenon DEF Solver!TopF
<1>4. TopG' = TopG
  BY <1>3, Zenon DEF Solver!TopG
<1>5. QED
  BY <1>1, <1>2, <1>3, <1>4, SameDegree DEF Solver!T, Solver!U

\* F is lifted to the first polynomial, with g and f behind it.
LEMMA TopLiftKeeps ==
    ASSUME SolverInv, Solver!TopLift
    PROVE  SolverInv'
<1>1. logn \in 8 .. 10 /\ Tidy(area) /\ AtFetch /\ depth = 0
  BY DegreeAssumption DEF Solver!SolverInv, Solver!TopLift
<1>2. PICK B \in Nat \ {0} :
         /\ N0 = 4 * B /\ N0 \div 4 = B /\ N0 \div 2 = 2 * B /\ Area = 20 * B
         /\ Length(1) = 2 * B
         /\ T(1) = 0 /\ T(2) = 4 * B /\ T(3) = 8 * B /\ T(4) = 12 * B /\ T(5) = 16 * B
  BY <1>1, TopOffsets, Zenon
<1> DEFINE a == At(T(4), N0, Unset)
           b == At(T(1), N0 \div 2, NTT(TheF[1]))
           c == At(T(3), N0 \div 2, NTT(TheF[1]))
           d == At(T(2), N0, NTT(g(0)))
           e == At(T(1), N0, NTT(Unreduced(0)))
           v == At(T(3), N0, NTT(f(0)))
           p == Puts(area, <<a, b, c, d>>)
           q == Puts(p, <<e, v>>)
<1>3. Read(area, T(1), N0 \div 2, "int") = TheF[1]
  <2>1. At(T(1), N0 \div 2, Words(TheF[1])) \in area
    BY <1>1, <1>2 DEF Solver!AtFetch, Solver!DeeperF
  <2>2. N0 \div 2 \in Nat \ {0}
    BY <1>2
  <2>3. QED
    BY <1>1, <2>1, <2>2, ReadForms, Zenon
<1>4. /\ a.at = 12 * B /\ a.len = 4 * B /\ b.at = 0 /\ b.len = 2 * B
      /\ c.at = 8 * B /\ c.len = 2 * B /\ d.at = 4 * B /\ d.len = 4 * B
      /\ e.at = 0 /\ e.len = 4 * B /\ v.at = 8 * B /\ v.len = 4 * B
  BY <1>2, AtFields
<1>5. c \in p => Read(p, T(3), N0 \div 2, "ntt") = TheF[1] \/ ~Tidy(p)
  BY <1>2, ReadForms
<1>6. d \in p => Read(p, T(2), N0, "ntt") = g(0) \/ ~Tidy(p)
  BY <1>2, ReadForms
<1>7. area' = Puts(p, <<At(T(1), N0, NTT(Lift(Read(p, T(3), N0 \div 2, "ntt"),
                                              Read(p, T(2), N0, "ntt")))), v>>)
  BY <1>3, Zenon DEF Solver!TopLift
<1> HIDE DEF a, b, c, d, e, v, p, q
<1>8. Placed(a) /\ Placed(b) /\ Placed(c) /\ Placed(d) /\ Placed(e) /\ Placed(v)
  BY <1>2, <1>4 DEF Placed
<1>9. Apart(c, d) /\ Apart(e, v) /\ Apart(d, e) /\ Apart(d, v) /\ Area \in Nat
  BY <1>2, <1>4 DEF Solver!Apart
<1>10. Tidy(p) /\ c \in p /\ d \in p
  BY <1>1, <1>8, <1>9, PutsFour, Zenon DEF p
<1>11. area' = q
  BY <1>5, <1>6, <1>7, <1>10, 0 + 1 = 1, Zenon DEF e, q, Solver!Unreduced
<1>12. Tidy(q) /\ d \in q /\ e \in q /\ v \in q
  BY <1>8, <1>9, <1>10, PutsTwo, Zenon DEF q
<1>13. logn' = logn /\ spc' = "quotient"
  BY DEF Solver!TopLift
<1>14. AtQuotient'
  BY <1>11, <1>12, <1>13, SameDegree, SameTop, Zenon DEF Solver!AtQuotient, d, e, v
<1>15. Tidy(area)' /\ logn' \in Degrees
  BY <1>11, <1>12, <1>13 DEF Solver!SolverInv, Solver!TopLift, Solver!Tidy
<1>16. QED
  BY <1>13, <1>14, <1>15 DEF Solver!SolverInv

\* The quotient is where g was, and F where it was.
LEMMA TopQuotientKeeps ==
    ASSUME SolverInv, Solver!TopQuotient
    PROVE  SolverInv'
<1>1. logn \in 8 .. 10 /\ Tidy(area) /\ AtQuotient
  BY DegreeAssumption DEF Solver!SolverInv, Solver!TopQuotient
<1>2. PICK B \in Nat \ {0} :
         /\ N0 = 4 * B /\ Area = 20 * B /\ T(1) = 0 /\ T(2) = 4 * B /\ T(3) = 8 * B
         /\ T(4) = 12 * B /\ T(5) = 16 * B
  BY <1>1, TopOffsets, Zenon
<1> DEFINE
      F == At(T(1), N0, NTT(Unreduced(0)))
      y == At(T(2), N0, NTT(g(0)))
      x == At(T(3), N0, NTT(f(0)))
      a == At(T(2), N0,
              Words(Product(Unreduced(0), f(0), SolveForG(Unreduced(0), f(0), g(0)), g(0))))
      b == At(T(3), N0, Words(Product(f(0), f(0), g(0), g(0))))
      c == At(T(4), N0, Unset)
      d == At(T(4), 2 * N0, FFT(Product(f(0), f(0), g(0), g(0))))
      e == At(T(5), N0, FFT(Product(f(0), f(0), g(0), g(0))))
      v == At(T(3), 2 * N0,
              FFT(Product(Unreduced(0), f(0), SolveForG(Unreduced(0), f(0), g(0)), g(0))))
      k == At(T(2), N0, Words(TopK))
      p1 == Puts(area, <<a, b, c>>)
      r1 == Puts(area, <<At(T(2), N0,
                            Words(Product(Read(area, T(1), N0, "ntt"),
                                          Read(area, T(3), N0, "ntt"),
                                          SolveForG(Read(area, T(1), N0, "ntt"),
                                                    Read(area, T(3), N0, "ntt"),
                                                    Read(area, T(2), N0, "ntt")),
                                          Read(area, T(2), N0, "ntt")))),
                         At(T(3), N0,
                            Words(Product(Read(area, T(3), N0, "ntt"),
                                          Read(area, T(3), N0, "ntt"),
                                          Read(area, T(2), N0, "ntt"),
                                          Read(area, T(2), N0, "ntt")))),
                         At(T(4), N0, Unset)>>)
      p2 == Puts(p1, <<d>>)
      r2 == Puts(r1, <<At(T(4), 2 * N0, FFT(Read(r1, T(3), N0, "int")))>>)
      p3 == Puts(p2, <<e>>)
      r3 == Puts(r2, <<At(T(5), N0, FFT(Read(r2, T(4), 2 * N0, "fft")))>>)
      p4 == Puts(p3, <<v>>)
      r4 == Puts(r3, <<At(T(3), 2 * N0, FFT(Read(r3, T(2), N0, "int")))>>)
      p5 == Puts(p4, <<k>>)
      r5 == Puts(r4, <<At(T(2), N0,
                          Words(Quotient(Read(r4, T(3), 2 * N0, "fft"),
                                         Read(r4, T(5), N0, "fft"))))>>)
<1>3. /\ F.at = 0 /\ F.len = 4 * B /\ y.at = 4 * B /\ y.len = 4 * B
      /\ x.at = 8 * B /\ x.len = 4 * B /\ a.at = 4 * B /\ a.len = 4 * B
      /\ b.at = 8 * B /\ b.len = 4 * B /\ c.at = 12 * B /\ c.len = 4 * B
      /\ d.at = 12 * B /\ d.len = 8 * B /\ e.at = 16 * B /\ e.len = 4 * B
      /\ v.at = 8 * B /\ v.len = 8 * B /\ k.at = 4 * B /\ k.len = 4 * B
  BY <1>2, AtFields
<1>4. area' = r5
  BY Zenon DEF Solver!TopQuotient, Solver!Put
<1>5. F \in area /\ y \in area /\ x \in area
  BY <1>1, <1>2 DEF Solver!AtQuotient
<1>6. N0 \in Nat \ {0} /\ 2 * N0 \in Nat \ {0} /\ Area \in Nat
  BY <1>2
<1> HIDE DEF F, y, x, a, b, c, d, e, v, k, p1, p2, p3, p4, p5, r1, r2, r3, r4, r5
<1>7. /\ Placed(F) /\ Placed(y) /\ Placed(x) /\ Placed(a) /\ Placed(b) /\ Placed(c) /\ Placed(d)
      /\ Placed(e) /\ Placed(v) /\ Placed(k)
  BY <1>2, <1>3 DEF Placed
<1>8. /\ Read(area, T(1), N0, "ntt") = Unreduced(0) /\ Read(area, T(2), N0, "ntt") = g(0)
      /\ Read(area, T(3), N0, "ntt") = f(0)
  <2>1. Read(area, T(1), N0, "ntt") = Unreduced(0)
    BY <1>1, <1>5, <1>6, ReadForms, Zenon DEF F
  <2>2. Read(area, T(2), N0, "ntt") = g(0)
    BY <1>1, <1>5, <1>6, ReadForms, Zenon DEF y
  <2>3. Read(area, T(3), N0, "ntt") = f(0)
    BY <1>1, <1>5, <1>6, ReadForms, Zenon DEF x
  <2>4. QED
    BY <2>1, <2>2, <2>3
<1>9. r1 = p1
  BY <1>8, Zenon DEF r1, p1, a, b, c
<1>10. Apart(a, b) /\ Apart(a, c) /\ Apart(b, c) /\ Apart(F, a) /\ Apart(F, b) /\ Apart(F, c)
  BY <1>2, <1>3 DEF Solver!Apart
<1>11. Tidy(p1) /\ a \in p1 /\ b \in p1 /\ F \in p1
  BY <1>1, <1>5, <1>6, <1>7, <1>10, PutsThree, Zenon DEF p1
<1>12. Read(p1, T(3), N0, "int") = Product(f(0), f(0), g(0), g(0))
  BY <1>11, <1>11, <1>6, ReadForms, Zenon DEF b
<1>13. r2 = p2
  BY <1>12, <1>9, Zenon DEF r2, p2, d
<1>14. Apart(a, d) /\ Apart(F, d)
  BY <1>2, <1>3 DEF Solver!Apart
<1>15. Tidy(p2) /\ d \in p2 /\ a \in p2 /\ F \in p2
  BY <1>11, <1>6, <1>7, <1>14, PutsOne, Zenon DEF p2
<1>16. Read(p2, T(4), 2 * N0, "fft") = Product(f(0), f(0), g(0), g(0))
  BY <1>15, <1>15, <1>6, ReadForms, Zenon DEF d
<1>17. r3 = p3
  BY <1>16, <1>13, Zenon DEF r3, p3, e
<1>18. Apart(a, e) /\ Apart(F, e)
  BY <1>2, <1>3 DEF Solver!Apart
<1>19. Tidy(p3) /\ e \in p3 /\ a \in p3 /\ F \in p3
  BY <1>15, <1>6, <1>7, <1>18, PutsOne, Zenon DEF p3
<1>20. Read(p3, T(2), N0, "int") = Product(Unreduced(0), f(0), SolveForG(Unreduced(0), f(0),
                                                                         g(0)), g(0))
  BY <1>19, <1>19, <1>6, ReadForms, Zenon DEF a
<1>21. r4 = p4
  BY <1>20, <1>17, Zenon DEF r4, p4, v
<1>22. Apart(e, v) /\ Apart(F, v)
  BY <1>2, <1>3 DEF Solver!Apart
<1>23. Tidy(p4) /\ v \in p4 /\ e \in p4 /\ F \in p4
  BY <1>19, <1>6, <1>7, <1>22, PutsOne, Zenon DEF p4
<1>24. /\ Read(p4, T(3), 2 * N0, "fft") = Product(Unreduced(0), f(0), SolveForG(Unreduced(0),
                                                                                f(0), g(0)), g(0))
       /\ Read(p4, T(5), N0, "fft") = Product(f(0), f(0), g(0), g(0))
  <2>1. Read(p4, T(3), 2 * N0, "fft") = Product(Unreduced(0), f(0), SolveForG(Unreduced(0), f(0),
                                                                              g(0)), g(0))
    BY <1>23, <1>23, <1>6, ReadForms, Zenon DEF v
  <2>2. Read(p4, T(5), N0, "fft") = Product(f(0), f(0), g(0), g(0))
    BY <1>23, <1>23, <1>6, ReadForms, Zenon DEF e
  <2>3. QED
    BY <2>1, <2>2
<1>25. r5 = p5
  BY <1>24, <1>21, Zenon DEF r5, p5, k, Solver!TopK
<1>26. Apart(F, k)
  BY <1>2, <1>3 DEF Solver!Apart
<1>27. Tidy(p5) /\ k \in p5 /\ F \in p5
  BY <1>23, <1>6, <1>7, <1>26, PutsOne, Zenon DEF p5
<1>28. logn' = logn /\ spc' = "subtract" /\ area' = p5
  BY <1>4, <1>25 DEF Solver!TopQuotient
<1>29. AtSubtract'
  BY <1>27, <1>28, SameDegree, SameTop, Zenon DEF Solver!AtSubtract, F, k
<1>30. Tidy(area)'
  BY <1>27, <1>28, Zenon DEF Solver!Tidy
<1>31. logn' \in Degrees
  BY <1>28 DEF Solver!SolverInv, Solver!TopQuotient
<1>32. QED
  BY <1>28, <1>29, <1>30, <1>31 DEF Solver!SolverInv

\* F and G, reduced, are at the start of the area.
LEMMA TopSubtractKeeps ==
    ASSUME SolverInv, Solver!TopSubtract
    PROVE  SolverInv'
<1>1. logn \in 8 .. 10 /\ Tidy(area) /\ AtSubtract
  BY DegreeAssumption DEF Solver!SolverInv, Solver!TopSubtract
<1>2. PICK B \in Nat \ {0} :
         /\ N0 = 4 * B /\ Area = 20 * B /\ T(1) = 0 /\ T(2) = 4 * B /\ T(3) = 8 * B
         /\ T(4) = 12 * B /\ T(5) = 16 * B
  BY <1>1, TopOffsets, Zenon
<1> DEFINE
      F == At(T(1), N0, NTT(Unreduced(0)))
      k == At(T(2), N0, Words(TopK))
      a == At(T(5), N0, Unset)
      x == At(T(3), N0, NTT(f(0)))
      y == At(T(4), N0, NTT(g(0)))
      b == At(T(3), N0, Unset)
      c == At(T(1), N0, Words(TopF))
      d == At(T(2), N0, Words(TopG))
      p1 == Puts(area, <<a, x, y>>)
      r1 == Puts(area, <<At(T(5), N0, Unset),
                        At(T(3), N0, NTT(f(0))),
                        At(T(4), N0, NTT(g(0)))>>)
      p2 == Puts(p1, <<b, c, d>>)
      r2 == Puts(r1, <<At(T(3), N0, Unset),
                       At(T(1), N0,
                          Words(Minus(Read(r1, T(1), N0, "ntt"), Read(r1, T(2), N0, "int"),
                                      Read(r1, T(3), N0, "ntt")))),
                       At(T(2), N0,
                          Words(SolveForG(Minus(Read(r1, T(1), N0, "ntt"),
                                                Read(r1, T(2), N0, "int"),
                                                Read(r1, T(3), N0, "ntt")),
                                          Read(r1, T(3), N0, "ntt"),
                                          Read(r1, T(4), N0, "ntt"))))>>)
<1>3. /\ F.at = 0 /\ F.len = 4 * B /\ k.at = 4 * B /\ k.len = 4 * B
      /\ a.at = 16 * B /\ a.len = 4 * B /\ x.at = 8 * B /\ x.len = 4 * B
      /\ y.at = 12 * B /\ y.len = 4 * B /\ b.at = 8 * B /\ b.len = 4 * B
      /\ c.at = 0 /\ c.len = 4 * B /\ d.at = 4 * B /\ d.len = 4 * B
  BY <1>2, AtFields
<1>4. area' = r2
  BY Zenon DEF Solver!TopSubtract, Solver!Put
<1>5. F \in area /\ k \in area
  BY <1>1, <1>2 DEF Solver!AtSubtract
<1>6. N0 \in Nat \ {0} /\ Area \in Nat
  BY <1>2
<1> HIDE DEF F, k, a, x, y, b, c, d, p1, p2, r1, r2
<1>7. /\ Placed(F) /\ Placed(k) /\ Placed(a) /\ Placed(x) /\ Placed(y) /\ Placed(b) /\ Placed(c)
      /\ Placed(d)
  BY <1>2, <1>3 DEF Placed
<1>8. r1 = p1
  BY Zenon DEF r1, p1, a, x, y
<1>9. /\ Apart(x, y) /\ Apart(F, a) /\ Apart(F, x) /\ Apart(F, y) /\ Apart(k, a) /\ Apart(k, x)
      /\ Apart(k, y)
  BY <1>2, <1>3 DEF Solver!Apart
<1>10. Tidy(p1) /\ x \in p1 /\ y \in p1 /\ F \in p1 /\ k \in p1
  BY <1>1, <1>5, <1>6, <1>7, <1>9, PutsThree, Zenon DEF p1
<1>11. /\ Read(p1, T(1), N0, "ntt") = Unreduced(0) /\ Read(p1, T(2), N0, "int") = TopK
       /\ Read(p1, T(3), N0, "ntt") = f(0) /\ Read(p1, T(4), N0, "ntt") = g(0)
  <2>1. Read(p1, T(1), N0, "ntt") = Unreduced(0)
    BY <1>10, <1>10, <1>6, ReadForms, Zenon DEF F
  <2>2. Read(p1, T(2), N0, "int") = TopK
    BY <1>10, <1>10, <1>6, ReadForms, Zenon DEF k
  <2>3. Read(p1, T(3), N0, "ntt") = f(0)
    BY <1>10, <1>10, <1>6, ReadForms, Zenon DEF x
  <2>4. Read(p1, T(4), N0, "ntt") = g(0)
    BY <1>10, <1>10, <1>6, ReadForms, Zenon DEF y
  <2>5. QED
    BY <2>1, <2>2, <2>3, <2>4
<1>12. r2 = p2
  BY <1>11, <1>8, Zenon DEF r2, p2, b, c, d, Solver!TopF, Solver!TopG
<1>13. Apart(c, d)
  BY <1>2, <1>3 DEF Solver!Apart
<1>14. Tidy(p2) /\ c \in p2 /\ d \in p2
  BY <1>10, <1>6, <1>7, <1>13, PutsThree, Zenon DEF p2
<1>15. logn' = logn /\ spc' = "bytes" /\ area' = p2
  BY <1>4, <1>12 DEF Solver!TopSubtract
<1>16. AtBytes'
  BY <1>14, <1>15, SameDegree, SameTop, Zenon DEF Solver!AtBytes, c, d
<1>17. Tidy(area)'
  BY <1>14, <1>15, Zenon DEF Solver!Tidy
<1>18. logn' \in Degrees
  BY <1>15 DEF Solver!SolverInv, Solver!TopSubtract
<1>19. QED
  BY <1>15, <1>16, <1>17, <1>18 DEF Solver!SolverInv

\* They are a byte for each coefficient when they are moved to the start.
LEMMA ToBytesKeeps ==
    ASSUME SolverInv, Solver!ToBytes
    PROVE  SolverInv'
<1>1. logn \in 8 .. 10 /\ Tidy(area) /\ AtBytes
  BY DegreeAssumption DEF Solver!SolverInv, Solver!ToBytes
<1>2. PICK B \in Nat \ {0} :
         /\ N0 = 4 * B /\ N0 \div 4 = B /\ N0 \div 2 = 2 * B /\ Area = 20 * B /\ T(1) = 0
         /\ T(2) = 4 * B /\ T(3) = 8 * B /\ T(4) = 12 * B /\ T(5) = 16 * B
  BY <1>1, TopOffsets, Zenon
<1> DEFINE
      F == At(T(1), N0, Words(TopF))
      G == At(T(2), N0, Words(TopG))
      a == At(T(3), N0 \div 4, Solver!Bytes(TopF))
      b == At(T(3) + N0 \div 4, N0 \div 4, Solver!Bytes(TopG))
      c == At(0, N0 \div 4, Solver!Bytes(TopF))
      d == At(N0 \div 4, N0 \div 4, Solver!Bytes(TopG))
      p1 == Puts(area, <<a, b>>)
      r1 == Puts(area, <<At(T(3), N0 \div 4, Solver!Bytes(Read(area, T(1), N0, "int"))),
                         At(T(3) + N0 \div 4, N0 \div 4,
                            Solver!Bytes(Read(area, T(2), N0, "int")))>>)
      p2 == Puts(p1, <<c, d>>)
      r2 == Puts(r1, <<At(0, N0 \div 4, Solver!Bytes(Read(r1, T(3), N0 \div 4, "bytes"))),
                       At(N0 \div 4, N0 \div 4,
                          Solver!Bytes(Read(r1, T(3) + N0 \div 4, N0 \div 4, "bytes")))>>)
<1>3. /\ F.at = 0 /\ F.len = 4 * B /\ G.at = 4 * B /\ G.len = 4 * B /\ a.at = 8 * B /\ a.len = B
      /\ b.at = 9 * B /\ b.len = B /\ c.at = 0 /\ c.len = B /\ d.at = B /\ d.len = B
  BY <1>2, AtFields
<1>4. area' = r2
  BY Zenon DEF Solver!ToBytes, Solver!Put
<1>5. F \in area /\ G \in area
  BY <1>1, <1>2 DEF Solver!AtBytes
<1>6. N0 \in Nat \ {0} /\ N0 \div 4 \in Nat \ {0} /\ Area \in Nat
  BY <1>2
<1> HIDE DEF F, G, a, b, c, d, p1, p2, r1, r2
<1>7. Placed(F) /\ Placed(G) /\ Placed(a) /\ Placed(b) /\ Placed(c) /\ Placed(d)
  BY <1>2, <1>3 DEF Placed
<1>8. Read(area, T(1), N0, "int") = TopF /\ Read(area, T(2), N0, "int") = TopG
  <2>1. Read(area, T(1), N0, "int") = TopF
    BY <1>1, <1>5, <1>6, ReadForms, Zenon DEF F
  <2>2. Read(area, T(2), N0, "int") = TopG
    BY <1>1, <1>5, <1>6, ReadForms, Zenon DEF G
  <2>3. QED
    BY <2>1, <2>2
<1>9. r1 = p1
  BY <1>8, Zenon DEF r1, p1, a, b
<1>10. Apart(a, b)
  BY <1>2, <1>3 DEF Solver!Apart
<1>11. Tidy(p1) /\ a \in p1 /\ b \in p1
  BY <1>1, <1>5, <1>6, <1>7, <1>10, PutsTwo, Zenon DEF p1
<1>12. /\ Read(p1, T(3), N0 \div 4, "bytes") = TopF
       /\ Read(p1, T(3) + N0 \div 4, N0 \div 4, "bytes") = TopG
  <2>1. Read(p1, T(3), N0 \div 4, "bytes") = TopF
    BY <1>11, <1>11, <1>6, ReadForms, Zenon DEF a
  <2>2. Read(p1, T(3) + N0 \div 4, N0 \div 4, "bytes") = TopG
    BY <1>11, <1>11, <1>6, ReadForms, Zenon DEF b
  <2>3. QED
    BY <2>1, <2>2
<1>13. r2 = p2
  BY <1>12, <1>9, Zenon DEF r2, p2, c, d
<1>14. Apart(c, d)
  BY <1>2, <1>3 DEF Solver!Apart
<1>15. Tidy(p2) /\ c \in p2 /\ d \in p2
  BY <1>11, <1>6, <1>7, <1>14, PutsTwo, Zenon DEF p2
<1>16. logn' = logn /\ spc' = "form" /\ area' = p2
  BY <1>4, <1>13 DEF Solver!ToBytes
<1>17. AtForm'
  BY <1>15, <1>16, SameDegree, SameTop, Zenon DEF Solver!AtForm, c, d
<1>18. Tidy(area)'
  BY <1>15, <1>16, Zenon DEF Solver!Tidy
<1>19. logn' \in Degrees
  BY <1>16 DEF Solver!SolverInv, Solver!ToBytes
<1>20. QED
  BY <1>16, <1>17, <1>18, <1>19 DEF Solver!SolverInv

LEMMA QFields ==
    \A F, G : /\ Q(F, G).q00 = Product(f(0), f(0), g(0), g(0))
              /\ Q(F, G).q01 = Product(F, f(0), G, g(0)) /\ Q(F, G).q11 = Product(F, F, G, G)
BY DEF Solver!Q

\* The public form is made of f, g, F and G where there is room for one more.
LEMMA MakeFormKeeps ==
    ASSUME SolverInv, Solver!MakeForm
    PROVE  SolverInv'
<1>1. logn \in 8 .. 10 /\ Tidy(area) /\ AtForm
  BY DegreeAssumption DEF Solver!SolverInv, Solver!MakeForm
<1>2. PICK B \in Nat \ {0} :
         /\ N0 = 4 * B /\ N0 \div 4 = B /\ N0 \div 2 = 2 * B /\ Area = 20 * B
         /\ U(1) = 2 * B /\ U(2) = 6 * B /\ U(3) = 10 * B /\ U(4) = 14 * B /\ U(5) = 18 * B
  BY <1>1, TopOffsets, Zenon
<1> DEFINE
      F == At(0, N0 \div 4, Solver!Bytes(TopF))
      G == At(N0 \div 4, N0 \div 4, Solver!Bytes(TopG))
      a == At(U(1), N0, Unset)
      x == At(U(2), N0, NTT(f(0)))
      y == At(U(3), N0, NTT(g(0)))
      b == At(U(4), N0, NTT(TopF))
      c == At(U(5), 2 * (N0 \div 4), NTT(Q(TopF, TopG).q00))
      d == At(U(2), N0, NTT(Q(TopF, TopG).q01))
      e == At(U(4), N0, NTT(TopG))
      v == At(U(3), N0, NTT(TopF))
      z == At(U(3), N0, Words(Q(TopF, TopG).q11))
      j == At(U(1), N0, Unset)
      k == At(U(4), N0, Words(Q(TopF, TopG).q00))
      l == At(U(2), N0, Words(Q(TopF, TopG).q01))
      o == At(U(1), 2 * (N0 \div 4), Words(Q(TopF, TopG).q00))
      s == At(U(1) + 2 * (N0 \div 4), 2 * (N0 \div 4), Words(Q(TopF, TopG).q01))
      t == At(U(2), N0, Words(Q(TopF, TopG).q11))
      p1 == Puts(area, <<a, x, y, b>>)
      r1 == Puts(area, <<At(U(1), N0, Unset),
                        At(U(2), N0, NTT(f(0))),
                        At(U(3), N0, NTT(g(0))),
                        At(U(4), N0, NTT(Read(area, 0, N0 \div 4, "bytes")))>>)
      p2 == Puts(p1, <<c, d, e, v>>)
      r2 == Puts(r1, <<At(U(5), 2 * (N0 \div 4),
                          NTT(Product(Read(r1, U(2), N0, "ntt"), Read(r1, U(2), N0, "ntt"),
                                      Read(r1, U(3), N0, "ntt"),
                                      Read(r1, U(3), N0, "ntt")))),
                       At(U(2), N0,
                          NTT(Product(Read(r1, U(4), N0, "ntt"), Read(r1, U(2), N0, "ntt"),
                                      Read(area, N0 \div 4, N0 \div 4, "bytes"),
                                      Read(r1, U(3), N0, "ntt")))),
                       At(U(4), N0, NTT(Read(area, N0 \div 4, N0 \div 4, "bytes"))),
                       At(U(3), N0, NTT(Read(area, 0, N0 \div 4, "bytes")))>>)
      p3 == Puts(p2, <<z, j, k, l>>)
      r3 == Puts(r2, <<At(U(3), N0,
                          Words(Product(Read(r2, U(3), N0, "ntt"),
                                        Read(area, 0, N0 \div 4, "bytes"),
                                        Read(r2, U(4), N0, "ntt"),
                                        Read(area, N0 \div 4, N0 \div 4, "bytes")))),
                       At(U(1), N0, Unset),
                       At(U(4), N0, Words(Read(r2, U(5), 2 * (N0 \div 4), "ntt"))),
                       At(U(2), N0, Words(Read(r2, U(2), N0, "ntt")))>>)
      p4 == Puts(p3, <<o, s, t>>)
      r4 == Puts(r3, <<At(U(1), 2 * (N0 \div 4), Words(Read(r3, U(4), N0, "int"))),
                        At(U(1) + 2 * (N0 \div 4), 2 * (N0 \div 4),
                           Words(Read(r3, U(2), N0, "int"))),
                        At(U(2), N0, Words(Read(r3, U(3), N0, "int")))>>)
<1>3. /\ F.at = 0 /\ F.len = B /\ G.at = B /\ G.len = B /\ a.at = 2 * B /\ a.len = 4 * B
      /\ x.at = 6 * B /\ x.len = 4 * B /\ y.at = 10 * B /\ y.len = 4 * B
      /\ b.at = 14 * B /\ b.len = 4 * B /\ c.at = 18 * B /\ c.len = 2 * B
      /\ d.at = 6 * B /\ d.len = 4 * B /\ e.at = 14 * B /\ e.len = 4 * B
      /\ v.at = 10 * B /\ v.len = 4 * B /\ z.at = 10 * B /\ z.len = 4 * B
      /\ j.at = 2 * B /\ j.len = 4 * B /\ k.at = 14 * B /\ k.len = 4 * B
      /\ l.at = 6 * B /\ l.len = 4 * B /\ o.at = 2 * B /\ o.len = 2 * B
      /\ s.at = 4 * B /\ s.len = 2 * B /\ t.at = 6 * B /\ t.len = 4 * B
  BY <1>2, AtFields
<1>4. area' = r4
  BY Zenon DEF Solver!MakeForm, Solver!Put
<1>5. F \in area /\ G \in area
  BY <1>1, <1>2 DEF Solver!AtForm
<1>6. /\ N0 \in Nat \ {0} /\ N0 \div 4 \in Nat \ {0} /\ 2 * (N0 \div 4) \in Nat \ {0}
      /\ Area \in Nat
  BY <1>2
<1> HIDE DEF F, G, a, x, y, b, c, d, e, v, z, j, k, l, o, s, t, p1, p2, p3, p4, r1, r2, r3, r4
<1>7. /\ Placed(F) /\ Placed(G) /\ Placed(a) /\ Placed(x) /\ Placed(y) /\ Placed(b) /\ Placed(c)
      /\ Placed(d) /\ Placed(e) /\ Placed(v) /\ Placed(z) /\ Placed(j) /\ Placed(k)
      /\ Placed(l) /\ Placed(o) /\ Placed(s) /\ Placed(t)
  BY <1>2, <1>3 DEF Placed
<1>8. /\ Read(area, 0, N0 \div 4, "bytes") = TopF
      /\ Read(area, N0 \div 4, N0 \div 4, "bytes") = TopG
  <2>1. Read(area, 0, N0 \div 4, "bytes") = TopF
    BY <1>1, <1>5, <1>6, ReadForms, Zenon DEF F
  <2>2. Read(area, N0 \div 4, N0 \div 4, "bytes") = TopG
    BY <1>1, <1>5, <1>6, ReadForms, Zenon DEF G
  <2>3. QED
    BY <2>1, <2>2
<1>9. r1 = p1
  BY <1>8, Zenon DEF r1, p1, a, x, y, b
<1>10. /\ Apart(x, y) /\ Apart(x, b) /\ Apart(y, b) /\ Apart(F, a) /\ Apart(F, x) /\ Apart(F, y)
       /\ Apart(F, b) /\ Apart(G, a) /\ Apart(G, x) /\ Apart(G, y) /\ Apart(G, b)
  BY <1>2, <1>3 DEF Solver!Apart
<1>11. Tidy(p1) /\ x \in p1 /\ y \in p1 /\ b \in p1 /\ F \in p1 /\ G \in p1
  BY <1>1, <1>5, <1>6, <1>7, <1>10, PutsFour, Zenon DEF p1
<1>12. /\ Read(p1, U(2), N0, "ntt") = f(0) /\ Read(p1, U(3), N0, "ntt") = g(0)
       /\ Read(p1, U(4), N0, "ntt") = TopF
  <2>1. Read(p1, U(2), N0, "ntt") = f(0)
    BY <1>11, <1>11, <1>6, ReadForms, Zenon DEF x
  <2>2. Read(p1, U(3), N0, "ntt") = g(0)
    BY <1>11, <1>11, <1>6, ReadForms, Zenon DEF y
  <2>3. Read(p1, U(4), N0, "ntt") = TopF
    BY <1>11, <1>11, <1>6, ReadForms, Zenon DEF b
  <2>4. QED
    BY <2>1, <2>2, <2>3
<1>13. r2 = p2
  BY <1>12, <1>9, QFields, <1>8, ZenonT(40) DEF r2, p2, c, d, e, v
<1>14. /\ Apart(c, d) /\ Apart(c, e) /\ Apart(c, v) /\ Apart(d, e) /\ Apart(d, v) /\ Apart(e, v)
       /\ Apart(F, c) /\ Apart(F, d) /\ Apart(F, e) /\ Apart(F, v) /\ Apart(G, c)
       /\ Apart(G, d) /\ Apart(G, e) /\ Apart(G, v)
  BY <1>2, <1>3 DEF Solver!Apart
<1>15. Tidy(p2) /\ c \in p2 /\ d \in p2 /\ e \in p2 /\ v \in p2 /\ F \in p2 /\ G \in p2
  BY <1>11, <1>6, <1>7, <1>14, PutsFour, Zenon DEF p2
<1>16. /\ Read(p2, U(3), N0, "ntt") = TopF /\ Read(p2, U(4), N0, "ntt") = TopG
       /\ Read(p2, U(5), 2 * (N0 \div 4), "ntt") = Q(TopF, TopG).q00
       /\ Read(p2, U(2), N0, "ntt") = Q(TopF, TopG).q01
  <2>1. Read(p2, U(3), N0, "ntt") = TopF
    BY <1>15, <1>15, <1>6, ReadForms, Zenon DEF v
  <2>2. Read(p2, U(4), N0, "ntt") = TopG
    BY <1>15, <1>15, <1>6, ReadForms, Zenon DEF e
  <2>3. Read(p2, U(5), 2 * (N0 \div 4), "ntt") = Q(TopF, TopG).q00
    BY <1>15, <1>15, <1>6, ReadForms, Zenon DEF c
  <2>4. Read(p2, U(2), N0, "ntt") = Q(TopF, TopG).q01
    BY <1>15, <1>15, <1>6, ReadForms, Zenon DEF d
  <2>5. QED
    BY <2>1, <2>2, <2>3, <2>4
<1>17. Q(TopF, TopG).q11 = Product(TopF, TopF, TopG, TopG)
  BY QFields
<1>18. r3 = p3
  BY <1>16, <1>17, <1>13, <1>8, Zenon DEF r3, p3, z, j, k, l
<1>19. /\ Apart(z, j) /\ Apart(z, k) /\ Apart(z, l) /\ Apart(k, l) /\ Apart(F, z) /\ Apart(F, j)
       /\ Apart(F, k) /\ Apart(F, l) /\ Apart(G, z) /\ Apart(G, j) /\ Apart(G, k)
       /\ Apart(G, l)
  BY <1>2, <1>3 DEF Solver!Apart
<1>20. Tidy(p3) /\ z \in p3 /\ k \in p3 /\ l \in p3 /\ F \in p3 /\ G \in p3
  BY <1>15, <1>6, <1>7, <1>19, PutsFour, Zenon DEF p3
<1>21. /\ Read(p3, U(4), N0, "int") = Q(TopF, TopG).q00
       /\ Read(p3, U(2), N0, "int") = Q(TopF, TopG).q01
       /\ Read(p3, U(3), N0, "int") = Q(TopF, TopG).q11
  <2>1. Read(p3, U(4), N0, "int") = Q(TopF, TopG).q00
    BY <1>20, <1>20, <1>6, ReadForms, Zenon DEF k
  <2>2. Read(p3, U(2), N0, "int") = Q(TopF, TopG).q01
    BY <1>20, <1>20, <1>6, ReadForms, Zenon DEF l
  <2>3. Read(p3, U(3), N0, "int") = Q(TopF, TopG).q11
    BY <1>20, <1>20, <1>6, ReadForms, Zenon DEF z
  <2>4. QED
    BY <2>1, <2>2, <2>3
<1>22. r4 = p4
  BY <1>21, <1>18, Zenon DEF r4, p4, o, s, t
<1>23. /\ Apart(o, s) /\ Apart(o, t) /\ Apart(s, t) /\ Apart(F, o) /\ Apart(F, s) /\ Apart(F, t)
       /\ Apart(G, o) /\ Apart(G, s) /\ Apart(G, t)
  BY <1>2, <1>3 DEF Solver!Apart
<1>24. Tidy(p4) /\ o \in p4 /\ s \in p4 /\ t \in p4 /\ F \in p4 /\ G \in p4
  BY <1>20, <1>6, <1>7, <1>23, PutsThree, Zenon DEF p4
<1>25. logn' = logn /\ spc' = "formed" /\ area' = p4
  BY <1>4, <1>22 DEF Solver!MakeForm
<1>26. Solved'
  <2>1. At(0, N0 \div 4, Solver!Bytes(TopF)) \in area' /\ At(N0 \div 4, N0 \div 4,
                                                             Solver!Bytes(TopG)) \in area'
    BY <1>24, <1>25, Zenon DEF F, G
  <2>2. /\ At(U(1), 2 * (N0 \div 4), Words(Q(TopF, TopG).q00)) \in area'
        /\ At(U(1) + 2 * (N0 \div 4), 2 * (N0 \div 4), Words(Q(TopF, TopG).q01)) \in area'
        /\ At(U(2), N0, Words(Q(TopF, TopG).q11)) \in area'
    BY <1>24, <1>25, Zenon DEF o, s, t
  <2>3. Tidy(area')
    BY <1>24, <1>25
  <2>4. /\ Read(area', 0, N0 \div 4, "bytes") = TopF
        /\ Read(area', N0 \div 4, N0 \div 4, "bytes") = TopG
    BY <2>1, <2>3, <1>6, ReadForms, Zenon
  <2>5. /\ Read(area', U(1), 2 * (N0 \div 4), "int") = Q(TopF, TopG).q00
        /\ Read(area', U(1) + 2 * (N0 \div 4), 2 * (N0 \div 4), "int") = Q(TopF, TopG).q01
        /\ Read(area', U(2), N0, "int") = Q(TopF, TopG).q11
    <3>1. Read(area', U(1), 2 * (N0 \div 4), "int") = Q(TopF, TopG).q00
      BY <2>2, <2>3, <1>6, ReadForms, Zenon
    <3>2. Read(area', U(1) + 2 * (N0 \div 4), 2 * (N0 \div 4), "int") = Q(TopF, TopG).q01
      BY <2>2, <2>3, <1>6, ReadExtent, Zenon DEF Solver!Words
    <3>3. Read(area', U(2), N0, "int") = Q(TopF, TopG).q11
      BY <2>2, <2>3, <1>6, ReadForms, Zenon
    <3>4. QED
      BY <3>1, <3>2, <3>3
  <2>6. Q(TopF, TopG)' = Q(TopF, TopG)
    BY <1>25, SameTop, Zenon DEF Solver!Q
  <2>7. QED
    BY <2>4, <2>5, <2>6, <1>25, SameDegree, SameTop, Zenon DEF Solver!Solved
<1>27. Tidy(area)'
  BY <1>24, <1>25, Zenon DEF Solver!Tidy
<1>28. logn' \in Degrees
  BY <1>25 DEF Solver!SolverInv, Solver!MakeForm
<1>29. QED
  BY <1>25, <1>26, <1>27, <1>28 DEF Solver!SolverInv

LEMMA StartKeeps ==
    ASSUME NEW k \in Degrees, Solver!Start(k)
    PROVE  SolverInv'
<1>1. Tidy(area)'
  BY DEF Solver!Start, Solver!Tidy
<1>2. AtZero'
  BY DEF Solver!Start, Solver!AtZero, Solver!Down
<1>3. logn' \in Degrees /\ spc' = "zero"
  BY DEF Solver!Start
<1>4. QED
  BY <1>1, <1>2, <1>3 DEF Solver!SolverInv

LEMMA FailKeeps ==
    ASSUME SolverInv, Solver!Fail
    PROVE  SolverInv'
<1>1. logn \in Degrees /\ Tidy(area)
  BY DEF Solver!SolverInv, Solver!Fail
<1>2. logn' = logn /\ area' = area /\ spc' = "failed"
  BY DEF Solver!Fail
<1>3. Tidy(area)'
  BY <1>1, <1>2, Zenon DEF Solver!Tidy
<1>4. QED
  BY <1>1, <1>2, <1>3 DEF Solver!SolverInv

\* The first f and g leave the F of the level below.
LEMMA MakeZeroKeeps ==
    ASSUME SolverInv, Solver!MakeZero
    PROVE  SolverInv'
<1>1. logn \in 8 .. 10 /\ Tidy(area) /\ AtZero
  BY DegreeAssumption DEF Solver!SolverInv, Solver!MakeZero
<1>2. /\ Base \in Nat /\ Base + 3 * N0 <= Area /\ Length(0) = N0
      /\ N0 \in Nat \ {0} /\ Area \in Nat
  <2>1. Down \/ (Between /\ ~Saved(depth))
    BY <1>1, Zenon DEF Solver!AtZero
  <2>2. Base \in Nat /\ Base + 3 * N0 <= Area /\ Length(0) = N0
    BY <1>1, <2>1, RoomAtEnds, Zenon
  <2>3. N0 \in Nat \ {0} /\ Area \in Nat
    BY <1>1, Lengths
  <2>4. QED
    BY <2>2, <2>3
<1> DEFINE x == At(Base, N0, NTT(f(0)))
           y == At(Base + N0, N0, NTT(g(0)))
           z == At(Base + 2 * N0, N0, Unset)
           F == At(0, Length(depth + 1), Words(TheF[depth + 1]))
           p == Puts(area, <<x, y, z>>)
<1>3. /\ x.at = Base /\ x.len = N0 /\ y.at = Base + N0 /\ y.len = N0
      /\ z.at = Base + 2 * N0 /\ z.len = N0
      /\ F.at = 0 /\ F.len = Length(depth + 1)
  BY AtFields
<1>4. area' = p /\ logn' = logn /\ depth' = depth /\ level' = 0 /\ spc' = "step"
  BY Zenon DEF Solver!MakeZero
<1>5. ~Down => F \in area /\ F.len = Base
  BY <1>1, <1>3 DEF Solver!AtZero, Solver!DeeperF, Solver!Base
<1> HIDE DEF x, y, z, F, p
<1>6. Placed(x) /\ Placed(y) /\ Placed(z)
  BY <1>2, <1>3 DEF Placed
<1>7. /\ Apart(x, y) /\ Apart(x, z) /\ Apart(y, z)
      /\ ~Down => Apart(F, x) /\ Apart(F, y) /\ Apart(F, z)
  BY <1>2, <1>3, <1>5 DEF Solver!Apart
<1>8. Tidy(p) /\ x \in p /\ y \in p /\ (~Down => F \in p)
  BY <1>1, <1>2, <1>5, <1>6, <1>7, PutsThree, Zenon DEF p
<1>9. Pair(Base, level)'
  BY <1>2, <1>4, <1>8, SameDegree, SameLevel, Zenon DEF Solver!Pair, x, y
<1>10. IF Down THEN SavedTo(level)' ELSE (Between /\ ~Saved(depth) /\ DeeperF)'
  <2>1. CASE Down
    <3>1. 1 .. level' = {}
      BY <1>4
    <3>2. QED
      BY <2>1, <3>1, Zenon DEF Solver!SavedTo
  <2>2. CASE ~Down
    <3>1. Between /\ ~Saved(depth)
      BY <1>1, <2>2 DEF Solver!AtZero
    <3>2. QED
      BY <1>4, <1>8, <2>2, <3>1, SameDegree, SameLevel, Zenon DEF Solver!DeeperF, F, Solver!Saved
  <2>3. QED
    BY <2>1, <2>2
<1>11. level' \in 0 .. depth'
  <2>1. depth \in Nat
    BY <1>1 DEF Solver!AtZero, Solver!Down, Solver!Between
  <2>2. QED
    BY <1>4, <2>1
<1>12. AtStep'
  BY <1>4, <1>9, <1>10, <1>11, SameLevel, Zenon DEF Solver!AtStep
<1>13. Tidy(area)'
  BY <1>4, <1>8, Zenon DEF Solver!Tidy
<1>14. logn' \in Degrees
  BY <1>4 DEF Solver!SolverInv, Solver!MakeZero
<1>15. QED
  BY <1>4, <1>12, <1>13, <1>14 DEF Solver!SolverInv

\* What is made is what is solved, or, on the way up, what is moved.
LEMMA FGMadeKeeps ==
    ASSUME SolverInv, Solver!FGMade
    PROVE  SolverInv'
<1>1. logn \in 8 .. 10 /\ Tidy(area) /\ AtStep /\ level = depth
  BY DegreeAssumption DEF Solver!SolverInv, Solver!FGMade
<1>2. /\ logn' = logn /\ depth' = depth /\ level' = level /\ area' = area
      /\ spc' = IF Down THEN "deepest" ELSE "move"
  BY DEF Solver!FGMade
<1>3. Tidy(area)' /\ logn' \in Degrees
  BY <1>1, <1>2 DEF Solver!SolverInv, Solver!FGMade, Solver!Tidy
<1>4. CASE Down
  <2>1. depth = logn /\ Base = 0
    BY <1>4 DEF Solver!Down, Solver!Base
  <2>2. Pair(0, logn) /\ SavedTo(logn)
    BY <1>1, <1>4, <2>1, Zenon DEF Solver!AtStep
  <2>3. \A d \in 1 .. logn - 1 : d \in 1 .. logn
    BY <1>1
  <2>4. SavedTo(logn - 1)
    BY <2>2, <2>3, Zenon DEF Solver!SavedTo
  <2>5. AtDeepest
    BY <1>4, <2>2, <2>4, Zenon DEF Solver!AtDeepest
  <2>6. AtDeepest'
    BY <1>2, <2>5, SameDegree, SameLevel, Zenon DEF Solver!AtDeepest, Solver!Pair, Solver!SavedTo
  <2>7. QED
    BY <1>2, <1>3, <1>4, <2>6 DEF Solver!SolverInv
<1>5. CASE ~Down
  <2>1. Between /\ ~Saved(depth) /\ DeeperF /\ Pair(Base, depth)
    BY <1>1, <1>5, Zenon DEF Solver!AtStep
  <2>2. \A d \in 1 .. depth - 1 : ~Saved(d)
    <3>1. Profile.save \in 2 .. 3 /\ depth \in 1 .. logn - 1
      BY <1>1, <2>1, Lengths DEF Solver!Between
    <3>2. QED
      BY <1>1, <2>1, <3>1 DEF Solver!Saved
  <2>3. SavedTo(depth - 1)
    BY <2>2, Zenon DEF Solver!SavedTo
  <2>4. AtMove
    BY <2>1, <2>3, Zenon DEF Solver!AtMove
  <2>5. AtMove'
    BY <1>2, <2>4, SameDegree, SameLevel, Zenon DEF Solver!AtMove, Solver!Pair, Solver!SavedTo,
       Solver!DeeperF
  <2>6. QED
    BY <1>2, <1>3, <1>5, <2>5 DEF Solver!SolverInv
<1>6. QED
  BY <1>4, <1>5

LEMMA KeepsOn ==
    ASSUME NEW a, NEW b, NEW c, NEW roof, KeepsAbove(a, b, roof), KeepsAbove(b, c, roof)
    PROVE  KeepsAbove(a, c, roof)
BY Zenon DEF KeepsAbove

\* The equation for two numbers is solved below what is saved.
LEMMA DeepestKeeps ==
    ASSUME SolverInv, Solver!Deepest
    PROVE  SolverInv'
<1>1. logn \in 8 .. 10 /\ Tidy(area) /\ AtDeepest
  BY DegreeAssumption DEF Solver!SolverInv, Solver!Deepest
<1> DEFINE len == Solver!Small(logn)
           roof == SavedAt[logn - 1]
<1>2. /\ len \in Nat \ {0} /\ Length(logn) = len /\ 8 * len <= roof
      /\ roof \in Nat /\ roof <= Area /\ Area \in Nat
      /\ logn - 1 \in 0 .. logn - 1 /\ logn - 1 + 1 = logn
  BY <1>1, Lengths, RoomAtEnds, SavedOrder
<1> DEFINE moved == MovePair(area, 2 * len, 0, len)
           a == At(2 * len, len, Words(f(logn)))
           b == At(3 * len, len, Words(g(logn)))
           c == At(4 * len, 4 * len, Unset)
           d == At(len, len, Unset)
           e == At(0, len, Words(TheF[logn]))
           p == Puts(moved, <<a, b, c, d, e>>)
<1>3. area' = Puts(moved, <<At(2 * len, len, Words(Read(moved, 2 * len, len, "ntt"))),
                           At(3 * len, len, Words(Read(moved, 3 * len, len, "ntt"))), c, d,
                           At(0, len, Words(Bezout(Read(moved, 2 * len, len, "ntt"),
                                                   Read(moved, 3 * len, len, "ntt"))))>>)
  BY Zenon DEF Solver!Deepest
<1>4. /\ a.at = 2 * len /\ a.len = len /\ b.at = 3 * len /\ b.len = len
      /\ c.at = 4 * len /\ c.len = 4 * len /\ d.at = len /\ d.len = len
      /\ e.at = 0 /\ e.len = len
  BY AtFields
<1>5. At(0, len, NTT(f(logn))) \in area /\ At(0 + len, len, NTT(g(logn))) \in area
  BY <1>1, <1>2 DEF Solver!AtDeepest, Solver!Pair
<1>6. SavedTo(logn - 1)
  BY <1>1 DEF Solver!AtDeepest
<1> HIDE DEF len, roof, moved, a, b, c, d, e, p
<1>7. /\ Tidy(moved) /\ KeepsAbove(area, moved, roof)
      /\ At(2 * len, len, NTT(f(logn))) \in moved /\ At(3 * len, len, NTT(g(logn))) \in moved
  <2>1. 2 * len \in Nat /\ 2 * len + 2 * len <= Area /\ 2 * len + 2 * len <= roof
    BY <1>2
  <2>2. 2 * len + len = 3 * len /\ 0 \in Nat
    BY <1>2
  <2>3. /\ Tidy(moved) /\ KeepsAbove(area, moved, roof)
        /\ At(2 * len, len, NTT(f(logn))) \in moved
        /\ At(2 * len + len, len, NTT(g(logn))) \in moved
    BY <1>1, <1>2, <1>5, <2>1, <2>2, MovePairFacts DEF moved
  <2>4. QED
    BY <2>2, <2>3
<1>8. /\ Read(moved, 2 * len, len, "ntt") = f(logn)
      /\ Read(moved, 3 * len, len, "ntt") = g(logn)
  BY <1>2, <1>7, ReadForms
<1>9. area' = p
  BY <1>1, <1>3, <1>8, TheFLoop, Zenon DEF p, a, b, e
<1>10. Placed(a) /\ Placed(b) /\ Placed(c) /\ Placed(d) /\ Placed(e)
  BY <1>2, <1>4 DEF Placed
<1>11. \A x \in {a, b, c, d, e} : x.at + x.len <= roof
  BY <1>2, <1>4
<1>12. Tidy(p) /\ e \in p /\ KeepsAbove(moved, p, roof)
  BY <1>2, <1>7, <1>10, <1>11, PutsFive, Zenon DEF p
<1>13. logn' = logn /\ depth' = logn - 1 /\ spc' = "fetch"
  BY DEF Solver!Deepest
<1>14. KeepsAbove(area, area', SavedAt[logn - 1])
  BY <1>7, <1>9, <1>12, KeepsOn, Zenon DEF roof
<1>15. \A x \in 1 .. logn - 1 : Saved(x)' => Pair(SavedAt[x], x)'
  BY <1>1, <1>2, <1>6, <1>13, <1>14, SavedKept, Zenon
<1>16. SavedTo(depth)'
  BY <1>13, <1>15, Zenon DEF Solver!SavedTo
<1>17. DeeperF'
  BY <1>2, <1>9, <1>12, <1>13, SameDegree, Zenon DEF Solver!DeeperF, e, len
<1>18. AtFetch'
  BY <1>2, <1>13, <1>16, <1>17, Zenon DEF Solver!AtFetch
<1>19. Tidy(area)'
  BY <1>9, <1>12, Zenon DEF Solver!Tidy
<1>20. logn' \in Degrees
  BY <1>13 DEF Solver!SolverInv, Solver!Deepest
<1>21. QED
  BY <1>13, <1>18, <1>19, <1>20 DEF Solver!SolverInv

\* What was saved is moved behind F, or f and g are made again.
LEMMA FetchKeeps ==
    ASSUME SolverInv, Solver!Fetch
    PROVE  SolverInv'
<1>1. logn \in 8 .. 10 /\ Tidy(area) /\ AtFetch /\ depth > 0
  BY DegreeAssumption DEF Solver!SolverInv, Solver!Fetch
<1>2. Between /\ DeeperF /\ SavedTo(depth) /\ ~Down
  BY <1>1 DEF Solver!AtFetch, Solver!Between, Solver!Down
<1>3. logn' = logn /\ depth' = depth /\ logn' \in Degrees
  BY DEF Solver!Fetch, Solver!SolverInv
<1>4. CASE Saved(depth)
  <2> DEFINE L == Length(depth)
             roof == SavedAt[depth - 1]
             p == MovePair(area, Base, SavedAt[depth], L)
             F == At(0, Length(depth + 1), Words(TheF[depth + 1]))
  <2>1. area' = p /\ spc' = "move"
    BY <1>4, Zenon DEF Solver!Fetch
  <2>2. F.at = 0 /\ F.len = Length(depth + 1) /\ F \in area /\ Base = Length(depth + 1)
    BY <1>2, AtFields DEF Solver!DeeperF, Solver!Base
  <2>3. /\ At(SavedAt[depth], L, NTT(f(depth))) \in area
        /\ At(SavedAt[depth] + L, L, NTT(g(depth))) \in area
    <3>1. depth \in 1 .. depth
      BY <1>2 DEF Solver!Between
    <3>2. QED
      BY <1>2, <1>4, <3>1, Zenon DEF Solver!SavedTo, Solver!Pair
  <2>4. /\ L \in Nat \ {0} /\ roof \in Nat /\ roof <= Area /\ Length(depth + 1) \in Nat \ {0}
        /\ Base + 2 * L <= roof
    BY <1>1, <1>2, <2>2, RoomBetweenHolds, Zenon DEF RoomBetween
  <2>5. SavedAt[depth] \in Nat /\ Area \in Nat
    BY <1>1, <1>2, SavedOrder, Lengths DEF Solver!Between
  <2> HIDE DEF L, roof, p, F
  <2>6. Base \in Nat /\ Base + 2 * L <= Area
    BY <2>2, <2>4, <2>5
  <2>7. /\ Tidy(p)
        /\ At(Base, L, NTT(f(depth))) \in p /\ At(Base + L, L, NTT(g(depth))) \in p
        /\ \A e \in area : e.at + e.len <= Base \/ Base + 2 * L <= e.at => e \in p
        /\ \A r \in Nat : Base + 2 * L <= r => KeepsAbove(area, p, r)
    BY <1>1, <2>3, <2>4, <2>5, <2>6, MovePairFacts DEF p
  <2>8. F \in p /\ KeepsAbove(area, p, roof)
    BY <2>2, <2>4, <2>6, <2>7
  <2>9. SavedTo(depth - 1)'
    <3>1. \A d \in 1 .. depth - 1 : d \in 1 .. depth
      BY <1>2 DEF Solver!Between
    <3>2. SavedTo(depth - 1)
      BY <1>2, <3>1, Zenon DEF Solver!SavedTo
    <3>3. depth \in 1 .. logn
      BY <1>1, <1>2 DEF Solver!Between
    <3>4. KeepsAbove(area, area', SavedAt[depth - 1])
      BY <2>1, <2>8 DEF roof
    <3>5. QED
      BY <1>1, <1>3, <3>2, <3>3, <3>4, SavedKeptBelow, Zenon
  <2>10. Pair(Base, depth)' /\ DeeperF'
    BY <1>3, <2>1, <2>7, <2>8, SameDegree, SameLevel, Zenon DEF Solver!Pair, Solver!DeeperF, F, L
  <2>11. AtMove'
    BY <1>2, <1>3, <2>9, <2>10, SameLevel, Zenon DEF Solver!AtMove
  <2>12. Tidy(area)'
    BY <2>1, <2>7, Zenon DEF Solver!Tidy
  <2>13. QED
    BY <1>3, <2>1, <2>11, <2>12 DEF Solver!SolverInv
<1>5. CASE ~Saved(depth)
  <2>1. area' = area /\ spc' = "zero"
    BY <1>5 DEF Solver!Fetch
  <2>2. AtZero'
    BY <1>2, <1>3, <1>5, <2>1, SameDegree, SameLevel, Zenon DEF Solver!AtZero, Solver!DeeperF,
       Solver!Saved
  <2>3. Tidy(area)'
    BY <1>1, <2>1, Zenon DEF Solver!Tidy
  <2>4. QED
    BY <1>3, <2>1, <2>2, <2>3 DEF Solver!SolverInv
<1>6. QED
  BY <1>4, <1>5

\* f and g are moved behind what F is lifted to, and then F behind them.
LEMMA MoveKeeps ==
    ASSUME SolverInv, Solver!Move
    PROVE  SolverInv'
<1>1. logn \in 8 .. 10 /\ Tidy(area) /\ AtMove
  BY DegreeAssumption DEF Solver!SolverInv, Solver!Move
<1>2. Between /\ DeeperF /\ Pair(Base, depth) /\ SavedTo(depth - 1) /\ ~Down
  BY <1>1 DEF Solver!AtMove, Solver!Between, Solver!Down
<1>3. logn' = logn /\ depth' = depth /\ spc' = "lift" /\ logn' \in Degrees
  BY DEF Solver!Move, Solver!SolverInv
<1> DEFINE L == Length(depth)
           D == Length(depth + 1)
           roof == SavedAt[depth - 1]
           m == MovePair(area, ft, Base, L)
           x == At(ft, L, NTT(f(depth)))
           y == At(ft + L, L, NTT(g(depth)))
           F == At(0, D, Words(TheF[depth + 1]))
           v == At(Fd, D, Words(TheF[depth + 1]))
           p == Puts(m, <<v>>)
<1>4. area' = Puts(m, <<At(Fd, D, Words(Read(m, 0, D, "int")))>>)
  BY Zenon DEF Solver!Move, Solver!Put
<1>5. /\ x.at = ft /\ x.len = L /\ y.at = ft + L /\ y.len = L
      /\ F.at = 0 /\ F.len = D /\ v.at = Fd /\ v.len = D
  BY AtFields
<1>6. /\ At(Base, L, NTT(f(depth))) \in area /\ At(Base + L, L, NTT(g(depth))) \in area
      /\ F \in area /\ Base = D
  BY <1>2 DEF Solver!Pair, Solver!DeeperF, Solver!Base
<1>7. /\ L \in Nat \ {0} /\ D \in Nat \ {0} /\ roof \in Nat /\ roof <= Area
      /\ ft \in Nat /\ D <= ft /\ Fd = ft + L + L /\ Fd + D <= roof
  BY <1>1, <1>2, RoomBetweenHolds DEF RoomBetween
<1>8. Area \in Nat
  BY <1>1, Lengths
<1>9. SavedTo(depth - 1) /\ depth \in 1 .. logn
  BY <1>1, <1>2 DEF Solver!Between
<1> HIDE DEF L, D, roof, m, x, y, F, v, p
<1>10. ft + 2 * L <= Area /\ ft + 2 * L <= roof /\ D \in Nat
  BY <1>7, <1>8
<1>11. /\ Tidy(m) /\ x \in m /\ y \in m
       /\ \A e \in area : e.at + e.len <= ft \/ ft + 2 * L <= e.at => e \in m
       /\ \A r \in Nat : ft + 2 * L <= r => KeepsAbove(area, m, r)
  BY <1>1, <1>6, <1>7, <1>8, <1>10, MovePairFacts DEF m, x, y
<1>12. F \in m /\ KeepsAbove(area, m, roof)
  BY <1>5, <1>6, <1>7, <1>10, <1>11
<1>13. Read(m, 0, D, "int") = TheF[depth + 1]
  BY <1>7, <1>11, <1>12, ReadForms, Zenon DEF F
<1>14. area' = p
  BY <1>4, <1>13, Zenon DEF p, v
<1>15. Placed(v) /\ Apart(x, v) /\ Apart(y, v) /\ v.at + v.len <= roof
  BY <1>5, <1>7, <1>8 DEF Placed, Solver!Apart
<1>16. Tidy(p) /\ v \in p /\ x \in p /\ y \in p /\ KeepsAbove(m, p, roof)
  <2>1. \A e \in {v} : e.at + e.len <= roof
    BY <1>15
  <2>2. QED
    BY <1>7, <1>8, <1>11, <1>15, <2>1, PutsOne, Zenon DEF p
<1>17. SavedTo(depth - 1)'
  BY <1>1, <1>3, <1>9, <1>12, <1>14, <1>16, KeepsOn, SavedKeptBelow, Zenon DEF roof
<1>18. Pair(ft, depth)'
  BY <1>3, <1>14, <1>16, SameDegree, SameLevel, Zenon DEF Solver!Pair, x, y, L
<1>19. (At(Fd, Length(depth + 1), Words(TheF[depth + 1])) \in area)'
  BY <1>3, <1>14, <1>16, SameDegree, SameLevel, Zenon DEF v, D
<1>20. AtLift'
  BY <1>2, <1>3, <1>17, <1>18, <1>19, SameLevel, Zenon DEF Solver!AtLift
<1>21. Tidy(area)'
  BY <1>14, <1>16, Zenon DEF Solver!Tidy
<1>22. QED
  BY <1>3, <1>20, <1>21 DEF Solver!SolverInv

\* F is lifted to the start of the area; of f and g there are the words of f.
LEMMA LiftKeeps ==
    ASSUME SolverInv, Solver!LiftF
    PROVE  SolverInv'
<1>1. logn \in 8 .. 10 /\ Tidy(area) /\ AtLift
  BY DegreeAssumption DEF Solver!SolverInv, Solver!LiftF
<1>2. Between /\ Pair(ft, depth) /\ SavedTo(depth - 1)
  BY <1>1 DEF Solver!AtLift
<1>3. logn' = logn /\ depth' = depth /\ spc' = "scale" /\ logn' \in Degrees
  BY DEF Solver!LiftF, Solver!SolverInv
<1> DEFINE L == slen * n
           D == Length(depth + 1)
           roof == SavedAt[depth - 1]
           a == At(Fd, Solver!Max({3 * n, slen}), Unset)
           b == At(ft, L, Words(f(depth)))
           c == At(gt, Solver!Max({llen, slen}), Unset)
           d == At(Ft, llen * n, Words(Unreduced(depth)))
           p == Puts(area, <<a, b, c, d>>)
<1>4. area' = Puts(area, <<a, At(ft, L, Words(Read(area, ft, L, "ntt"))), c,
                         At(Ft, llen * n, Words(Lift(Read(area, Fd, D, "int"),
                                                     Read(area, gt, L, "ntt"))))>>)
  BY Zenon DEF Solver!LiftF
<1>5. /\ a.at = Fd /\ a.len = Solver!Max({3 * n, slen}) /\ b.at = ft /\ b.len = L
      /\ c.at = gt /\ c.len = Solver!Max({llen, slen}) /\ d.at = 0 /\ d.len = llen * n
  BY AtFields DEF Solver!Ft
<1>6. /\ L \in Nat \ {0} /\ L = Length(depth) /\ D \in Nat \ {0}
      /\ roof \in Nat /\ roof <= Area
      /\ n \in Nat \ {0} /\ slen \in Nat \ {0} /\ llen \in Nat \ {0}
      /\ ft \in Nat /\ gt = ft + L /\ Fd = gt + L /\ llen * n = ft
      /\ Fd + 3 * n <= roof /\ Fd + slen <= roof /\ gt + llen <= roof /\ gt + slen <= roof
  BY <1>1, <1>2, RoomBetweenHolds, Zenon DEF RoomBetween
<1>7. Area \in Nat /\ depth \in 1 .. logn
  BY <1>1, <1>2, Lengths DEF Solver!Between
<1>8. /\ At(ft, L, NTT(f(depth))) \in area /\ At(gt, L, NTT(g(depth))) \in area
      /\ At(Fd, D, Words(TheF[depth + 1])) \in area
  BY <1>1, <1>6, Zenon DEF Solver!AtLift, Solver!Pair
<1>9. /\ Read(area, ft, L, "ntt") = f(depth) /\ Read(area, gt, L, "ntt") = g(depth)
      /\ Read(area, Fd, D, "int") = TheF[depth + 1]
  <2> HIDE DEF L, D
  <2>1. QED
    BY <1>1, <1>6, <1>8, ReadForms
<1>10. area' = p
  <2> HIDE DEF a, c, D
  <2>1. QED
    BY <1>4, <1>9, Zenon DEF p, b, d, Solver!Unreduced
<1> HIDE DEF L, D, roof, a, b, c, d, p
<1>11. /\ a.len \in {3 * n, slen} /\ c.len \in {llen, slen}
  <2>1. 3 * n \in Nat /\ slen \in Nat /\ llen \in Nat
    BY <1>6
  <2>2. QED
    BY <1>5, <2>1, MaxOfTwo
<1>12. /\ Placed(a) /\ Placed(b) /\ Placed(c) /\ Placed(d)
       /\ Apart(b, c) /\ Apart(b, d)
  BY <1>5, <1>6, <1>7, <1>11 DEF Placed, Solver!Apart
<1>13. \A e \in {a, b, c, d} : e.at + e.len <= roof
  BY <1>5, <1>6, <1>7, <1>11
<1>14. Tidy(p) /\ d \in p /\ b \in p /\ KeepsAbove(area, p, roof)
  BY <1>1, <1>6, <1>7, <1>12, <1>13, PutsFour, Zenon DEF p
<1>15. SavedTo(depth - 1)'
  BY <1>1, <1>2, <1>3, <1>7, <1>10, <1>14, SavedKeptBelow, Zenon DEF roof
<1>16. /\ (At(Ft, llen * n, Words(Unreduced(depth))) \in area)'
       /\ (At(ft, slen * n, Words(f(depth))) \in area)'
  BY <1>3, <1>10, <1>14, SameTop, SameLevel, Zenon DEF b, d, L
<1>17. AtScale'
  BY <1>2, <1>3, <1>15, <1>16, SameLevel, Zenon DEF Solver!AtScale
<1>18. Tidy(area)'
  BY <1>10, <1>14, Zenon DEF Solver!Tidy
<1>19. QED
  BY <1>3, <1>17, <1>18 DEF Solver!SolverInv

\* The reciprocal of f is where g was, or behind f with a word more.
LEMMA ScaleKeeps ==
    ASSUME SolverInv, Solver!Scale
    PROVE  SolverInv'
<1>1. logn \in 8 .. 10 /\ Tidy(area) /\ AtScale
  BY DegreeAssumption DEF Solver!SolverInv, Solver!Scale
<1>2. Between /\ SavedTo(depth - 1)
  BY <1>1 DEF Solver!AtScale
<1>3. logn' = logn /\ depth' = depth /\ spc' = "reduce" /\ logn' \in Degrees
  BY DEF Solver!Scale, Solver!SolverInv
<1> DEFINE L == slen * n
           R == 2 * n
           roof == SavedAt[depth - 1]
           x == At(ft, L, Words(f(depth)))
           F == At(Ft, llen * n, Words(Unreduced(depth)))
           k == At(rt3, R, FFT(Reciprocal(f(depth))))
           a == At(t2, (slen + 2) * n, Unset)
           b == At(ft, (slen + 1) * n, NTT(f(depth)))
           p == Puts(area, <<k>>)
           q == Puts(p, <<a, b>>)
<1>4. LET y == Read(area, ft, L, "int")
          inverse == Puts(area, <<At(rt3, R, FFT(Reciprocal(y)))>>)
      IN  area' = IF UseNTT THEN Puts(inverse, <<a, At(ft, (slen + 1) * n, NTT(y))>>)
                 ELSE inverse
  BY Zenon DEF Solver!Scale, Solver!Put
<1>5. /\ x.at = ft /\ x.len = L /\ F.at = 0 /\ F.len = llen * n
      /\ k.at = rt3 /\ k.len = R /\ a.at = t2 /\ a.len = (slen + 2) * n
      /\ b.at = ft /\ b.len = (slen + 1) * n
  BY AtFields DEF Solver!Ft
<1>6. x \in area /\ F \in area
  BY <1>1 DEF Solver!AtScale
<1>7. /\ L \in Nat \ {0} /\ R \in Nat \ {0} /\ roof \in Nat /\ roof <= Area
      /\ n \in Nat \ {0} /\ slen \in Nat \ {0} /\ llen \in Nat \ {0} /\ slen <= llen
      /\ ft \in Nat /\ gt = ft + L /\ llen * n = ft /\ (slen + 1) * n = L + n
      /\ rt3 = gt + (IF UseNTT THEN n ELSE 0) /\ rt1 = rt3 + 2 * n /\ t2 = rt1 + n
      /\ rt1 + 2 * n <= roof
      /\ UseNTT => (slen + 2) * n \in Nat /\ t2 + (slen + 2) * n <= roof
      /\ blen \in 0 .. slen - 1 /\ scale_fg = 31 * blen
  BY <1>1, <1>2, RoomBetweenHolds DEF RoomBetween
<1>8. Area \in Nat /\ depth \in 1 .. logn
  BY <1>1, <1>2, Lengths DEF Solver!Between
<1>9. Read(area, ft, L, "int") = f(depth)
  BY <1>1, <1>6, <1>7, ReadForms, Zenon
<1>10. area' = IF UseNTT THEN q ELSE p
  <2> HIDE DEF L, R, a
  <2>1. QED
    BY <1>4, <1>9, Zenon DEF p, q, k, b
<1> HIDE DEF L, R, roof, x, F, k, a, b, p, q
<1>11. Placed(k) /\ Apart(F, k) /\ Apart(x, k) /\ k.at + k.len <= roof
  BY <1>5, <1>7, <1>8 DEF Placed, Solver!Apart, R
<1>12. Tidy(p) /\ k \in p /\ x \in p /\ F \in p /\ KeepsAbove(area, p, roof)
  <2>1. \A e \in {k} : e.at + e.len <= roof
    BY <1>11
  <2>2. QED
    BY <1>1, <1>6, <1>7, <1>8, <1>11, <2>1, PutsOne, Zenon DEF p
<1>13. ASSUME UseNTT
       PROVE  Tidy(q) /\ k \in q /\ b \in q /\ F \in q /\ KeepsAbove(p, q, roof)
  <2>1. Placed(a) /\ Placed(b) /\ Apart(k, a) /\ Apart(k, b) /\ Apart(F, a) /\ Apart(F, b)
    BY <1>5, <1>7, <1>8, <1>13 DEF Placed, Solver!Apart, R
  <2>2. \A e \in {a, b} : e.at + e.len <= roof
    BY <1>5, <1>7, <1>8, <1>13
  <2>3. QED
    BY <1>7, <1>8, <1>12, <2>1, <2>2, PutsTwo, Zenon DEF q
<1>14. /\ Tidy(area') /\ k \in area' /\ F \in area' /\ KeepsAbove(area, area', roof)
       /\ IF UseNTT THEN b \in area' ELSE x \in area'
  BY <1>10, <1>12, <1>13, KeepsOn, Zenon
<1>15. SavedTo(depth - 1)'
  BY <1>1, <1>2, <1>3, <1>8, <1>14, SavedKeptBelow, Zenon DEF roof
<1>16. FGlen' = llen /\ scale' = 31 * llen
  BY DEF Solver!Scale
<1>17. /\ (\E G \in {Unreduced(depth), TheF[depth]} : At(Ft, FGlen * n, Words(G)) \in area)'
       /\ (IF UseNTT THEN At(ft, (slen + 1) * n, NTT(f(depth))) \in area
                     ELSE At(ft, slen * n, Words(f(depth))) \in area)'
       /\ (At(rt3, 2 * n, FFT(Reciprocal(f(depth)))) \in area)'
  <2>1. (\E G \in {Unreduced(depth), TheF[depth]} : At(Ft, FGlen * n, Words(G)) \in area)'
    BY <1>3, <1>14, <1>16, SameTop, SameLevel, Zenon DEF F
  <2>2. (IF UseNTT THEN At(ft, (slen + 1) * n, NTT(f(depth))) \in area
                   ELSE At(ft, slen * n, Words(f(depth))) \in area)'
    BY <1>3, <1>14, SameLevel, Zenon DEF b, x, L
  <2>3. (At(rt3, 2 * n, FFT(Reciprocal(f(depth)))) \in area)'
    BY <1>3, <1>14, SameLevel, Zenon DEF k, R
  <2>4. QED
    BY <2>1, <2>2, <2>3
<1>18. /\ FGlen' \in slen .. llen /\ scale' \in scale_fg .. 31 * llen /\ scale' \div 31 <= FGlen'
       /\ scale' # scale_fg
       /\ depth = 1 => \E turns \in 0 .. 31 * llen :
                           scale' = 31 * llen - Profile.reduce * turns
  <2>1. (31 * llen) \div 31 = llen
    BY <1>7
  <2>2. blen < llen
    BY <1>7
  <2>3. depth = 1 => scale' = 31 * llen - Profile.reduce * 0 /\ 0 \in 0 .. 31 * llen
    <3>1. Profile.reduce * 0 = 0
      BY <1>1, Lengths
    <3>2. QED
      BY <1>7, <1>16, <3>1
  <2>4. QED
    BY <1>7, <1>16, <2>1, <2>2, <2>3
<1>19. AtReduce'
  BY <1>2, <1>3, <1>15, <1>17, <1>18, SameDegree, SameLevel, Zenon DEF Solver!AtReduce
<1>20. Tidy(area)'
  BY <1>14, Zenon DEF Solver!Tidy
<1>21. QED
  BY <1>3, <1>19, <1>20 DEF Solver!SolverInv

\* What a turn makes of the number of words of F and of the scale.
LEMMA ReduceTurn ==
    ASSUME logn \in 8 .. 10, AtReduce, scale > scale_fg
    PROVE  /\ NextLen(NextScale) \in slen .. FGlen
           /\ NextScale \in scale_fg .. 31 * llen /\ NextScale \div 31 <= NextLen(NextScale)
           /\ NextScale = scale_fg => NextLen(NextScale) = slen
           /\ depth = 1 => \/ NextScale = scale_fg
                           \/ \E turns \in 0 .. 31 * llen :
                                 NextScale = 31 * llen - Profile.reduce * turns
<1>1. /\ slen \in Nat \ {0} /\ llen \in Nat \ {0} /\ Profile.reduce \in Nat \ {0}
      /\ blen \in 0 .. slen - 1 /\ scale_fg = 31 * blen
      /\ depth = 1 => blen = 0 /\ llen \in {1, 2} /\ Profile.reduce \in {9, 11, 14}
  BY RoomBetweenHolds DEF Solver!AtReduce, RoomBetween
<1>2. /\ FGlen \in slen .. llen
      /\ scale \in scale_fg .. 31 * llen /\ scale \div 31 <= FGlen
  BY DEF Solver!AtReduce
<1> DEFINE s == NextScale
           over == s - scale_fg
           w == slen + (over + 30) \div 31
<1>3. s \in Nat /\ s >= scale_fg /\ s <= scale
  BY <1>1, <1>2 DEF Solver!NextScale
<1>4. over \in Nat /\ s = 31 * blen + over
  BY <1>1, <1>3
<1>5. NextLen(s) = Solver!Min({FGlen, w})
  BY DEF Solver!NextLen
<1> HIDE DEF s
<1>6. w \in Nat /\ w >= slen /\ w >= s \div 31 /\ (s = scale_fg => w = slen)
  <2> HIDE DEF over
  <2>1. (over + 30) \div 31 \in Nat /\ (over + 30) \div 31 >= over \div 31
    BY <1>4
  <2>2. s \div 31 = blen + over \div 31
    BY <1>1, <1>4
  <2>3. s = scale_fg => over = 0
    BY <1>1, <1>3 DEF over
  <2>4. over = 0 => (over + 30) \div 31 = 0
    OBVIOUS
  <2>5. over \div 31 \in Nat
    BY <1>4
  <2> DEFINE o == (over + 30) \div 31
  <2> HIDE DEF o
  <2>6. o \in Nat /\ o >= over \div 31 /\ (s = scale_fg => o = 0)
    BY <2>1, <2>3, <2>4 DEF o
  <2>7. slen + o >= s \div 31 /\ slen + o \in Nat /\ slen + o >= slen
    BY <1>1, <2>2, <2>5, <2>6
  <2>8. QED
    BY <1>1, <2>6, <2>7 DEF o
<1> HIDE DEF w
<1>7. NextLen(s) \in {FGlen, w} /\ NextLen(s) <= FGlen /\ NextLen(s) <= w
  BY <1>2, <1>1, <1>5, <1>6, MaxOfTwo
<1>8. s \div 31 <= scale \div 31
  BY <1>1, <1>2, <1>3
<1>9. NextLen(s) \in slen .. FGlen /\ s \div 31 <= NextLen(s)
  BY <1>1, <1>2, <1>3, <1>6, <1>7, <1>8
<1>10. s = scale_fg => NextLen(s) = slen
  BY <1>1, <1>2, <1>6, <1>7
<1>11. ASSUME depth = 1, s # scale_fg
       PROVE  \E turns \in 0 .. 31 * llen : s = 31 * llen - Profile.reduce * turns
  <2>1. s = scale - Profile.reduce
    BY <1>11 DEF s, Solver!NextScale
  <2>2. PICK turns \in 0 .. 31 * llen : scale = 31 * llen - Profile.reduce * turns
    BY <1>11 DEF Solver!AtReduce
  <2>3. s = 31 * llen - Profile.reduce * (turns + 1)
    BY <1>1, <1>11, <2>1, <2>2
  <2>4. turns + 1 \in 0 .. 31 * llen
    BY <1>1, <1>3, <1>11, <2>3
  <2>5. QED
    BY <2>3, <2>4
<1>12. QED
  BY <1>1, <1>2, <1>3, <1>9, <1>10, <1>11 DEF s

\* The product of two numbers grows with the first.
LEMMA TimesMonotone ==
    ASSUME NEW a \in Nat, NEW b \in Nat, NEW c \in Nat \ {0}, a <= b
    PROVE  a * c <= b * c /\ a * c \in Nat
OBVIOUS

\* What is subtracted is a multiple of f, and k has all its words.
LEMMA SubtractedIs ==
    ASSUME logn \in 8 .. 10, Tidy(area), AtReduce
    PROVE  Subtracted = TheF[depth]
<1>1. /\ n \in Nat \ {0} /\ slen \in Nat \ {0} /\ llen \in Nat \ {0}
      /\ depth = 1 => /\ blen = 0 /\ ~UseNTT /\ llen \in {1, 2} /\ slen = 1
                      /\ Profile.reduce \in {9, 11, 14}
      /\ scale_fg = 31 * blen /\ slen * n \in Nat \ {0} /\ (slen + 1) * n \in Nat \ {0}
  <2>1. RoomBetween
    BY RoomBetweenHolds DEF Solver!AtReduce
  <2>2. QED
    BY <2>1 DEF RoomBetween
<1>2. /\ FGlen \in slen .. llen /\ scale \div 31 <= FGlen
      /\ scale \in scale_fg .. 31 * llen
      /\ scale = scale_fg => FGlen = slen
      /\ depth = 1 => \/ scale = scale_fg
                      \/ \E turns \in 0 .. 31 * llen : scale = 31 * llen - Profile.reduce * turns
  BY DEF Solver!AtReduce
<1>3. EnoughWords
  <2>1. depth = 1 => FGlen \in {1, 2}
    BY <1>1, <1>2
  <2>2. ASSUME depth = 1, FGlen = 2 PROVE (scale - scale_fg) % 32 # 0
    <3>1. scale_fg = 0 /\ llen = 2 /\ scale # 0 /\ scale \in 0 .. 62
      BY <1>1, <1>2, <2>2
    <3>2. PICK turns \in 0 .. 62 : scale = 62 - Profile.reduce * turns
      BY <1>2, <2>2, <3>1
    <3>3. scale # 32
      <4>1. CASE Profile.reduce = 9
        BY <3>2, <4>1
      <4>2. CASE Profile.reduce = 11
        BY <3>2, <4>2
      <4>3. CASE Profile.reduce = 14
        BY <3>2, <4>3
      <4>4. QED
        BY <1>1, <2>2, <4>1, <4>2, <4>3
    <3>4. QED
      BY <3>1, <3>3
  <2>3. QED
    BY <1>2, <2>1, <2>2 DEF Solver!EnoughWords
<1>4. FGlen * n \in Nat \ {0} /\ 2 * n \in Nat \ {0}
  <2>1. FGlen \in Nat \ {0}
    BY <1>1, <1>2
  <2>2. QED
    BY <1>1, <2>1
<1>5. PICK F \in {Unreduced(depth), TheF[depth]} : At(Ft, FGlen * n, Words(F)) \in area
  BY DEF Solver!AtReduce
<1>6. Read(area, Ft, FGlen * n, "int") = F
  BY <1>4, <1>5, ReadForms
<1>7. Read(area, rt3, 2 * n, "fft") = Reciprocal(f(depth))
  BY <1>4, ReadForms DEF Solver!AtReduce
<1>8. (IF depth = 1 THEN HalfDegree(f(0))
       ELSE IF UseNTT THEN Read(area, ft, (slen + 1) * n, "ntt")
       ELSE Read(area, ft, slen * n, "int")) = f(depth)
  <2>1. CASE depth = 1
    <3>1. HalfDegree(f(0)) = f(0 + 1) /\ 0 + 1 = 1
      BY HalfDegreeOf
    <3>2. QED
      BY <2>1, <3>1
  <2>2. CASE depth # 1 /\ UseNTT
    <3>1. At(ft, (slen + 1) * n, NTT(f(depth))) \in area
      BY <2>2 DEF Solver!AtReduce
    <3>2. QED
      BY <1>1, <2>2, <3>1, ReadForms
  <2>3. CASE depth # 1 /\ ~UseNTT
    <3>1. At(ft, slen * n, Words(f(depth))) \in area
      BY <2>3 DEF Solver!AtReduce
    <3>2. QED
      BY <1>1, <2>3, <3>1, ReadForms
  <2>4. QED
    BY <2>1, <2>2, <2>3
<1>9. Subtracted = Subtract(F, Reciprocal(f(depth)), f(depth))
  BY <1>3, <1>6, <1>7, <1>8, Zenon DEF Solver!Subtracted
<1>10. TheF[depth] = Subtract(Unreduced(depth), Reciprocal(f(depth)), f(depth))
  BY TheFLoop, Zenon DEF Solver!AtReduce, Solver!Between, Solver!Unreduced
<1>11. Subtract(TheF[depth], Reciprocal(f(depth)), f(depth)) = TheF[depth]
  BY <1>10, SubtractAgain, Zenon DEF Solver!Unreduced
<1>12. QED
  BY <1>5, <1>9, <1>10, <1>11

\* F is reduced, with as many words as it has then; in the end those of f.
LEMMA ReduceKeeps ==
    ASSUME SolverInv, Solver!Reduce
    PROVE  SolverInv'
<1>1. logn \in 8 .. 10 /\ Tidy(area) /\ AtReduce
  BY DegreeAssumption DEF Solver!SolverInv, Solver!Reduce
<1>2. Between /\ SavedTo(depth - 1)
  BY <1>1 DEF Solver!AtReduce
<1>3. logn' = logn /\ logn' \in Degrees
  BY DEF Solver!Reduce, Solver!SolverInv
<1> DEFINE L == slen * n
           R == 2 * n
           V == SubtractRoom
           roof == SavedAt[depth - 1]
           a == At(rt1, R, Unset)
           b == At(t2, V, Unset)
           F == At(Ft, FGlen' * n, Words(TheF[depth]))
           k == At(rt3, R, FFT(Reciprocal(f(depth))))
           x == At(ft, L, Words(f(depth)))
           y == At(ft, (slen + 1) * n, NTT(f(depth)))
           p == Puts(area, <<a, b>>)
           q == Puts(p, <<F>>)
<1>4. area' = q
  <2>1. Subtracted = TheF[depth]
    BY <1>1, SubtractedIs
  <2>2. area' = Put(p, Ft, FGlen' * n, Words(Subtracted))
    BY Zenon DEF Solver!Reduce
  <2> HIDE DEF p
  <2>3. QED
    BY <2>1, <2>2, Zenon DEF Solver!Put
<1>5. /\ a.at = rt1 /\ a.len = R /\ b.at = t2 /\ b.len = V /\ F.at = 0 /\ F.len = FGlen' * n
      /\ k.at = rt3 /\ k.len = R /\ x.at = ft /\ x.len = L /\ y.at = ft /\ y.len = (slen + 1) * n
  BY AtFields DEF Solver!Ft
<1>6. k \in area /\ IF UseNTT THEN y \in area ELSE x \in area
  BY <1>1 DEF Solver!AtReduce
<1>7. /\ L \in Nat \ {0} /\ L = Length(depth) /\ R \in Nat \ {0} /\ roof \in Nat /\ roof <= Area
      /\ n \in Nat \ {0} /\ slen \in Nat \ {0} /\ llen \in Nat \ {0} /\ slen <= llen
      /\ ft \in Nat /\ gt = ft + L /\ llen * n = ft /\ (slen + 1) * n = L + n
      /\ rt3 = gt + (IF UseNTT THEN n ELSE 0) /\ rt1 = rt3 + R /\ t2 = rt1 + n
      /\ rt1 + R <= roof /\ V \in Nat /\ t2 + V <= roof
  BY <1>1, <1>2, RoomBetweenHolds DEF RoomBetween
<1>8. Area \in Nat /\ depth \in 1 .. logn /\ depth \in 1 .. logn - 1
  BY <1>1, <1>2, Lengths DEF Solver!Between
<1>9. FGlen \in slen .. llen /\ scale \in Int /\ scale_fg \in Int /\ scale >= scale_fg
  <2>1. blen \in Nat /\ scale_fg = 31 * blen
    BY <1>1, <1>2, RoomBetweenHolds DEF RoomBetween
  <2>2. FGlen \in slen .. llen /\ scale \in scale_fg .. 31 * llen
    BY <1>1 DEF Solver!AtReduce
  <2>3. QED
    BY <1>7, <2>1, <2>2
<1>10. FGlen' \in slen .. FGlen
  <2>1. CASE scale <= scale_fg
    BY <1>7, <1>9, <2>1 DEF Solver!Reduce
  <2>2. CASE scale > scale_fg
    <3>1. FGlen' = NextLen(scale') /\ scale' = NextScale
      BY <1>9, <2>2 DEF Solver!Reduce
    <3>2. QED
      BY <1>1, <2>2, <3>1, ReduceTurn
  <2>3. QED
    BY <1>9, <2>1, <2>2
<1> HIDE DEF L, R, V, roof, a, b, F, k, x, y, p, q
<1>11. FGlen' * n \in Nat /\ FGlen' * n <= ft
  <2>1. FGlen' \in Nat /\ FGlen' <= llen
    BY <1>7, <1>9, <1>10
  <2>2. FGlen' * n <= llen * n /\ FGlen' * n \in Nat
    BY <1>7, <2>1, TimesMonotone, Zenon
  <2>3. QED
    BY <1>7, <2>2
<1>12. Placed(a) /\ Placed(b) /\ Placed(F)
  BY <1>5, <1>7, <1>8, <1>11 DEF Placed
<1>13. /\ Apart(k, a) /\ Apart(k, b) /\ Apart(k, F)
       /\ IF UseNTT THEN Apart(y, a) /\ Apart(y, b) /\ Apart(y, F)
                    ELSE Apart(x, a) /\ Apart(x, b) /\ Apart(x, F)
  BY <1>5, <1>7, <1>11 DEF Solver!Apart
<1>14. (\A e \in {a, b} : e.at + e.len <= roof) /\ (\A e \in {F} : e.at + e.len <= roof)
  BY <1>5, <1>7, <1>11
<1>15. /\ Tidy(p) /\ k \in p /\ KeepsAbove(area, p, roof)
       /\ IF UseNTT THEN y \in p ELSE x \in p
  BY <1>1, <1>6, <1>7, <1>8, <1>12, <1>13, <1>14, PutsTwo, Zenon DEF p
<1>16. /\ Tidy(q) /\ k \in q /\ F \in q /\ KeepsAbove(p, q, roof)
       /\ IF UseNTT THEN y \in q ELSE x \in q
  BY <1>7, <1>8, <1>12, <1>13, <1>14, <1>15, PutsOne, Zenon DEF q
<1>17. KeepsAbove(area, area', SavedAt[depth - 1])
  BY <1>4, <1>15, <1>16, KeepsOn, Zenon DEF roof
<1>18. Tidy(area)'
  BY <1>4, <1>16, Zenon DEF Solver!Tidy
<1>19. CASE scale <= scale_fg
  <2>1. FGlen' = FGlen /\ depth' = depth - 1 /\ spc' = "fetch" /\ scale = scale_fg
    BY <1>9, <1>19 DEF Solver!Reduce
  <2>2. FGlen' * n = L /\ depth' + 1 = depth /\ depth' \in 0 .. logn - 1
    <3>1. FGlen = slen
      BY <1>1, <2>1 DEF Solver!AtReduce
    <3>2. FGlen' * n = L
      BY <2>1, <3>1 DEF L
    <3>3. QED
      BY <1>1, <1>8, <2>1, <3>2
  <2>3. DeeperF'
    BY <1>3, <1>4, <1>7, <1>16, <2>2, SameDegree, Zenon DEF Solver!DeeperF, F, Solver!Ft
  <2>4. \A d \in 1 .. depth - 1 : Saved(d)' => Pair(SavedAt[d], d)'
    <3>1. depth - 1 \in 0 .. logn - 1
      BY <1>1, <1>8
    <3>2. QED
      BY <1>1, <1>2, <1>3, <1>17, <3>1, SavedKept, Zenon
  <2>5. AtFetch'
    BY <1>3, <2>1, <2>2, <2>3, <2>4, Zenon DEF Solver!AtFetch, Solver!SavedTo
  <2>6. QED
    BY <1>3, <1>18, <2>1, <2>5 DEF Solver!SolverInv
<1>20. CASE scale > scale_fg
  <2>1. /\ scale' = NextScale /\ FGlen' = NextLen(NextScale) /\ depth' = depth /\ spc' = "reduce"
    BY <1>9, <1>20 DEF Solver!Reduce, Solver!SolverInv
  <2>2. SavedTo(depth - 1)'
    BY <1>1, <1>2, <1>3, <1>8, <1>17, <2>1, SavedKeptBelow, Zenon
  <2>3. (\E G \in {Unreduced(depth), TheF[depth]} : At(Ft, FGlen * n, Words(G)) \in area)'
    BY <1>3, <1>4, <1>16, <2>1, SameTop, SameDegree, SameLevel, Zenon DEF F
  <2>4. (IF UseNTT THEN At(ft, (slen + 1) * n, NTT(f(depth))) \in area
                   ELSE At(ft, slen * n, Words(f(depth))) \in area)'
    BY <1>3, <1>4, <1>16, <2>1, SameLevel, Zenon DEF x, y, L
  <2>5. (At(rt3, 2 * n, FFT(Reciprocal(f(depth)))) \in area)'
    BY <1>3, <1>4, <1>16, <2>1, SameLevel, Zenon DEF k, R
  <2>6. /\ FGlen' \in slen .. llen /\ scale' \in scale_fg .. 31 * llen
        /\ scale' \div 31 <= FGlen' /\ (scale' = scale_fg => FGlen' = slen)
        /\ depth = 1 => \/ scale' = scale_fg
                        \/ \E turns \in 0 .. 31 * llen :
                              scale' = 31 * llen - Profile.reduce * turns
    BY <1>1, <1>7, <1>9, <1>10, <1>20, <2>1, ReduceTurn
  <2>7. AtReduce'
    BY <1>2, <1>3, <2>1, <2>2, <2>3, <2>4, <2>5, <2>6, SameDegree, SameLevel, Zenon
       DEF Solver!AtReduce
  <2>8. QED
    BY <1>3, <1>18, <2>1, <2>7 DEF Solver!SolverInv
<1>21. QED
  BY <1>9, <1>19, <1>20

\* A step down makes the f and g of the next level from those of this one, behind
\* them, and saves them if those of the way up are not to be made again.
LEMMA MakeStepKeeps ==
    ASSUME SolverInv, Solver!MakeStep
    PROVE  SolverInv'
<1>1. logn \in 8 .. 10 /\ Tidy(area) /\ AtStep /\ level < depth
  BY DegreeAssumption DEF Solver!SolverInv, Solver!MakeStep
<1>2. /\ logn' = logn /\ depth' = depth /\ level' = level + 1 /\ spc' = "step"
      /\ logn' \in Degrees
  BY DEF Solver!MakeStep, Solver!SolverInv
<1>3. /\ Down \/ (Between /\ ~Saved(depth))
      /\ ~Down => DeeperF /\ Base = Length(depth + 1)
      /\ depth \in 1 .. logn /\ level \in 0 .. depth - 1
  <2>1. Down \/ (Between /\ ~Saved(depth))
    BY <1>1, Zenon DEF Solver!AtStep
  <2>2. ~Down => DeeperF /\ Base = Length(depth + 1)
    BY <1>1, Zenon DEF Solver!AtStep, Solver!Base
  <2>3. level \in 0 .. depth /\ depth \in 0 .. logn
    BY <1>1, <2>1 DEF Solver!AtStep, Solver!Down, Solver!Between
  <2>4. QED
    BY <1>1, <2>1, <2>2, <2>3
<1> DEFINE L == Length(level)
           M == Length(level + 1)
           W == Degree(level)
           more == IF Solver!Small(level) < Solver!Small(level + 1) THEN W ELSE 0
           roof == SavedAt[level]
           fs == Base + M + M
           t1 == fs + L + L
           moved == MovePair(area, fs, Base, L)
           F == At(0, Length(depth + 1), Words(TheF[depth + 1]))
           a == At(t1, Solver!Max({W, Solver!Small(level)}), Unset)
           b == At(t1 + W, more, Unset)
           c == At(fs, L, Words(f(level)))
           d == At(fs + L, L, Words(g(level)))
           x == At(Base, M, NTT(f(level + 1)))
           y == At(Base + M, M, NTT(g(level + 1)))
           p == Puts(moved, <<a, b, c, d, x, y>>)
           r == Puts(moved, <<a, b, At(fs, L, Words(Read(moved, fs, L, "ntt"))),
                              At(fs + L, L, Words(Read(moved, fs + L, L, "ntt"))),
                              At(Base, M, NTT(HalfDegree(Read(moved, fs, L, "ntt")))),
                              At(Base + M, M, NTT(HalfDegree(Read(moved, fs + L, L, "ntt"))))>>)
<1>4. area' = IF Down /\ Saved(level + 1) THEN MovePair(r, SavedAt[level + 1], 0, M) ELSE r
  BY <1>2, Zenon DEF Solver!MakeStep
<1>5. /\ a.at = t1 /\ a.len = Solver!Max({W, Solver!Small(level)}) /\ b.at = t1 + W /\ b.len
             = more
      /\ c.at = fs /\ c.len = L /\ d.at = fs + L /\ d.len = L
      /\ x.at = Base /\ x.len = M /\ y.at = Base + M /\ y.len = M
      /\ F.at = 0 /\ F.len = Length(depth + 1)
  BY AtFields
<1>6. /\ At(Base, L, NTT(f(level))) \in area /\ At(Base + L, L, NTT(g(level))) \in area
      /\ ~Down => F \in area
  BY <1>1, <1>3, Zenon DEF Solver!AtStep, Solver!Pair, Solver!DeeperF
<1>7. RoomStep
  BY <1>1, <1>3, RoomStepHolds, Zenon
<1>8. /\ roof \in Nat /\ roof <= Area /\ Base \in Nat
      /\ L \in Nat \ {0} /\ M \in Nat \ {0} /\ W \in Nat \ {0} /\ Solver!Small(level) \in Nat
      /\ more \in Nat /\ Base + 2 * L + 2 * M + W + more <= roof
      /\ Base + 2 * L + 2 * M + W <= roof /\ Base + 2 * L + 2 * M + Solver!Small(level) <= roof
  <2>1. /\ roof \in Nat /\ roof <= Area /\ Base \in Nat
        /\ L \in Nat \ {0} /\ M \in Nat \ {0} /\ W \in Nat \ {0} /\ Solver!Small(level) \in Nat
        /\ Base + 2 * L + 2 * M + 2 * W <= roof \/ Solver!Small(level) >= Solver!Small(level + 1)
        /\ Base + 2 * L + 2 * M + W <= roof /\ Base + 2 * L + 2 * M + Solver!Small(level) <= roof
    BY <1>7, Zenon DEF RoomStep
  <2>2. Solver!Small(level + 1) \in Nat
    <3>1. level + 1 \in 0 .. logn
      BY <1>1, <1>3
    <3>2. QED
      BY <1>1, <3>1, Lengths
  <2> HIDE DEF L, M, W, roof
  <2>3. QED
    BY <2>1, <2>2
<1>9. Down /\ Saved(level + 1) =>
         /\ SavedAt[level + 1] \in Nat
         /\ 2 * M <= SavedAt[level + 1] /\ SavedAt[level + 1] + 2 * M = roof
  BY <1>7 DEF RoomStep
<1>10. Area \in Nat /\ level \in 0 .. logn - 1 /\ level + 1 \in 1 .. depth
  BY <1>1, <1>3, Lengths
<1>11. fs = Base + 2 * M /\ t1 = Base + 2 * M + 2 * L
  BY <1>8
<1> HIDE DEF L, M, W, more, roof, fs, t1, moved, F, a, b, c, d, x, y, p, r
<1>12. /\ Tidy(moved) /\ KeepsAbove(area, moved, roof) /\ (~Down => F \in moved)
       /\ At(fs, L, NTT(f(level))) \in moved /\ At(fs + L, L, NTT(g(level))) \in moved
  <2>1. fs \in Nat /\ fs + 2 * L <= Area /\ fs + 2 * L <= roof
    BY <1>8, <1>10, <1>11
  <2>2. /\ Tidy(moved)
        /\ At(fs, L, NTT(f(level))) \in moved /\ At(fs + L, L, NTT(g(level))) \in moved
        /\ \A e \in area : e.at + e.len <= fs \/ fs + 2 * L <= e.at => e \in moved
        /\ \A s \in Nat : fs + 2 * L <= s => KeepsAbove(area, moved, s)
    BY <1>1, <1>6, <1>8, <1>10, <2>1, MovePairFacts DEF moved
  <2>3. ~Down => F.at + F.len <= fs
    BY <1>3, <1>5, <1>8, <1>11
  <2>4. QED
    BY <1>6, <1>8, <2>1, <2>2, <2>3
<1>13. Read(moved, fs, L, "ntt") = f(level) /\ Read(moved, fs + L, L, "ntt") = g(level)
  BY <1>8, <1>12, ReadForms
<1>14. HalfDegree(f(level)) = f(level + 1) /\ HalfDegree(g(level)) = g(level + 1)
  BY <1>10, HalfDegreeOf
<1>15. r = p
  BY <1>13, <1>14, Zenon DEF r, p, c, d, x, y
<1>16. a.len \in {W, Solver!Small(level)}
  BY <1>5, <1>8, MaxOfTwo
<1>17. /\ Placed(a) /\ Placed(b) /\ Placed(c) /\ Placed(d) /\ Placed(x) /\ Placed(y)
       /\ Apart(x, y)
  <2>1. Placed(a) /\ Placed(b)
    BY <1>5, <1>8, <1>10, <1>11, <1>16 DEF Placed
  <2>2. Placed(c) /\ Placed(d) /\ Placed(x) /\ Placed(y) /\ Apart(x, y)
    BY <1>5, <1>8, <1>10, <1>11 DEF Placed, Solver!Apart
  <2>3. QED
    BY <2>1, <2>2
<1>18. ~Down => /\ Apart(F, a) /\ Apart(F, b) /\ Apart(F, c) /\ Apart(F, d)
                /\ Apart(F, x) /\ Apart(F, y)
  BY <1>3, <1>5, <1>8, <1>11 DEF Solver!Apart
<1>19. \A e \in {a, b, c, d, x, y} : e.at + e.len <= roof
  BY <1>5, <1>8, <1>11, <1>16
<1>20. /\ Tidy(p) /\ x \in p /\ y \in p /\ KeepsAbove(moved, p, roof)
       /\ ~Down => F \in p
  BY <1>8, <1>10, <1>12, <1>17, <1>18, <1>19, PutsSix, Zenon DEF p
<1>21. KeepsAbove(area, p, roof)
  BY <1>12, <1>20, KeepsOn, Zenon
<1>22. CASE Down /\ Saved(level + 1)
  <2> DEFINE to == SavedAt[level + 1]
             q == MovePair(p, to, 0, M)
  <2>1. area' = q /\ Base = 0
    BY <1>4, <1>15, <1>22 DEF Solver!Base
  <2>2. /\ At(0, M, NTT(f(level + 1))) \in p /\ At(0 + M, M, NTT(g(level + 1))) \in p
        /\ x = At(0, M, NTT(f(level + 1))) /\ y = At(M, M, NTT(g(level + 1)))
    BY <1>8, <1>20, <2>1 DEF x, y
  <2>3. to \in Nat /\ to + 2 * M <= Area /\ to + 2 * M <= roof /\ 2 * M <= to
    BY <1>8, <1>9, <1>10, <1>22
  <2> HIDE DEF to, q
  <2>4. /\ Tidy(q)
        /\ At(to, M, NTT(f(level + 1))) \in q /\ At(to + M, M, NTT(g(level + 1))) \in q
        /\ \A e \in p : e.at + e.len <= to \/ to + 2 * M <= e.at => e \in q
        /\ \A s \in Nat : to + 2 * M <= s => KeepsAbove(p, q, s)
    BY <1>8, <1>10, <1>20, <2>2, <2>3, MovePairFacts DEF q
  <2>5. x \in q /\ y \in q /\ KeepsAbove(area, q, roof)
    <3>1. x \in q /\ y \in q
      BY <1>5, <1>8, <1>20, <2>1, <2>3, <2>4
    <3>2. KeepsAbove(p, q, roof)
      BY <1>8, <2>3, <2>4
    <3>3. QED
      BY <1>21, <3>1, <3>2, KeepsOn, Zenon
  <2>6. Pair(Base, level)'
    BY <1>2, <1>8, <2>1, <2>5, SameDegree, SameLevel, Zenon DEF Solver!Pair, x, y, M
  <2>7. SavedTo(level)
    BY <1>1, <1>22, Zenon DEF Solver!AtStep
  <2>8. \A e \in 1 .. level : Saved(e)' => Pair(SavedAt[e], e)'
    BY <1>1, <1>2, <1>10, <2>1, <2>5, <2>7, SavedKept, Zenon DEF roof
  <2>9. Pair(SavedAt[level], level)'
    BY <1>2, <2>1, <2>4, SameDegree, Zenon DEF Solver!Pair, to, M
  <2>10. \A e \in 1 .. level' : e \in 1 .. level \/ e = level'
    BY <1>2, <1>10
  <2>11. SavedTo(level)'
    BY <2>8, <2>9, <2>10, Zenon DEF Solver!SavedTo
  <2>12. AtStep'
    <3>1. (level \in 0 .. depth)'
      BY <1>2, <1>3
    <3>2. QED
      BY <1>2, <1>22, <2>6, <2>11, <3>1, SameLevel, Zenon DEF Solver!AtStep
  <2>13. Tidy(area)'
    BY <2>1, <2>4, Zenon DEF Solver!Tidy
  <2>14. QED
    BY <1>2, <2>12, <2>13 DEF Solver!SolverInv
<1>23. CASE ~(Down /\ Saved(level + 1))
  <2>1. area' = p
    BY <1>4, <1>15, <1>23
  <2>2. Pair(Base, level)'
    BY <1>2, <2>1, <1>20, SameDegree, SameLevel, Zenon DEF Solver!Pair, x, y, M
  <2>3. IF Down THEN SavedTo(level)' ELSE (Between /\ ~Saved(depth) /\ DeeperF)'
    <3>1. CASE Down
      <4>1. SavedTo(level)
        BY <1>1, <3>1, Zenon DEF Solver!AtStep
      <4>2. \A e \in 1 .. level : Saved(e)' => Pair(SavedAt[e], e)'
        BY <1>1, <1>2, <1>10, <1>21, <2>1, <4>1, SavedKept, Zenon DEF roof
      <4>3. ~Saved(level)'
        BY <1>2, <1>23, <3>1, SameDegree, Zenon
      <4>4. \A e \in 1 .. level' : e \in 1 .. level \/ e = level'
        BY <1>2, <1>10
      <4>5. QED
        BY <3>1, <4>2, <4>3, <4>4, Zenon DEF Solver!SavedTo
    <3>2. CASE ~Down
      <4>1. Between /\ ~Saved(depth)
        BY <1>3, <3>2
      <4>2. QED
        BY <1>2, <1>20, <2>1, <3>2, <4>1, SameDegree, SameLevel, Zenon DEF Solver!DeeperF, F,
           Solver!Saved
    <3>3. QED
      BY <3>1, <3>2
  <2>4. AtStep'
    <3>1. (level \in 0 .. depth)'
      BY <1>2, <1>3
    <3>2. QED
      BY <1>2, <2>2, <2>3, <3>1, SameLevel, Zenon DEF Solver!AtStep
  <2>5. Tidy(area)'
    BY <1>20, <2>1, Zenon DEF Solver!Tidy
  <2>6. QED
    BY <1>2, <2>4, <2>5 DEF Solver!SolverInv
<1>24. QED
  BY <1>22, <1>23

\* Every step of the solver.
LEMMA StepKeeps ==
    ASSUME SolverInv, Solver!Step
    PROVE  SolverInv'
BY MakeZeroKeeps, MakeStepKeeps, FGMadeKeeps, DeepestKeeps, FetchKeeps, MoveKeeps, LiftKeeps,
   ScaleKeeps, ReduceKeeps, TopLiftKeeps, TopQuotientKeeps, TopSubtractKeeps, ToBytesKeeps,
   MakeFormKeeps, FailKeeps, Zenon DEF Solver!Step

\* Steps that are not the solver's leave everything as it is.
LEMMA SolverKept ==
    ASSUME SolverInv, UNCHANGED solverVars
    PROVE  SolverInv'
<1>1. /\ spc' = spc /\ logn' = logn /\ depth' = depth /\ level' = level
      /\ area' = area /\ FGlen' = FGlen /\ scale' = scale
  BY DEF solverVars
<1>2. \A at, d : Pair(at, d)' <=> Pair(at, d)
  BY <1>1, PairNext, Zenon DEF Solver!Pair
<1>3. (\A top : SavedTo(top)' <=> SavedTo(top)) /\ (DeeperF' <=> DeeperF)
  BY <1>1, <1>2, SameDegree, Zenon DEF Solver!SavedTo, Solver!DeeperF
<1>4. /\ AtZero' <=> AtZero
      /\ AtStep' <=> AtStep
      /\ AtDeepest' <=> AtDeepest
      /\ AtFetch' <=> AtFetch
      /\ AtMove' <=> AtMove
  BY <1>1, <1>2, <1>3, SameDegree, SameLevel, Zenon
     DEF Solver!AtZero, Solver!AtStep, Solver!AtDeepest, Solver!AtFetch, Solver!AtMove
<1>5. AtLift' <=> AtLift
  BY <1>1, <1>2, <1>3, SameDegree, SameLevel, Zenon DEF Solver!AtLift
<1>6. AtScale' <=> AtScale
  BY <1>1, <1>3, SameDegree, SameLevel, SameTop, Zenon DEF Solver!AtScale
<1>7. AtReduce' <=> AtReduce
  BY <1>1, <1>3, SameDegree, SameLevel, SameTop, Zenon DEF Solver!AtReduce
<1>8. /\ AtQuotient' <=> AtQuotient
      /\ AtSubtract' <=> AtSubtract
      /\ AtBytes' <=> AtBytes
      /\ AtForm' <=> AtForm
  BY <1>1, SameDegree, SameTop, Zenon
     DEF Solver!AtQuotient, Solver!AtSubtract, Solver!AtBytes, Solver!AtForm
<1>9. Solved' <=> Solved
  <2>1. /\ N0' = N0 /\ TopF' = TopF /\ TopG' = TopG
        /\ U(1)' = U(1) /\ U(2)' = U(2)
    BY <1>1, SameDegree, SameTop, Zenon
  <2>2. Q(TopF, TopG)' = Q(TopF, TopG)
    BY <2>1, Zenon DEF Solver!Q
  <2>3. QED
    BY <1>1, <2>1, <2>2, Zenon DEF Solver!Solved
<1>10. (spc # "rest" => logn \in Degrees /\ Tidy(area))'
  BY <1>1 DEF Solver!SolverInv, Solver!Tidy
<1>11. QED
  BY <1>1, <1>4, <1>5, <1>6, <1>7, <1>8, <1>9, <1>10, Zenon DEF Solver!SolverInv

-----------------------------------------------------------------------------
(***************************************************************************)
(* The theorems about key generation.                                      *)
(***************************************************************************)
\* The solver's work area has, at each step of solve_NTRU(), what that step
\* reads of it at the place and in the form in which it reads it, whichever
\* steps of the caller come between, and no two polynomials of it overlap.
THEOREM SolverInvariance == ReceiveSpec => []SolverInv
<1>1. ReceiveInit => SolverInv
  BY DEF ReceiveInit, AtRest, Solver!SolverInv
<1>2. SolverInv /\ [ReceiveNext]_receiveVars => SolverInv'
  <2> SUFFICES ASSUME SolverInv, [ReceiveNext]_receiveVars
               PROVE  SolverInv'
    OBVIOUS
  <2>1. CASE UNCHANGED solverVars
    BY <2>1, SolverKept
  <2>2. ASSUME NEW k \in Degrees, Solver!Start(k) PROVE SolverInv'
    BY <2>2, StartKeeps
  <2>3. CASE Solver!Step
    BY <2>3, StepKeeps
  <2>4. CASE SolverRests
    BY <2>4 DEF SolverRests, Solver!SolverInv
  <2>5. CASE SolveNTRU
    BY <2>1, <2>2, <2>3, <2>4, <2>5, Zenon DEF SolveNTRU
  <2>6. ASSUME NEW pair \in Pairs, StartVerify(pair) PROVE SolverInv'
    BY <2>1, <2>6, Zenon DEF StartVerify, solverVars
  <2>7. CASE Verified
    BY <2>1, <2>7, Zenon DEF Verified, solverVars
  <2>8. CASE UNCHANGED receiveVars
    BY <2>1, <2>8, Zenon DEF receiveVars
  <2>9. CASE UNCHANGED <<verifyVars, solverVars>> \/ UNCHANGED <<vars, given, solverVars>>
    BY <2>1, <2>9, Zenon
  <2>10. QED
    BY <2>5, <2>6, <2>7, <2>8, <2>9, Zenon DEF ReceiveNext
<1>3. QED
  BY <1>1, <1>2, PTL DEF ReceiveSpec

\* What the solver returns is what the equation's solution is made of: the F and
\* G it leaves at the start of the area and the form that is behind them are of
\* the very f and g of each level, for every degree.
THEOREM SolverSolves == ReceiveSpec => [](spc = "formed" => Solver!Solved)
<1>1. SolverInv => (spc = "formed" => Solver!Solved)
  BY Zenon DEF Solver!SolverInv
<1>2. QED
  BY <1>1, SolverInvariance, PTL

\* Key generation's invariant: what is in the buffers is of the seed that was drawn.
THEOREM KeygenInvariance == ReceiveSpec => []KeygenInv
<1>1. ReceiveInit => KeygenInv
  BY DEF ReceiveInit, Init, KeygenInit, Empty, KeygenInv
<1>2. KeygenInv /\ (spc = "formed" => Solver!Solved) /\ [ReceiveNext]_receiveVars => KeygenInv'
  <2> SUFFICES ASSUME KeygenInv, spc = "formed" => Solver!Solved, [ReceiveNext]_receiveVars
               PROVE  KeygenInv'
    OBVIOUS
  <2>1. CASE KeygenStep
    BY <2>1, KeygenStepKept
  <2>2. CASE SolveNTRU
    BY <2>2, SolveKept
  <2>3. CASE Forget
    BY <2>3 DEF Forget, Empty, KeygenInv
  <2>4. ASSUME NEW a \in {"hawk", "e8"}, Start(a) PROVE KeygenInv'
    BY <2>4 DEF Start, Goto, KeygenInv
  <2>5. CASE Arrive
    <3>1. UNCHANGED <<api, own>> /\ pc' = "received"
      BY <2>5 DEF Arrive, ReceiveKey, ReceiveSignature, SendSignature, Receive
    <3>2. QED
      BY <3>1, KeygenRests
  <2>6. CASE Received
    BY <2>6, KeygenRests DEF Received
  <2>7. CASE Next
    BY <2>1, <2>3, <2>4, <2>5, <2>6, <2>7 DEF Next, MakeKeys
  <2>8. ASSUME NEW pair \in Pairs, StartVerify(pair) PROVE KeygenInv'
    BY <2>8, KeygenRests DEF StartVerify
  <2>9. CASE Verified
    BY <2>9, KeygenRests DEF Verified
  <2>10. CASE UNCHANGED vars
    BY <2>10 DEF vars, keygenVars, KeygenInv
  <2>11. CASE UNCHANGED receiveVars
    BY <2>10, <2>11 DEF receiveVars
  <2>12. QED
    BY <2>2, <2>7, <2>8, <2>9, <2>10, <2>11 DEF ReceiveNext
<1>3. QED
  BY <1>1, <1>2, SolverSolves, PTL DEF ReceiveSpec

\* A key pair is made of one seed, and the receiver of a HAWK key decodes the
\* very form that its f, g, F and G have.
THEOREM KeysOfOneSeed == ReceiveSpec => []KeysConsistent
<1>1. KeygenInv => KeysConsistent
  BY KeygenConsistent
<1>2. QED
  BY <1>1, KeygenInvariance, PTL
=============================================================================
