---------------------------- MODULE DataTheorems ----------------------------
(***************************************************************************)
(* Facts about ranges, sums and loops, and about the Golomb-Rice code.     *)
(* The ranges that are cut for t workers tile what is sampled.  What       *)
(* SumFunctionOnSet of module Functions computes, for natural numbers, is  *)
(* the number of unit squares under the function; from that follow the     *)
(* facts about sums.  A loop that is written as a recursive function has   *)
(* its states, one for each turn.  What encode_gr() makes of a vector is   *)
(* read back by decode_gr(), and that accepts nothing else, for every      *)
(* vector, number of low bits and limit.                                   *)
(***************************************************************************)
EXTENDS BitCode, SequenceTheorems, FiniteSetTheorems, WellFoundedInduction, TLAPS

\* Where the range of worker w starts when n things are cut for t workers.
Cut(n, t, w) == (n * w) \div t

\* As many units of x, for each x of S, as f[x] says.
Units(f, S) == {p \in S \X Nat : 1 <= p[2] /\ p[2] <= f[p[1]]}

\* The recursion that SumFunctionOnSet makes over the subsets of S.
SumOverSubsets(f, S, g) ==
    g = [T \in SUBSET S |->
           IF T = {} THEN 0
           ELSE f[CHOOSE x \in T : TRUE] + g[T \ {CHOOSE x \in T : TRUE}]]

-----------------------------------------------------------------------------
(***************************************************************************)
(* The ranges.                                                             *)
(***************************************************************************)
\* Arithmetic that the provers take in small steps.
LEMMA MulMono ==
    ASSUME NEW a \in Nat, NEW b \in Nat, NEW k \in Nat, a <= b
    PROVE  k * a <= k * b /\ k * a \in Nat /\ k * b \in Nat
OBVIOUS

\* A quotient is below a bound when the dividend is below the product.
LEMMA DivBounds ==
    ASSUME NEW x \in Nat, NEW t \in Nat \ {0}, NEW q \in Nat
    PROVE  /\ x \div t \in Nat
           /\ x < t * q <=> x \div t < q
           /\ q <= x \div t <=> t * q <= x
OBVIOUS

\* Division is monotonic.
LEMMA DivMono ==
    ASSUME NEW a \in Nat, NEW b \in Nat, NEW t \in Nat \ {0}, a <= b
    PROVE  a \div t <= b \div t
OBVIOUS

\* Division undoes multiplication.
LEMMA Cancel ==
    ASSUME NEW k \in Nat, NEW t \in Nat \ {0}
    PROVE  (k * t) \div t = k
OBVIOUS

\* The ranges start at 0, end at n, and follow each other.
LEMMA CutFacts ==
    ASSUME NEW n \in Nat, NEW t \in Nat \ {0}
    PROVE  /\ \A u \in Nat : Cut(n, t, u) \in Nat
           /\ \A u, v \in Nat : u <= v => Cut(n, t, u) <= Cut(n, t, v)
           /\ Cut(n, t, 0) = 0
           /\ Cut(n, t, t) = n
<1>1. ASSUME NEW u \in Nat
      PROVE  Cut(n, t, u) \in Nat
  <2>1. n * u \in Nat
    BY MulMono
  <2>2. QED
    BY <2>1, DivBounds DEF Cut
<1>2. ASSUME NEW u \in Nat, NEW v \in Nat, u <= v
      PROVE  Cut(n, t, u) <= Cut(n, t, v)
  <2>1. n * u \in Nat /\ n * v \in Nat /\ n * u <= n * v
    BY <1>2, MulMono
  <2>2. QED
    BY <2>1, DivMono DEF Cut
<1>3. Cut(n, t, 0) = 0
  BY DEF Cut
<1>4. Cut(n, t, t) = n
  BY Cancel DEF Cut
<1>5. QED
  BY <1>1, <1>2, <1>3, <1>4

\* Everything below n is in a range.
LEMMA CutOwner ==
    ASSUME NEW n \in Nat \ {0}, NEW t \in Nat \ {0}, NEW r \in 0 .. n - 1
    PROVE  \E w \in 0 .. t - 1 : Cut(n, t, w) <= r /\ r < Cut(n, t, w + 1)
<1> DEFINE x == t * (r + 1) - 1
           w == x \div n
<1>1. r \in Nat /\ r + 1 <= n
  OBVIOUS
<1>2. /\ t * (r + 1) \in Nat /\ t * n \in Nat
      /\ t * (r + 1) <= t * n
  BY <1>1, MulMono
<1>3. t * (r + 1) >= 1
  BY <1>1
<1>4. x \in Nat /\ x < n * t
  BY <1>2, <1>3
<1> HIDE DEF x
<1>5. w \in Nat /\ w < t
  BY <1>4, DivBounds
<1>6. n * w <= x
  BY <1>4, <1>5, DivBounds
<1>7. x < n * (w + 1)
  <2>1. w + 1 \in Nat /\ x \div n < w + 1
    BY <1>5
  <2>2. QED
    BY <1>4, <2>1, DivBounds
<1> HIDE DEF w
<1>8. Cut(n, t, w) < r + 1
  <2>1. n * w \in Nat /\ n * w < t * (r + 1)
    BY <1>2, <1>5, <1>6, MulMono DEF x
  <2>2. QED
    BY <1>1, <2>1, DivBounds DEF Cut
<1>9. r + 1 <= Cut(n, t, w + 1)
  <2>1. /\ n * (w + 1) \in Nat
        /\ t * (r + 1) <= n * (w + 1)
    <3>1. n * (w + 1) \in Nat
      BY <1>5, MulMono
    <3>2. QED
      BY <1>2, <1>7, <3>1 DEF x
  <2>2. QED
    BY <1>1, <1>5, <2>1, DivBounds DEF Cut
<1>10. Cut(n, t, w) \in Nat /\ Cut(n, t, w + 1) \in Nat
  <2>1. \A v \in Nat : Cut(n, t, v) \in Nat
    BY CutFacts
  <2>2. QED
    BY <1>5, <2>1
<1>11. QED
  BY <1>1, <1>5, <1>8, <1>9, <1>10

-----------------------------------------------------------------------------
(***************************************************************************)
(* Units.                                                                  *)
(***************************************************************************)
\* One element more or less.
LEMMA UnitsOfOne ==
    ASSUME NEW x, NEW f, f[x] \in Nat
    PROVE  /\ IsFiniteSet(Units(f, {x}))
           /\ Cardinality(Units(f, {x})) = f[x]
<1> DEFINE place == [i \in 1 .. f[x] |-> <<x, i>>]
<1>1. place \in Bijection(1 .. f[x], Units(f, {x}))
  <2>1. \A i \in 1 .. f[x] : place[i] \in Units(f, {x})
    BY DEF Units
  <2>2. \A p \in Units(f, {x}) : p[2] \in 1 .. f[x] /\ place[p[2]] = p
    BY DEF Units
  <2>3. \A i, j \in 1 .. f[x] : place[i] = place[j] => i = j
    OBVIOUS
  <2>4. place \in [1 .. f[x] -> Units(f, {x})]
    BY <2>1
  <2> HIDE DEF place
  <2>5. QED
    BY <2>2, <2>3, <2>4 DEF Bijection, Injection, Surjection, IsInjective
<1>2. ExistsBijection(1 .. f[x], Units(f, {x}))
  BY <1>1 DEF ExistsBijection
<1>3. IsFiniteSet(1 .. f[x]) /\ Cardinality(1 .. f[x]) = f[x]
  BY FS_Interval
<1>4. QED
  BY <1>2, <1>3, FS_Bijection

\* The units of two sets without a common element.
LEMMA UnitsOfUnion ==
    ASSUME NEW S, NEW T, S \cap T = {}, NEW f,
           IsFiniteSet(Units(f, S)), IsFiniteSet(Units(f, T))
    PROVE  /\ IsFiniteSet(Units(f, S \cup T))
           /\ Cardinality(Units(f, S \cup T)) =
                 Cardinality(Units(f, S)) + Cardinality(Units(f, T))
<1>1. Units(f, S \cup T) = Units(f, S) \cup Units(f, T)
  BY DEF Units
<1>2. Units(f, S) \cap Units(f, T) = {}
  BY DEF Units
<1>3. /\ Cardinality(Units(f, S)) \in Nat
      /\ Cardinality(Units(f, T)) \in Nat
  BY FS_CardinalityType
<1>4. /\ IsFiniteSet(Units(f, S) \cup Units(f, T))
      /\ Cardinality(Units(f, S) \cup Units(f, T)) =
            Cardinality(Units(f, S)) + Cardinality(Units(f, T)) - Cardinality({})
  BY <1>2, FS_Union
<1>5. Cardinality({}) = 0
  BY FS_EmptySet
<1>6. Cardinality(Units(f, S) \cup Units(f, T)) =
         Cardinality(Units(f, S)) + Cardinality(Units(f, T))
  BY <1>3, <1>4, <1>5
<1>7. QED
  BY <1>1, <1>4, <1>6, Zenon

\* The empty set has no units.
LEMMA UnitsOfNone ==
    ASSUME NEW f
    PROVE  IsFiniteSet(Units(f, {})) /\ Cardinality(Units(f, {})) = 0
<1>1. Units(f, {}) = {}
  BY DEF Units
<1>2. QED
  BY <1>1, FS_EmptySet

\* A subset of a finite set that is smallest among those of a collection.
LEMMA LeastSubset ==
    ASSUME NEW S, IsFiniteSet(S), NEW C \in SUBSET (SUBSET S), C # {}
    PROVE  \E T \in C : \A x \in T : T \ {x} \notin C
<1>1. IsWellFoundedOn(StrictSubsetOrdering(S), SUBSET S)
  BY FS_StrictSubsetOrderingWellFounded, FS_FiniteSubsetsOfFinite
<1>2. PICK T \in C : \A U \in C : <<U, T>> \notin StrictSubsetOrdering(S)
  BY <1>1, WFMin
<1>3. ASSUME NEW x \in T, T \ {x} \in C
      PROVE  FALSE
  <2>1. <<T \ {x}, T>> \in StrictSubsetOrdering(S)
    BY DEF StrictSubsetOrdering
  <2>2. QED
    BY <1>2, <1>3, <2>1
<1>4. QED
  BY <1>3

\* The units of a subset, by those of the subset with an element less.
LEMMA UnitsOfRest ==
    ASSUME NEW T, NEW x \in T, NEW f, f[x] \in Nat,
           IsFiniteSet(Units(f, T \ {x}))
    PROVE  /\ IsFiniteSet(Units(f, T))
           /\ Cardinality(Units(f, T)) = f[x] + Cardinality(Units(f, T \ {x}))
<1>1. (T \ {x}) \cap {x} = {} /\ T = (T \ {x}) \cup {x}
  OBVIOUS
<1>2. Cardinality(Units(f, T \ {x})) \in Nat
  BY FS_CardinalityType
<1>3. /\ IsFiniteSet(Units(f, (T \ {x}) \cup {x}))
      /\ Cardinality(Units(f, (T \ {x}) \cup {x})) =
            Cardinality(Units(f, T \ {x})) + f[x]
  <2>1. IsFiniteSet(Units(f, {x})) /\ Cardinality(Units(f, {x})) = f[x]
    BY UnitsOfOne
  <2>2. QED
    BY <1>1, <2>1, UnitsOfUnion, SMTT(30)
<1>4. QED
  BY <1>1, <1>2, <1>3

\* A finite set has finitely many units.
LEMMA UnitsFinite ==
    ASSUME NEW S, IsFiniteSet(S), NEW f, \A x \in S : f[x] \in Nat
    PROVE  \A T \in SUBSET S : IsFiniteSet(Units(f, T))
<1> DEFINE C == {T \in SUBSET S : ~IsFiniteSet(Units(f, T))}
<1>1. SUFFICES ASSUME C # {} PROVE FALSE
  OBVIOUS
<1>2. PICK T \in C : \A x \in T : T \ {x} \notin C
  BY <1>1, LeastSubset
<1>3. CASE T = {}
  BY <1>3, UnitsOfNone
<1>4. CASE T # {}
  <2>1. PICK x \in T : TRUE
    BY <1>4
  <2>2. IsFiniteSet(Units(f, T \ {x}))
    BY <1>2
  <2>3. QED
    BY <2>2, UnitsOfRest
<1>5. QED
  BY <1>3, <1>4

-----------------------------------------------------------------------------
\* The sum is the number of units.
LEMMA SumIsUnits ==
    ASSUME NEW S, IsFiniteSet(S), NEW f, \A x \in S : f[x] \in Nat
    PROVE  SumFunctionOnSet(f, S) = Cardinality(Units(f, S))
<1> DEFINE first(T) == CHOOSE x \in T : TRUE
           count == [T \in SUBSET S |-> Cardinality(Units(f, T))]
<1>1. \A T \in SUBSET S : T # {} =>
         /\ first(T) \in T /\ T \ {first(T)} \in SUBSET S
         /\ Cardinality(Units(f, T)) =
               f[first(T)] + Cardinality(Units(f, T \ {first(T)}))
  <2> SUFFICES ASSUME NEW T \in SUBSET S, T # {}
               PROVE  /\ first(T) \in T /\ T \ {first(T)} \in SUBSET S
                      /\ Cardinality(Units(f, T)) =
                            f[first(T)] + Cardinality(Units(f, T \ {first(T)}))
    OBVIOUS
  <2>1. first(T) \in T
    OBVIOUS
  <2>2. IsFiniteSet(Units(f, T \ {first(T)}))
    BY UnitsFinite
  <2> HIDE DEF first
  <2>3. QED
    BY <2>1, <2>2, UnitsOfRest
<1>2. SumOverSubsets(f, S, count)
  <2>1. \A T \in SUBSET S :
           count[T] = IF T = {} THEN 0 ELSE f[first(T)] + count[T \ {first(T)}]
    BY <1>1, UnitsOfNone
  <2>2. count = [T \in SUBSET S |-> count[T]]
    OBVIOUS
  <2> HIDE DEF count
  <2>3. count = [T \in SUBSET S |->
                   IF T = {} THEN 0 ELSE f[first(T)] + count[T \ {first(T)}]]
    BY <2>1, <2>2, Zenon
  <2>4. QED
    BY <2>3 DEF SumOverSubsets
<1> DEFINE g == CHOOSE h : SumOverSubsets(f, S, h)
<1>3. SumOverSubsets(f, S, g)
  BY <1>2
<1>4. SumFunctionOnSet(f, S) = g[S]
  BY Zenon DEF SumFunctionOnSet, FoldFunctionOnSet, MapThenFoldSet, SumOverSubsets
<1> HIDE DEF g
<1>5. \A T \in SUBSET S :
         g[T] = IF T = {} THEN 0 ELSE f[first(T)] + g[T \ {first(T)}]
  BY <1>3 DEF SumOverSubsets
<1> HIDE DEF first
<1> DEFINE C == {T \in SUBSET S : g[T] # Cardinality(Units(f, T))}
<1>6. ASSUME C # {} PROVE FALSE
  <2>1. PICK T \in C : \A x \in T : T \ {x} \notin C
    BY <1>6, LeastSubset
  <2>2. T # {}
    BY <1>5, UnitsOfNone
  <2>3. /\ g[T] = f[first(T)] + g[T \ {first(T)}]
        /\ g[T \ {first(T)}] = Cardinality(Units(f, T \ {first(T)}))
    BY <1>1, <1>5, <2>1, <2>2
  <2>4. QED
    BY <1>1, <2>1, <2>2, <2>3
<1>7. QED
  BY <1>4, <1>6

-----------------------------------------------------------------------------
(***************************************************************************)
(* Facts about sums.                                                       *)
(***************************************************************************)
\* The sum over nothing.
LEMMA SumOfNone == \A f : SumFunctionOnSet(f, {}) = 0
BY SumIsUnits, UnitsOfNone, FS_EmptySet

\* A sum of naturals is one.
LEMMA SumType ==
    ASSUME NEW S, IsFiniteSet(S), NEW f, \A x \in S : f[x] \in Nat
    PROVE  SumFunctionOnSet(f, S) \in Nat
<1>1. IsFiniteSet(Units(f, S))
  BY UnitsFinite
<1>2. QED
  BY <1>1, SumIsUnits, FS_CardinalityType

\* Two sets without a common element.
LEMMA SumUnion ==
    ASSUME NEW S, IsFiniteSet(S), NEW T, IsFiniteSet(T), S \cap T = {},
           NEW f, \A x \in S \cup T : f[x] \in Nat
    PROVE  SumFunctionOnSet(f, S \cup T) =
              SumFunctionOnSet(f, S) + SumFunctionOnSet(f, T)
<1>1. IsFiniteSet(Units(f, S)) /\ IsFiniteSet(Units(f, T))
  BY UnitsFinite
<1>2. Cardinality(Units(f, S \cup T)) =
         Cardinality(Units(f, S)) + Cardinality(Units(f, T))
  BY <1>1, UnitsOfUnion
<1>3. IsFiniteSet(S \cup T)
  BY FS_Union
<1>4. SumFunctionOnSet(f, S \cup T) = Cardinality(Units(f, S \cup T))
  BY <1>3, SumIsUnits
<1>5. /\ SumFunctionOnSet(f, S) = Cardinality(Units(f, S))
      /\ SumFunctionOnSet(f, T) = Cardinality(Units(f, T))
  BY SumIsUnits
<1>6. QED
  BY <1>2, <1>4, <1>5

\* One element more.
LEMMA SumAdd ==
    ASSUME NEW S, IsFiniteSet(S), NEW x, x \notin S,
           NEW f, f[x] \in Nat, \A y \in S : f[y] \in Nat
    PROVE  SumFunctionOnSet(f, S \cup {x}) = SumFunctionOnSet(f, S) + f[x]
<1>1. IsFiniteSet({x})
  BY FS_Singleton
<1>2. SumFunctionOnSet(f, {x}) = f[x]
  BY <1>1, SumIsUnits, UnitsOfOne
<1>3. SumFunctionOnSet(f, S \cup {x}) =
         SumFunctionOnSet(f, S) + SumFunctionOnSet(f, {x})
  BY <1>1, SumUnion
<1>4. QED
  BY <1>2, <1>3

\* A part is not larger than the whole.
LEMMA SumPart ==
    ASSUME NEW S, IsFiniteSet(S), NEW T \in SUBSET S,
           NEW f, \A x \in S : f[x] \in Nat
    PROVE  SumFunctionOnSet(f, T) <= SumFunctionOnSet(f, S)
<1>1. IsFiniteSet(T) /\ IsFiniteSet(S \ T)
  BY FS_Subset
<1>2. T \cap (S \ T) = {} /\ T \cup (S \ T) = S
  OBVIOUS
<1>3. SumFunctionOnSet(f, T \cup (S \ T)) =
         SumFunctionOnSet(f, T) + SumFunctionOnSet(f, S \ T)
  BY <1>1, <1>2, SumUnion
<1>4. SumFunctionOnSet(f, T) \in Nat /\ SumFunctionOnSet(f, S \ T) \in Nat
  BY <1>1, SumType
<1>5. SumFunctionOnSet(f, S) =
         SumFunctionOnSet(f, T) + SumFunctionOnSet(f, S \ T)
  BY <1>2, <1>3, Zenon
<1>6. QED
  BY <1>4, <1>5

\* Only the values at the elements matter.
LEMMA SumAgree ==
    ASSUME NEW S, IsFiniteSet(S), NEW f, NEW g,
           \A x \in S : f[x] \in Nat /\ f[x] = g[x]
    PROVE  SumFunctionOnSet(f, S) = SumFunctionOnSet(g, S)
<1>1. Units(f, S) = Units(g, S)
  BY DEF Units
<1>2. QED
  BY <1>1, SumIsUnits

\* The sum over no interval.
LEMMA SumEmpty ==
    ASSUME NEW f, NEW a \in Int
    PROVE  SumFunctionOnSet(f, a .. a - 1) = 0
<1>1. a .. a - 1 = {}
  OBVIOUS
<1>2. SumFunctionOnSet(f, {}) = 0
  BY SumOfNone
<1>3. QED
  BY <1>1, <1>2, Zenon

\* Only the values in the interval matter.
LEMMA SumSame ==
    ASSUME NEW a \in Int, NEW b \in Int, NEW f, NEW g,
           \A v \in a .. b - 1 : f[v] \in Nat /\ f[v] = g[v]
    PROVE  SumFunctionOnSet(f, a .. b - 1) = SumFunctionOnSet(g, a .. b - 1)
<1>1. IsFiniteSet(a .. b - 1)
  BY FS_Interval
<1>2. QED
  BY <1>1, SumAgree

\* The sum over an interval that gets one longer.
LEMMA SumNext ==
    ASSUME NEW a \in Int, NEW b \in Int, a <= b,
           NEW f, \A v \in a .. b : f[v] \in Nat
    PROVE  SumFunctionOnSet(f, a .. b) = SumFunctionOnSet(f, a .. b - 1) + f[b]
<1>1. IsFiniteSet(a .. b - 1)
  BY FS_Interval
<1>2. b \notin a .. b - 1 /\ a .. b = (a .. b - 1) \cup {b}
  OBVIOUS
<1>3. SumFunctionOnSet(f, (a .. b - 1) \cup {b}) =
         SumFunctionOnSet(f, a .. b - 1) + f[b]
  BY <1>1, <1>2, SumAdd
<1>4. QED
  BY <1>2, <1>3, Zenon

\* The sums over two intervals, the second where the first ends.
LEMMA SumJoin ==
    ASSUME NEW a \in Int, NEW b \in Int, NEW c \in Int, a <= b, b <= c,
           NEW f, \A v \in a .. c - 1 : f[v] \in Nat
    PROVE  SumFunctionOnSet(f, a .. c - 1) =
              SumFunctionOnSet(f, a .. b - 1) + SumFunctionOnSet(f, b .. c - 1)
<1>1. IsFiniteSet(a .. b - 1) /\ IsFiniteSet(b .. c - 1)
  BY FS_Interval
<1>2. /\ (a .. b - 1) \cap (b .. c - 1) = {}
      /\ a .. c - 1 = (a .. b - 1) \cup (b .. c - 1)
  OBVIOUS
<1>3. \A v \in (a .. b - 1) \cup (b .. c - 1) : f[v] \in Nat
  OBVIOUS
<1>4. SumFunctionOnSet(f, (a .. b - 1) \cup (b .. c - 1)) =
         SumFunctionOnSet(f, a .. b - 1) + SumFunctionOnSet(f, b .. c - 1)
  BY <1>1, <1>2, <1>3, SumUnion
<1>5. QED
  BY <1>2, <1>4, Zenon
-----------------------------------------------------------------------------
(***************************************************************************)
(* Loops.                                                                  *)
(***************************************************************************)
\* Of a set of naturals that has an element, one is the least.
LEMMA LeastNatural ==
    ASSUME NEW T, T \subseteq Nat, T # {}
    PROVE  \E x \in T : \A y \in T : x <= y
<1>1. \E x \in T : \A y \in T : <<y, x>> \notin OpToRel(<, Nat)
  BY NatLessThanWellFounded, WFMin
<1>2. PICK x \in T : \A y \in T : <<y, x>> \notin OpToRel(<, Nat)
  BY <1>1
<1>3. \A y \in T : ~(y < x)
  BY <1>2 DEF OpToRel
<1>4. QED
  BY <1>3

\* What holds before the first turn of a loop, and is kept by a turn, holds
\* after each: G are the turns after which it does.
LEMMA EveryTurn ==
    ASSUME NEW L \in Nat, NEW G, 0 \in G, \A n \in 1 .. L : n - 1 \in G => n \in G
    PROVE  \A n \in 0 .. L : n \in G
<1> DEFINE Bad == {n \in 0 .. L : n \notin G}
<1>1. ASSUME Bad # {} PROVE FALSE
  <2>1. PICK n \in Bad : \A k \in Bad : n <= k
    <3>1. Bad \subseteq Nat
      OBVIOUS
    <3> HIDE DEF Bad
    <3>2. QED
      BY <1>1, <3>1, LeastNatural
  <2>2. n \in 1 .. L /\ n - 1 \in 0 .. L /\ n - 1 \notin Bad
    BY <2>1
  <2>3. QED
    BY <2>1, <2>2
<1>2. QED
  BY <1>1

\* A loop of L turns, from a state to a state of T, has its states.
LoopStates(base, L, F, g) ==
    g = [n \in 0 .. L |-> IF n = 0 THEN base ELSE F[n][g[n - 1]]]

LEMMA LoopExists ==
    ASSUME NEW T, NEW base \in T, NEW L \in Nat, NEW F,
           \A x \in T : \A n \in 1 .. L : F[n][x] \in T
    PROVE  \E g \in [0 .. L -> T] : LoopStates(base, L, F, g)
<1> DEFINE Of(k, g) == /\ g \in [0 .. k -> T] /\ g[0] = base
                       /\ \A n \in 1 .. k : g[n] = F[n][g[n - 1]]
           Bad == {k \in 0 .. L : ~(\E g : Of(k, g))}
<1>1. ASSUME Bad # {} PROVE FALSE
  <2>1. PICK k \in Bad : \A j \in Bad : k <= j
    <3>1. Bad \subseteq Nat
      OBVIOUS
    <3> HIDE DEF Bad
    <3>2. QED
      BY <1>1, <3>1, LeastNatural
  <2>2. k # 0
    <3> DEFINE g == [n \in 0 .. 0 |-> base]
    <3>1. Of(0, g)
      OBVIOUS
    <3>2. QED
      BY <2>1, <3>1, Zenon
  <2>3. k \in 1 .. L /\ k - 1 \in 0 .. L /\ k - 1 \notin Bad
    <3> HIDE DEF Of
    <3>1. QED
      BY <2>1, <2>2
  <2>4. PICK g : Of(k - 1, g)
    BY <2>3
  <2> DEFINE h == [n \in 0 .. k |-> IF n = k THEN F[k][g[k - 1]] ELSE g[n]]
  <2>5. g[k - 1] \in T
    BY <2>3, <2>4
  <2>6. h \in [0 .. k -> T]
    BY <2>3, <2>4, <2>5
  <2>7. h[0] = base
    BY <2>3, <2>4
  <2>8. ASSUME NEW n \in 1 .. k PROVE h[n] = F[n][h[n - 1]]
    <3>1. h[n - 1] = g[n - 1]
      BY <2>3
    <3>2. CASE n = k
      BY <3>1, <3>2, <2>3
    <3>3. CASE n # k
      <4>1. n \in 1 .. k - 1
        BY <2>3, <3>3
      <4>2. h[n] = g[n]
        BY <3>3, <2>3
      <4>3. QED
        BY <2>4, <3>1, <4>1, <4>2
    <3>4. QED
      BY <3>2, <3>3
  <2> HIDE DEF h
  <2>9. Of(k, h)
    BY <2>6, <2>7, <2>8
  <2>10. QED
    BY <2>1, <2>9
<1>2. PICK g : Of(L, g)
  <2>1. L \in 0 .. L /\ L \notin Bad
    BY <1>1
  <2> HIDE DEF Of
  <2>2. QED
    BY <2>1
<1>3. \A n \in 0 .. L : g[n] = IF n = 0 THEN base ELSE F[n][g[n - 1]]
  BY <1>2
<1>4. g = [n \in 0 .. L |-> g[n]]
  BY <1>2
<1>5. g = [n \in 0 .. L |-> IF n = 0 THEN base ELSE F[n][g[n - 1]]]
  BY <1>3, <1>4, Zenon
<1>6. QED
  BY <1>2, <1>5 DEF LoopStates

-----------------------------------------------------------------------------
(***************************************************************************)
(* Powers of two and numbers of bits.                                      *)
(***************************************************************************)
\* The loop that doubles.
LEMMA PowerLoop ==
    ASSUME NEW k \in Nat
    PROVE  \E g \in [0 .. k -> Nat \ {0}] :
              /\ Power(k) = g[k]
              /\ g[0] = 1
              /\ \A j \in 1 .. k : g[j] = 2 * g[j - 1]
<1> DEFINE T == Nat \ {0}
           Loop(g) == g = [j \in 0 .. k |-> IF j = 0 THEN 1 ELSE 2 * g[j - 1]]
           power == CHOOSE g : Loop(g)
           F == [j \in 1 .. k |-> [x \in T |-> 2 * x]]
<1>1. Power(k) = power[k]
  BY Zenon DEF Power
<1>2. \A x \in T : \A j \in 1 .. k : F[j][x] = 2 * x
  OBVIOUS
<1>3. \A x \in T : \A j \in 1 .. k : F[j][x] \in T
  BY <1>2
<1>4. 1 \in T
  OBVIOUS
<1> HIDE DEF F, T
<1>5. PICK g \in [0 .. k -> T] : LoopStates(1, k, F, g)
  BY <1>3, <1>4, LoopExists
<1>6. \A j \in 0 .. k : g[j] = IF j = 0 THEN 1 ELSE 2 * g[j - 1]
  <2> SUFFICES ASSUME NEW j \in 0 .. k PROVE g[j] = IF j = 0 THEN 1 ELSE 2 * g[j - 1]
    OBVIOUS
  <2>1. g[j] = IF j = 0 THEN 1 ELSE F[j][g[j - 1]]
    BY <1>5, Zenon DEF LoopStates
  <2>2. j # 0 => j \in 1 .. k /\ j - 1 \in 0 .. k
    OBVIOUS
  <2>3. QED
    BY <1>2, <1>5, <2>1, <2>2
<1>7. g = [j \in 0 .. k |-> g[j]]
  BY <1>5
<1>8. Loop(g)
  BY <1>6, <1>7, Zenon
<1> HIDE DEF Loop
<1>9. Loop(power)
  BY <1>8
<1> HIDE DEF power
<1>10. \A j \in 0 .. k : power[j] = IF j = 0 THEN 1 ELSE 2 * power[j - 1]
  BY <1>9, Zenon DEF Loop
<1>11. power = [j \in 0 .. k |-> power[j]]
  BY <1>9, <1>10, Zenon DEF Loop
<1> DEFINE G == {j \in 0 .. k : power[j] \in T}
<1>12. 0 \in G /\ \A j \in 1 .. k : j - 1 \in G => j \in G
  <2>1. power[0] = 1 /\ \A j \in 1 .. k : power[j] = 2 * power[j - 1]
    BY <1>10
  <2>2. QED
    BY <2>1 DEF T
<1> HIDE DEF G
<1>13. \A j \in 0 .. k : j \in G
  BY <1>12, EveryTurn
<1>14. power \in [0 .. k -> T]
  BY <1>11, <1>13 DEF G
<1>15. power[0] = 1 /\ \A j \in 1 .. k : power[j] = 2 * power[j - 1]
  BY <1>10
<1>16. power \in [0 .. k -> Nat \ {0}]
  BY <1>14 DEF T
<1>17. QED
  BY <1>1, <1>15, <1>16

\* The powers are those of two.
LEMMA PowerStep ==
    ASSUME NEW k \in Nat
    PROVE  Power(k) \in Nat \ {0} /\ Power(k + 1) = 2 * Power(k)
<1>1. PICK g \in [0 .. k -> Nat \ {0}] :
         Power(k) = g[k] /\ g[0] = 1 /\ \A j \in 1 .. k : g[j] = 2 * g[j - 1]
  BY PowerLoop
<1>2. PICK f \in [0 .. k + 1 -> Nat \ {0}] :
         Power(k + 1) = f[k + 1] /\ f[0] = 1 /\ \A j \in 1 .. k + 1 : f[j] = 2 * f[j - 1]
  <2>1. k + 1 \in Nat
    OBVIOUS
  <2>2. QED
    BY <2>1, PowerLoop
<1> DEFINE G == {j \in 0 .. k : g[j] = f[j]}
<1>3. 0 \in G /\ \A j \in 1 .. k : j - 1 \in G => j \in G
  BY <1>1, <1>2
<1>4. k \in G
  <2> HIDE DEF G
  <2>1. \A j \in 0 .. k : j \in G
    BY <1>3, EveryTurn
  <2>2. QED
    BY <2>1
<1>5. QED
  BY <1>1, <1>2, <1>4

LEMMA PowerFacts ==
    /\ Power(0) = 1
    /\ \A k \in Nat : Power(k) \in Nat \ {0} /\ Power(k + 1) = 2 * Power(k)
<1>1. \A k \in Nat : Power(k) \in Nat \ {0} /\ Power(k + 1) = 2 * Power(k)
  BY PowerStep
<1>2. PICK g \in [0 .. 0 -> Nat \ {0}] :
         Power(0) = g[0] /\ g[0] = 1 /\ \A j \in 1 .. 0 : g[j] = 2 * g[j - 1]
  BY PowerLoop
<1>3. QED
  BY <1>1, <1>2

\* A remainder by twice a number is that by the number, and one bit.
LEMMA DoubleMod ==
    ASSUME NEW x \in Nat, NEW m \in Nat \ {0}
    PROVE  /\ x % (2 * m) = (x % m) + m * ((x \div m) % 2)
           /\ (x % (2 * m)) % m = x % m
           /\ x % m \in 0 .. m - 1 /\ x \div m \in Nat
           /\ (x \div m) % 2 \in Bit
<1> DEFINE q == x \div m
           r == x % m
           p == q \div 2
           b == q % 2
<1>1. x = m * q + r /\ q \in Nat /\ r \in 0 .. m - 1
  OBVIOUS
<1>2. q = 2 * p + b /\ p \in Nat /\ b \in 0 .. 1
  BY <1>1
<1> HIDE DEF q, r, p, b
<1>3. m * q = m * (2 * p) + m * b
  BY <1>2
<1>4. m * b \in {0, m}
  BY <1>2
<1> DEFINE s == m * b + r
<1>5. s \in 0 .. 2 * m - 1
  BY <1>1, <1>4
<1>6. x = (2 * m) * p + s
  BY <1>1, <1>2, <1>3
<1> HIDE DEF s
<1>7. x % (2 * m) = s
  BY <1>2, <1>5, <1>6
<1>8. s % m = r
  BY <1>1, <1>4 DEF s
<1>9. QED
  BY <1>1, <1>2, <1>7, <1>8 DEF s, q, r, p, b, Bit

\* Remainders by smaller powers.
LEMMA ModMod ==
    ASSUME NEW k \in Nat, NEW d \in 0 .. k
    PROVE  \A x \in Nat : (x % Power(k)) % Power(d) = x % Power(d)
<1> DEFINE G == {j \in 0 .. k - d :
                    \A x \in Nat : (x % Power(d + j)) % Power(d) = x % Power(d)}
<1>1. 0 \in G
  <2> SUFFICES ASSUME NEW x \in Nat PROVE (x % Power(d + 0)) % Power(d) = x % Power(d)
    OBVIOUS
  <2>1. Power(d) \in Nat \ {0} /\ d + 0 = d
    BY PowerFacts
  <2>2. x % Power(d) \in 0 .. Power(d) - 1
    BY <2>1
  <2>3. QED
    BY <2>1, <2>2
<1>2. ASSUME NEW j \in 1 .. k - d, j - 1 \in G PROVE j \in G
  <2> SUFFICES ASSUME NEW x \in Nat PROVE (x % Power(d + j)) % Power(d) = x % Power(d)
    OBVIOUS
  <2> DEFINE m == Power(d + (j - 1))
             y == x % Power(d + j)
  <2>1. m \in Nat \ {0} /\ Power(d + j) = 2 * m
    <3>1. d + (j - 1) \in Nat /\ (d + (j - 1)) + 1 = d + j
      OBVIOUS
    <3>2. QED
      BY <3>1, PowerFacts
  <2>2. \A z \in Nat : (z % m) % Power(d) = z % Power(d)
    BY <1>2
  <2> HIDE DEF m
  <2>3. y % m = x % m /\ y \in Nat
    <3>1. y = x % (2 * m)
      BY <2>1
    <3>2. (x % (2 * m)) % m = x % m
      BY <2>1, DoubleMod
    <3>3. x % (2 * m) \in Nat
      BY <2>1
    <3> HIDE DEF y
    <3>4. QED
      BY <3>1, <3>2, <3>3
  <2> HIDE DEF y
  <2>4. y % Power(d) = x % Power(d)
    BY <2>2, <2>3
  <2>5. QED
    BY <2>4 DEF y
<1> HIDE DEF G
<1>3. \A j \in 0 .. k - d : j \in G
  BY <1>1, <1>2, EveryTurn
<1>4. k - d \in G /\ d + (k - d) = k
  BY <1>3
<1>5. QED
  BY <1>4 DEF G

\* A bit of a number, by the remainders on its two sides.
LEMMA BitOfMod ==
    ASSUME NEW x \in Nat, NEW d \in Nat \ {0}
    PROVE  /\ x % Power(d) = (x % Power(d - 1)) + Power(d - 1) * ((x \div Power(d - 1)) % 2)
           /\ (x \div Power(d - 1)) % 2 \in Bit
           /\ x % Power(d - 1) \in 0 .. Power(d - 1) - 1
           /\ Power(d - 1) \in Nat \ {0} /\ x \div Power(d - 1) \in Nat
<1>1. d - 1 \in Nat /\ (d - 1) + 1 = d
  OBVIOUS
<1>2. Power(d - 1) \in Nat \ {0} /\ Power(d) = 2 * Power(d - 1)
  BY <1>1, PowerFacts
<1>3. QED
  BY <1>2, DoubleMod

\* The low bits of a number are those of its remainder.
LEMMA LowBits ==
    ASSUME NEW x \in Nat, NEW k \in Nat, NEW d \in 1 .. k
    PROVE  ((x % Power(k)) \div Power(d - 1)) % 2 = (x \div Power(d - 1)) % 2
<1> DEFINE y == x % Power(k)
           m == Power(d - 1)
           b == (x \div m) % 2
           c == (y \div m) % 2
<1>1. y \in Nat /\ d \in Nat \ {0}
  BY PowerFacts
<1>2. y % Power(d) = x % Power(d) /\ y % m = x % m
  BY ModMod
<1> HIDE DEF y
<1>3. /\ x % Power(d) = (x % m) + m * b /\ b \in Bit
      /\ y % Power(d) = (y % m) + m * c /\ c \in Bit
      /\ m \in Nat \ {0} /\ x % m \in Nat
  <2>1. /\ x % Power(d) = (x % m) + m * b /\ b \in Bit
        /\ m \in Nat \ {0} /\ x % m \in 0 .. m - 1
    BY <1>1, BitOfMod
  <2>2. y % Power(d) = (y % m) + m * c /\ c \in Bit
    BY <1>1, BitOfMod
  <2>3. QED
    BY <2>1, <2>2
<1> HIDE DEF m, b, c
<1>4. m * b = IF b = 1 THEN m ELSE 0
  BY <1>3 DEF Bit
<1>5. m * c = IF c = 1 THEN m ELSE 0
  BY <1>3 DEF Bit
<1>6. b = c
  BY <1>2, <1>3, <1>4, <1>5 DEF Bit
<1>7. QED
  BY <1>6 DEF b, c, m, y

\* The number itself does not show in the remainder.
LEMMA AddMod ==
    ASSUME NEW m \in Nat \ {0}, NEW x \in 0 .. m - 1, NEW t \in {0, m}
    PROVE  (x + t) % m = x
<1>1. CASE t = 0
  BY <1>1
<1>2. CASE t = m
  <2>1. x + t = m * 1 + x
    BY <1>2
  <2>2. QED
    BY <2>1
<1>3. QED
  BY <1>1, <1>2

\* The loop that puts bits together.
BitsFrom(bits, from, k) == \A j \in 1 .. k : bits[from + j - 1] \in Bit

NumberTurns(bits, from, k, g) ==
    /\ g \in [0 .. k -> Nat]
    /\ NumberAt(bits, from, k) = g[k]
    /\ g[0] = 0
    /\ \A j \in 1 .. k : g[j] = g[j - 1] + bits[from + j - 1] * Power(j - 1)

LEMMA NumberLoop ==
    ASSUME NEW bits, NEW from \in Int, NEW k \in Nat, BitsFrom(bits, from, k)
    PROVE  \E g : NumberTurns(bits, from, k, g)
<1>0. \A j \in 1 .. k : bits[from + j - 1] \in Bit
  BY DEF BitsFrom
<1> DEFINE Loop(g) == g = [j \in 0 .. k |-> IF j = 0 THEN 0
                            ELSE g[j - 1] + bits[from + j - 1] * Power(j - 1)]
           number == CHOOSE g : Loop(g)
           F == [j \in 1 .. k |-> [x \in Nat |-> x + bits[from + j - 1] * Power(j - 1)]]
<1>1. NumberAt(bits, from, k) = number[k]
  BY Zenon DEF NumberAt
<1>2. \A x \in Nat : \A j \in 1 .. k : F[j][x] = x + bits[from + j - 1] * Power(j - 1)
  OBVIOUS
<1>3. \A j \in 1 .. k : bits[from + j - 1] * Power(j - 1) \in Nat
  <2> SUFFICES ASSUME NEW j \in 1 .. k PROVE bits[from + j - 1] * Power(j - 1) \in Nat
    OBVIOUS
  <2>1. Power(j - 1) \in Nat /\ bits[from + j - 1] \in Nat
    BY <1>0, PowerFacts DEF Bit
  <2>2. QED
    BY <2>1
<1>4. \A x \in Nat : \A j \in 1 .. k : F[j][x] \in Nat
  BY <1>2, <1>3
<1> HIDE DEF F
<1>5. PICK g \in [0 .. k -> Nat] : LoopStates(0, k, F, g)
  BY <1>4, LoopExists
<1>6. \A j \in 0 .. k : g[j] = IF j = 0 THEN 0
                               ELSE g[j - 1] + bits[from + j - 1] * Power(j - 1)
  <2> SUFFICES ASSUME NEW j \in 0 .. k
               PROVE  g[j] = IF j = 0 THEN 0
                             ELSE g[j - 1] + bits[from + j - 1] * Power(j - 1)
    OBVIOUS
  <2>1. g[j] = IF j = 0 THEN 0 ELSE F[j][g[j - 1]]
    BY <1>5, Zenon DEF LoopStates
  <2>2. j # 0 => j \in 1 .. k /\ j - 1 \in 0 .. k
    OBVIOUS
  <2>3. QED
    BY <1>2, <1>5, <2>1, <2>2
<1>7. g = [j \in 0 .. k |-> g[j]]
  BY <1>5
<1>8. Loop(g)
  BY <1>6, <1>7, Zenon
<1> HIDE DEF Loop
<1>9. Loop(number)
  BY <1>8
<1> HIDE DEF number
<1>10. \A j \in 0 .. k : number[j] = IF j = 0 THEN 0
                                    ELSE number[j - 1] + bits[from + j - 1] * Power(j - 1)
  BY <1>9, Zenon DEF Loop
<1>11. number = [j \in 0 .. k |-> number[j]]
  BY <1>9, <1>10, Zenon DEF Loop
<1>12. number[0] = 0 /\ \A j \in 1 .. k :
          number[j] = number[j - 1] + bits[from + j - 1] * Power(j - 1)
  BY <1>10
<1> DEFINE G == {j \in 0 .. k : number[j] \in Nat}
<1>13. 0 \in G /\ \A j \in 1 .. k : j - 1 \in G => j \in G
  <2>1. 0 \in G
    BY <1>12
  <2>2. ASSUME NEW j \in 1 .. k, j - 1 \in G PROVE j \in G
    <3>1. number[j - 1] \in Nat /\ bits[from + j - 1] * Power(j - 1) \in Nat
      BY <1>3, <2>2
    <3> DEFINE t == bits[from + j - 1] * Power(j - 1)
    <3>2. number[j] = number[j - 1] + t
      BY <1>12
    <3> HIDE DEF t
    <3>3. number[j] \in Nat
      BY <3>1, <3>2 DEF t
    <3>4. QED
      BY <3>3
  <2>3. QED
    BY <2>1, <2>2
<1> HIDE DEF G
<1>14. \A j \in 0 .. k : j \in G
  BY <1>13, EveryTurn
<1>15. number \in [0 .. k -> Nat]
  BY <1>11, <1>14 DEF G
<1>16. NumberTurns(bits, from, k, number)
  BY <1>1, <1>12, <1>15 DEF NumberTurns
<1>17. QED
  BY <1>16

\* The lowest k bits of x are there.
BitsThere(bits, from, k, x) ==
    \A j \in 1 .. k : bits[from + j - 1] = (x \div Power(j - 1)) % 2

\* What is put together of a number's bits is the number, but for what is
\* above them.
LEMMA NumberOf ==
    ASSUME NEW bits, NEW from \in Int, NEW k \in Nat, NEW x \in Nat,
           BitsThere(bits, from, k, x)
    PROVE  NumberAt(bits, from, k) = x % Power(k)
<1>0. \A j \in 1 .. k : bits[from + j - 1] = (x \div Power(j - 1)) % 2
  BY DEF BitsThere
<1>1. \A j \in 1 .. k :
         /\ x % Power(j) = (x % Power(j - 1)) + Power(j - 1) * ((x \div Power(j - 1)) % 2)
         /\ (x \div Power(j - 1)) % 2 \in Bit
         /\ Power(j - 1) \in Nat
  <2>1. \A j \in 1 .. k : j \in Nat \ {0}
    OBVIOUS
  <2>2. QED
    BY <2>1, BitOfMod
<1>2. \A j \in 1 .. k : bits[from + j - 1] \in Bit
  BY <1>0, <1>1
<1>3. PICK g : NumberTurns(bits, from, k, g)
  <2>1. BitsFrom(bits, from, k)
    BY <1>2 DEF BitsFrom
  <2>2. QED
    BY <2>1, NumberLoop
<1>4. /\ g \in [0 .. k -> Nat]
      /\ NumberAt(bits, from, k) = g[k]
      /\ g[0] = 0
      /\ \A j \in 1 .. k : g[j] = g[j - 1] + bits[from + j - 1] * Power(j - 1)
  BY <1>3 DEF NumberTurns
<1> DEFINE G == {j \in 0 .. k : g[j] = x % Power(j)}
<1>5. 0 \in G
  BY <1>4, PowerFacts
<1>6. ASSUME NEW j \in 1 .. k, j - 1 \in G PROVE j \in G
  <2> DEFINE m == Power(j - 1)
             b == (x \div m) % 2
  <2>1. g[j] = (x % m) + b * m
    BY <1>0, <1>4, <1>6
  <2>2. x % Power(j) = (x % m) + m * b /\ m \in Nat /\ b \in Bit
    BY <1>1
  <2> HIDE DEF m, b
  <2>3. b * m = m * b
    BY <2>2 DEF Bit
  <2>4. QED
    BY <2>1, <2>2, <2>3
<1> HIDE DEF G
<1>7. \A j \in 0 .. k : j \in G
  BY <1>5, <1>6, EveryTurn
<1>8. k \in G
  BY <1>7
<1>9. QED
  BY <1>4, <1>8 DEF G

\* The bits of what is put together of bits are these.
LEMMA NumberBits ==
    ASSUME NEW bits, NEW from \in Int, NEW k \in Nat,
           \A j \in 1 .. k : bits[from + j - 1] \in Bit
    PROVE  /\ NumberAt(bits, from, k) \in 0 .. Power(k) - 1
           /\ \A j \in 1 .. k :
                 (NumberAt(bits, from, k) \div Power(j - 1)) % 2 = bits[from + j - 1]
<1>0. PICK g : NumberTurns(bits, from, k, g)
  <2>1. BitsFrom(bits, from, k)
    BY DEF BitsFrom
  <2>2. QED
    BY <2>1, NumberLoop
<1>1. /\ g \in [0 .. k -> Nat]
      /\ NumberAt(bits, from, k) = g[k]
      /\ g[0] = 0
      /\ \A j \in 1 .. k : g[j] = g[j - 1] + bits[from + j - 1] * Power(j - 1)
  BY <1>0 DEF NumberTurns
<1>2. \A j \in 1 .. k : /\ Power(j - 1) \in Nat \ {0} /\ Power(j) = 2 * Power(j - 1)
                        /\ bits[from + j - 1] * Power(j - 1) \in {0, Power(j - 1)}
  <2> SUFFICES ASSUME NEW j \in 1 .. k
               PROVE  /\ Power(j - 1) \in Nat \ {0} /\ Power(j) = 2 * Power(j - 1)
                      /\ bits[from + j - 1] * Power(j - 1) \in {0, Power(j - 1)}
    OBVIOUS
  <2>1. j - 1 \in Nat /\ (j - 1) + 1 = j
    OBVIOUS
  <2>2. Power(j - 1) \in Nat \ {0} /\ Power(j) = 2 * Power(j - 1)
    BY <2>1, PowerFacts
  <2>3. bits[from + j - 1] \in {0, 1}
    BY DEF Bit
  <2>4. QED
    BY <2>2, <2>3
<1> DEFINE G == {j \in 0 .. k : g[j] \in 0 .. Power(j) - 1}
<1>3. 0 \in G
  BY <1>1, PowerFacts
<1>4. ASSUME NEW j \in 1 .. k, j - 1 \in G PROVE j \in G
  <2> DEFINE m == Power(j - 1)
             t == bits[from + j - 1] * Power(j - 1)
  <2>1. g[j] = g[j - 1] + t /\ t \in {0, m} /\ g[j - 1] \in 0 .. m - 1
    BY <1>1, <1>2, <1>4
  <2>2. m \in Nat \ {0} /\ Power(j) = 2 * m
    BY <1>2
  <2> HIDE DEF m, t
  <2>3. QED
    BY <2>1, <2>2
<1> HIDE DEF G
<1>5. \A j \in 0 .. k : j \in G
  BY <1>3, <1>4, EveryTurn
<1>6. \A j \in 0 .. k : g[j] \in 0 .. Power(j) - 1
  BY <1>5 DEF G
<1> DEFINE H == {n \in 0 .. k : \A j \in 0 .. n : g[n] % Power(j) = g[j]}
<1>7. 0 \in H
  <2>1. g[0] = 0 /\ Power(0) = 1
    BY <1>1, PowerFacts
  <2>2. QED
    BY <2>1
<1>8. ASSUME NEW n \in 1 .. k, n - 1 \in H PROVE n \in H
  <2> SUFFICES ASSUME NEW j \in 0 .. n PROVE g[n] % Power(j) = g[j]
    OBVIOUS
  <2>1. CASE j = n
    <3>1. n \in 0 .. k /\ n \in Nat
      OBVIOUS
    <3>2. g[n] \in 0 .. Power(n) - 1
      BY <1>6, <3>1
    <3>3. Power(n) \in Nat \ {0}
      BY <3>1, PowerFacts
    <3>4. QED
      BY <2>1, <3>2, <3>3
  <2>2. CASE j # n
    <3> DEFINE m == Power(n - 1)
               t == bits[from + n - 1] * Power(n - 1)
    <3>1. n - 1 \in Nat /\ j \in 0 .. n - 1 /\ n - 1 \in 0 .. k
      BY <2>2
    <3>2. g[n] = g[n - 1] + t /\ t \in {0, m} /\ g[n - 1] \in 0 .. m - 1 /\ m \in Nat \ {0}
      BY <1>1, <1>2, <1>6, <3>1
    <3>3. (g[n] % m) % Power(j) = g[n] % Power(j)
      BY <3>1, <1>1, ModMod
    <3>4. g[n - 1] % Power(j) = g[j]
      BY <1>8, <3>1
    <3> HIDE DEF m, t
    <3>5. g[n] % m = g[n - 1]
      <4>1. (g[n - 1] + t) % m = g[n - 1]
        BY <3>2, AddMod
      <4>2. QED
        BY <3>2, <4>1
    <3>6. QED
      BY <3>3, <3>4, <3>5
  <2>3. QED
    BY <2>1, <2>2
<1> HIDE DEF H
<1>9. \A n \in 0 .. k : n \in H
  BY <1>7, <1>8, EveryTurn
<1>10. \A j \in 0 .. k : g[k] % Power(j) = g[j]
  BY <1>9 DEF H
<1>11. ASSUME NEW j \in 1 .. k
       PROVE  (g[k] \div Power(j - 1)) % 2 = bits[from + j - 1]
  <2> DEFINE m == Power(j - 1)
             b == (g[k] \div Power(j - 1)) % 2
             c == bits[from + j - 1]
  <2>1. j - 1 \in 0 .. k /\ g[k] \in Nat /\ j \in Nat \ {0}
    BY <1>1
  <2>2. /\ g[k] % Power(j) = (g[k] % m) + m * b
        /\ b \in Bit /\ m \in Nat \ {0}
    <3>1. \A x \in Nat : /\ x % Power(j) = (x % m) + m * ((x \div m) % 2)
                         /\ (x \div m) % 2 \in Bit /\ m \in Nat \ {0}
      BY <2>1, BitOfMod
    <3>2. QED
      BY <2>1, <3>1
  <2>3. g[k] % Power(j) = g[j] /\ g[k] % m = g[j - 1]
    BY <1>10, <2>1
  <2>4. g[j] = g[j - 1] + c * m /\ c \in Bit /\ g[j - 1] \in Nat
    BY <1>1, <2>1
  <2> HIDE DEF m, b, c
  <2>5. m * b = IF b = 1 THEN m ELSE 0
    BY <2>2 DEF Bit
  <2>6. c * m = IF c = 1 THEN m ELSE 0
    BY <2>2, <2>4 DEF Bit
  <2>7. b = c
    BY <2>2, <2>3, <2>4, <2>5, <2>6 DEF Bit
  <2>8. QED
    BY <2>7 DEF b, c
<1>12. QED
  BY <1>1, <1>6, <1>11

-----------------------------------------------------------------------------
(***************************************************************************)
(* Sequences that are put one after the other.                             *)
(***************************************************************************)
\* What is where in two sequences, one after the other.
LEMMA Cat ==
    ASSUME NEW S, NEW s \in Seq(S), NEW t \in Seq(S), NEW l \in Nat, NEW m \in Nat,
           Len(s) = l, Len(t) = m
    PROVE  /\ s \o t \in Seq(S) /\ Len(s \o t) = l + m
           /\ \A k \in 1 .. l : (s \o t)[k] = s[k]
           /\ \A k \in 1 .. m : (s \o t)[l + k] = t[k]
<1>1. /\ s \o t \in Seq(S)
      /\ Len(s \o t) = l + m
      /\ \A k \in 1 .. l + m : (s \o t)[k] = IF k <= l THEN s[k] ELSE t[k - l]
  BY ConcatProperties
<1>2. \A k \in 1 .. l : k \in 1 .. l + m /\ k <= l
  OBVIOUS
<1>3. \A k \in 1 .. m : l + k \in 1 .. l + m /\ ~(l + k <= l) /\ (l + k) - l = k
  OBVIOUS
<1>4. QED
  BY <1>1, <1>2, <1>3

\* The first m of seqs make s, each ending where P says.
Joined(S, seqs, P, m, s) ==
    /\ s \in Seq(S) /\ Len(s) = P[m]
    /\ \A u \in 1 .. m : \A j \in 1 .. Len(seqs[u]) :
          P[u - 1] + j \in 1 .. P[m] /\ s[P[u - 1] + j] = seqs[u][j]

LEMMA JoinOne ==
    ASSUME NEW S, NEW n \in Nat, NEW seqs \in [1 .. n -> Seq(S)], NEW P \in [0 .. n -> Nat],
           \A u \in 1 .. n : P[u] = P[u - 1] + Len(seqs[u]),
           NEW m \in 1 .. n, NEW s, Joined(S, seqs, P, m - 1, s)
    PROVE  Joined(S, seqs, P, m, s \o seqs[m])
<1> DEFINE t == seqs[m]
<1>1. s \in Seq(S) /\ t \in Seq(S) /\ Len(s) = P[m - 1] /\ P[m] = P[m - 1] + Len(t)
  BY DEF Joined
<1>2. P[m - 1] \in Nat /\ P[m] \in Nat /\ Len(t) \in Nat
  BY <1>1
<1>3. P[m - 1] \in Nat /\ P[m] \in Nat /\ P[m - 1] <= P[m]
  BY <1>1, <1>2
<1>4. /\ s \o t \in Seq(S)
      /\ Len(s \o t) = P[m]
      /\ \A k \in 1 .. P[m] : (s \o t)[k] = IF k <= P[m - 1] THEN s[k] ELSE t[k - P[m - 1]]
  <2>1. s \in Seq(S) /\ t \in Seq(S)
    BY <1>1
  <2> HIDE DEF t
  <2>2. /\ s \o t \in Seq(S)
        /\ Len(s \o t) = Len(s) + Len(t)
        /\ \A k \in 1 .. Len(s) + Len(t) :
              (s \o t)[k] = IF k <= Len(s) THEN s[k] ELSE t[k - Len(s)]
    BY <2>1, ConcatProperties
  <2>3. QED
    BY <1>1, <2>2
<1>5. ASSUME NEW u \in 1 .. m, NEW j \in 1 .. Len(seqs[u])
      PROVE  P[u - 1] + j \in 1 .. P[m] /\ (s \o t)[P[u - 1] + j] = seqs[u][j]
  <2>1. CASE u = m
    <3>1. j \in 1 .. Len(t) /\ P[u - 1] + j \in 1 .. P[m] /\ ~(P[u - 1] + j <= P[m - 1])
      BY <1>1, <1>2, <2>1, SMTT(20)
    <3>2. (P[u - 1] + j) - P[m - 1] = j
      BY <1>2, <2>1, <3>1
    <3>3. QED
      BY <1>4, <2>1, <3>1, <3>2
  <2>2. CASE u # m
    <3>1. u \in 1 .. m - 1
      BY <2>2
    <3>2. P[u - 1] + j \in 1 .. P[m - 1] /\ s[P[u - 1] + j] = seqs[u][j]
      BY <3>1 DEF Joined
    <3>3. P[u - 1] + j \in 1 .. P[m] /\ P[u - 1] + j <= P[m - 1]
      <4> DEFINE x == P[u - 1] + j
      <4>1. x \in 1 .. P[m - 1]
        BY <3>2
      <4> HIDE DEF x
      <4>2. x \in 1 .. P[m] /\ x <= P[m - 1]
        BY <1>3, <4>1
      <4>3. QED
        BY <4>2 DEF x
    <3>4. QED
      BY <1>4, <3>2, <3>3
  <2>3. QED
    BY <2>1, <2>2
<1> HIDE DEF t
<1>6. QED
  BY <1>4, <1>5 DEF Joined, t

LEMMA FlattenFacts ==
    ASSUME NEW S, NEW n \in Nat, NEW seqs \in [1 .. n -> Seq(S)], NEW P \in [0 .. n -> Nat],
           P[0] = 0, \A u \in 1 .. n : P[u] = P[u - 1] + Len(seqs[u])
    PROVE  Joined(S, seqs, P, n, FlattenSeq(seqs))
<1>1. seqs \in Seq(Seq(S)) /\ Len(seqs) = n
  OBVIOUS
<1>2. CASE n = 0
  <2>1. seqs = <<>>
    BY <1>1, <1>2, EmptySeq
  <2>2. FlattenSeq(seqs) = <<>>
    BY <1>1, <1>2, <2>1, Zenon DEF FlattenSeq
  <2>3. QED
    BY <1>2, <2>2 DEF Joined
<1>3. CASE n # 0
  <2> DEFINE L == n - 1
             F == [j \in 1 .. L |-> [x \in Seq(S) |-> x \o seqs[j + 1]]]
             Loop(g) == g = [d \in 1 .. Len(seqs) |->
                               IF d = 1 THEN seqs[d] ELSE g[d - 1] \o seqs[d]]
             flatten == CHOOSE g : Loop(g)
  <2>1. L \in Nat /\ n = L + 1 /\ seqs[1] \in Seq(S)
    BY <1>3
  <2>2. FlattenSeq(seqs) = flatten[n]
    BY <1>1, <1>3, Zenon DEF FlattenSeq
  <2>3. \A x \in Seq(S) : \A j \in 1 .. L : F[j][x] = x \o seqs[j + 1]
    OBVIOUS
  <2>4. \A x \in Seq(S) : \A j \in 1 .. L : F[j][x] \in Seq(S)
    <3> SUFFICES ASSUME NEW x \in Seq(S), NEW j \in 1 .. L PROVE F[j][x] \in Seq(S)
      OBVIOUS
    <3>1. seqs[j + 1] \in Seq(S)
      BY <2>1
    <3>2. x \o seqs[j + 1] \in Seq(S)
      BY <3>1, ConcatProperties
    <3>3. QED
      BY <2>3, <3>2
  <2> HIDE DEF F, L
  <2>5. PICK g \in [0 .. L -> Seq(S)] : LoopStates(seqs[1], L, F, g)
    BY <2>1, <2>4, LoopExists
  <2> DEFINE f == [d \in 1 .. n |-> g[d - 1]]
  <2>6. \A d \in 1 .. n : f[d] = IF d = 1 THEN seqs[d] ELSE f[d - 1] \o seqs[d]
    <3> SUFFICES ASSUME NEW d \in 1 .. n
                 PROVE  f[d] = IF d = 1 THEN seqs[d] ELSE f[d - 1] \o seqs[d]
      OBVIOUS
    <3>1. d - 1 \in 0 .. L /\ f[d] = g[d - 1]
      BY <2>1
    <3>2. g[d - 1] = IF d - 1 = 0 THEN seqs[1] ELSE F[d - 1][g[d - 1 - 1]]
      BY <2>5, <3>1, Zenon DEF LoopStates
    <3>3. CASE d = 1
      BY <3>1, <3>2, <3>3
    <3>4. CASE d # 1
      <4>1. d - 1 \in 1 .. L /\ d - 1 - 1 \in 0 .. L /\ d - 1 \in 1 .. n /\ (d - 1) + 1 = d
        BY <2>1, <3>4
      <4>2. g[d - 1 - 1] \in Seq(S) /\ f[d - 1] = g[d - 1 - 1]
        BY <2>5, <4>1
      <4>3. F[d - 1][g[d - 1 - 1]] = g[d - 1 - 1] \o seqs[d]
        BY <2>3, <4>1, <4>2
      <4> HIDE DEF f
      <4>4. g[d - 1] = f[d - 1] \o seqs[d]
        <5>1. d - 1 # 0
          BY <3>4
        <5>2. g[d - 1] = F[d - 1][g[d - 1 - 1]]
          BY <3>2, <5>1, Zenon
        <5>3. QED
          BY <4>2, <4>3, <5>2, Zenon
      <4>5. QED
        BY <3>1, <3>4, <4>4
    <3>5. QED
      BY <3>3, <3>4
  <2>7. f = [d \in 1 .. n |-> f[d]]
    OBVIOUS
  <2> HIDE DEF f
  <2>8. Loop(f)
    BY <1>1, <2>6, <2>7, Zenon
  <2> HIDE DEF Loop
  <2>9. Loop(flatten)
    BY <2>8
  <2> HIDE DEF flatten
  <2>10. \A d \in 1 .. n : flatten[d] = IF d = 1 THEN seqs[d] ELSE flatten[d - 1] \o seqs[d]
    BY <1>1, <2>9, Zenon DEF Loop
  <2> DEFINE G == {j \in 0 .. L : Joined(S, seqs, P, j + 1, flatten[j + 1])}
  <2>11. 0 \in G
    <3>1. flatten[1] = seqs[1] /\ 1 \in 1 .. n
      BY <2>1, <2>10
    <3>2. P[1] = Len(seqs[1]) /\ Len(seqs[1]) \in Nat
      BY <2>1, <3>1
    <3>3. \A u \in 1 .. 1 : u = 1 /\ u - 1 = 0
      OBVIOUS
    <3>4. Joined(S, seqs, P, 1, flatten[1])
      BY <2>1, <3>1, <3>2, <3>3 DEF Joined
    <3>5. QED
      BY <2>1, <3>4
  <2>12. ASSUME NEW j \in 1 .. L, j - 1 \in G PROVE j \in G
    <3>1. j + 1 \in 1 .. n /\ (j + 1) - 1 = j /\ (j - 1) + 1 = j /\ j + 1 # 1
      BY <2>1
    <3>2. Joined(S, seqs, P, j, flatten[j])
      BY <2>12, <3>1
    <3>3. Joined(S, seqs, P, j + 1, flatten[j] \o seqs[j + 1])
      BY <3>1, <3>2, JoinOne
    <3>4. flatten[j + 1] = flatten[j] \o seqs[j + 1]
      BY <2>10, <3>1
    <3>5. Joined(S, seqs, P, j + 1, flatten[j + 1])
      BY <3>3, <3>4
    <3>6. QED
      BY <3>5
  <2> HIDE DEF G
  <2>13. \A j \in 0 .. L : j \in G
    BY <2>1, <2>11, <2>12, EveryTurn
  <2>14. L \in G
    BY <2>1, <2>13
  <2>15. Joined(S, seqs, P, n, flatten[n])
    BY <2>1, <2>14 DEF G
  <2>16. QED
    BY <2>2, <2>15
<1>4. QED
  BY <1>2, <1>3

-----------------------------------------------------------------------------
(***************************************************************************)
(* The code, by what is at each place.                                     *)
(***************************************************************************)
\* Where the unary part of each value ends.
Ends(n, low, ks, end) ==
    /\ ks \in [1 .. n -> Nat]
    /\ end \in [0 .. n -> Nat]
    /\ end[0] = n + low * n
    /\ \A u \in 1 .. n : end[u] = end[u - 1] + ks[u] + 1

Rests(n, low, a) == [u \in 1 .. n |-> Rest(a[u], low)]

\* The values a are coded in bits: the signs, the low bits, the rest.
Coded(bits, n, low, a, ks, end) ==
    /\ Ends(n, low, ks, end)
    /\ \A u \in 1 .. n : ks[u] = Rest(a[u], low)
    /\ \A u \in 1 .. n : bits[u] = SignBit(a[u])
    /\ \A u \in 1 .. n : \A j \in 1 .. low :
          bits[n + low * (u - 1) + j] = (Magnitude(a[u]) \div Power(j - 1)) % 2
    /\ \A u \in 1 .. n : bits[end[u]] = 1
    /\ \A u \in 1 .. n : \A j \in 1 .. ks[u] : bits[end[u - 1] + j] = 0

\* The parts of a value.
LEMMA ValueFacts ==
    ASSUME NEW v \in Int, NEW low \in Nat
    PROVE  /\ Magnitude(v) \in Nat /\ SignBit(v) \in Bit
           /\ Rest(v, low) \in Nat
           /\ v = IF SignBit(v) = 1 THEN -Magnitude(v) - 1 ELSE Magnitude(v)
           /\ Power(low) \in Nat \ {0}
           /\ Magnitude(v) = Rest(v, low) * Power(low) + (Magnitude(v) % Power(low))
           /\ Magnitude(v) % Power(low) \in 0 .. Power(low) - 1
<1>1. Power(low) \in Nat \ {0}
  BY PowerFacts
<1>2. Magnitude(v) \in Nat /\ SignBit(v) \in Bit
      /\ v = IF SignBit(v) = 1 THEN -Magnitude(v) - 1 ELSE Magnitude(v)
  BY DEF Magnitude, SignBit, Bit
<1>3. /\ Magnitude(v) \div Power(low) \in Nat
      /\ Magnitude(v) = (Magnitude(v) \div Power(low)) * Power(low) + (Magnitude(v) % Power(low))
      /\ Magnitude(v) % Power(low) \in 0 .. Power(low) - 1
  BY <1>1, <1>2
<1>4. QED
  BY <1>1, <1>2, <1>3 DEF Rest

LEMMA EndsExist ==
    ASSUME NEW n \in Nat, NEW low \in Nat, NEW ks \in [1 .. n -> Nat]
    PROVE  \E end : Ends(n, low, ks, end)
<1> DEFINE F == [u \in 1 .. n |-> [x \in Nat |-> x + ks[u] + 1]]
           base == n + low * n
<1>1. \A x \in Nat : \A u \in 1 .. n : F[u][x] = x + ks[u] + 1
  OBVIOUS
<1>2. \A x \in Nat : \A u \in 1 .. n : F[u][x] \in Nat
  BY <1>1
<1>3. base \in Nat
  OBVIOUS
<1> HIDE DEF F, base
<1>4. PICK g \in [0 .. n -> Nat] : LoopStates(base, n, F, g)
  BY <1>2, <1>3, LoopExists
<1>5. g[0] = base /\ \A u \in 1 .. n : g[u] = g[u - 1] + ks[u] + 1
  <2>1. \A u \in 0 .. n : g[u] = IF u = 0 THEN base ELSE F[u][g[u - 1]]
    BY <1>4, Zenon DEF LoopStates
  <2>2. \A u \in 1 .. n : u \in 0 .. n /\ u # 0 /\ u - 1 \in 0 .. n
    OBVIOUS
  <2>3. \A u \in 1 .. n : g[u] = F[u][g[u - 1]] /\ g[u - 1] \in Nat
    BY <2>1, <2>2
  <2>4. g[0] = base
    BY <2>1
  <2>5. QED
    BY <1>1, <2>3, <2>4
<1>6. QED
  BY <1>5 DEF Ends, base

\* The ends follow each other.
LEMMA EndsFacts ==
    ASSUME NEW n \in Nat, NEW low \in Nat, NEW ks, NEW end, Ends(n, low, ks, end)
    PROVE  /\ end[0] = n + low * n /\ n <= end[0] /\ low * n \in Nat
           /\ \A u \in 0 .. n : end[u] \in Nat /\ end[u] >= end[0] + u /\ end[u] >= end[0]
           /\ \A u \in 1 .. n : /\ ks[u] \in Nat
                                /\ end[u] = end[u - 1] + ks[u] + 1
                                /\ end[u] \in Nat /\ end[u - 1] \in Nat
           /\ \A u \in 0 .. n : end[u] <= end[n]
<1>1. /\ end[0] = n + low * n
      /\ \A u \in 0 .. n : end[u] \in Nat
      /\ \A u \in 1 .. n : /\ ks[u] \in Nat
                           /\ end[u] = end[u - 1] + ks[u] + 1
                           /\ end[u] \in Nat /\ end[u - 1] \in Nat
  BY SMTT(20) DEF Ends
<1> DEFINE G == {u \in 0 .. n : end[u] >= end[0] + u /\ \A v \in 0 .. u : end[v] <= end[u]}
<1>2. 0 \in G
  BY <1>1
<1>3. ASSUME NEW u \in 1 .. n, u - 1 \in G PROVE u \in G
  <2>1. end[u] >= end[u - 1] + 1 /\ u - 1 \in 0 .. n
    BY <1>1
  <2>2. end[u] >= end[0] + u
    BY <1>1, <1>3, <2>1
  <2>3. ASSUME NEW v \in 0 .. u PROVE end[v] <= end[u]
    <3>1. CASE v = u
      BY <1>1, <3>1
    <3>2. CASE v # u
      <4>1. v \in 0 .. u - 1
        BY <3>2
      <4>2. end[v] <= end[u - 1]
        BY <1>3, <4>1
      <4>3. end[v] \in Nat /\ end[u] \in Nat /\ end[u - 1] \in Nat
        BY <1>1, <2>1, <4>1
      <4>4. QED
        BY <2>1, <4>2, <4>3
    <3>3. QED
      BY <3>1, <3>2
  <2>4. QED
    BY <2>2, <2>3
<1> HIDE DEF G
<1>4. \A u \in 0 .. n : u \in G
  BY <1>2, <1>3, EveryTurn
<1>5. n \in G
  BY <1>4
<1>6. \A u \in 0 .. n : end[u] >= end[0] + u /\ end[u] >= end[0] /\ end[u] <= end[n]
  BY <1>1, <1>4, <1>5 DEF G
<1>7. low * n \in Nat
  OBVIOUS
<1>8. n <= end[0]
  BY <1>1, <1>7
<1>9. QED
  BY <1>1, <1>6, <1>7, <1>8

LEMMA RestsFacts ==
    ASSUME NEW n \in Nat, NEW low \in Nat, NEW a \in [1 .. n -> Int]
    PROVE  /\ Rests(n, low, a) \in [1 .. n -> Nat]
           /\ \A u \in 1 .. n : Rests(n, low, a)[u] = Rest(a[u], low)
<1>1. \A u \in 1 .. n : Rest(a[u], low) \in Nat
  BY ValueFacts
<1>2. QED
  BY <1>1 DEF Rests

LEMMA BitsOfFacts ==
    ASSUME NEW x \in Nat, NEW k \in Nat
    PROVE  /\ BitsOf(x, k) \in Seq(Bit) /\ Len(BitsOf(x, k)) = k
           /\ \A j \in 1 .. k : /\ BitsOf(x, k)[j] = (x \div Power(j - 1)) % 2
                                /\ BitsOf(x, k)[j] \in Bit
<1>1. \A j \in 1 .. k : (x \div Power(j - 1)) % 2 \in Bit
  <2>1. \A j \in 1 .. k : j \in Nat \ {0}
    OBVIOUS
  <2>2. QED
    BY <2>1, BitOfMod
<1>2. BitsOf(x, k) \in [1 .. k -> Bit]
  BY <1>1 DEF BitsOf
<1>3. QED
  BY <1>2 DEF BitsOf

LEMMA UnaryFacts ==
    ASSUME NEW k \in Nat
    PROVE  /\ Unary(k) \in Seq(Bit) /\ Len(Unary(k)) = k + 1
           /\ Unary(k)[k + 1] = 1
           /\ \A j \in 1 .. k : Unary(k)[j] = 0
<1>1. Zeros(k) \in Seq(Bit) /\ Len(Zeros(k)) = k /\ \A j \in 1 .. k : Zeros(k)[j] = 0
  <2>1. Zeros(k) \in [1 .. k -> Bit]
    BY DEF Zeros, Bit
  <2>2. QED
    BY <2>1 DEF Zeros
<1>2. <<1>> \in Seq(Bit) /\ Len(<<1>>) = 1 /\ <<1>>[1] = 1
  BY DEF Bit
<1> DEFINE z == Zeros(k)
           o == <<1>>
<1> HIDE DEF z, o
<1>3. /\ z \o o \in Seq(Bit) /\ Len(z \o o) = k + 1
      /\ \A j \in 1 .. k + 1 : (z \o o)[j] = IF j <= k THEN z[j] ELSE o[j - k]
  BY <1>1, <1>2, ConcatProperties DEF z, o
<1>4. (z \o o)[k + 1] = 1 /\ \A j \in 1 .. k : (z \o o)[j] = 0
  BY <1>1, <1>2, <1>3 DEF z, o
<1>5. QED
  BY <1>3, <1>4 DEF Unary, z, o

\* encode_gr() codes the values, and no more.
LEMMA EncodeCoded ==
    ASSUME NEW n \in Nat, NEW low \in Nat, NEW a \in [1 .. n -> Int], NEW ks, NEW end,
           Ends(n, low, ks, end), \A u \in 1 .. n : ks[u] = Rest(a[u], low)
    PROVE  /\ EncodeGR(a, low) \in Seq(Bit) /\ Len(EncodeGR(a, low)) = end[n]
           /\ Coded(EncodeGR(a, low), n, low, a, ks, end)
<1> DEFINE A == [u \in 1 .. n |-> SignBit(a[u])]
           fixed == [u \in 1 .. n |-> BitsOf(Magnitude(a[u]), low)]
           rest == [u \in 1 .. n |-> Unary(Rest(a[u], low))]
           B == FlattenSeq(fixed)
           C == FlattenSeq(rest)
           P == [u \in 0 .. n |-> low * u]
           Q == [u \in 0 .. n |-> end[u] - end[0]]
<1>1. EncodeGR(a, low) = A \o B \o C
  <2>1. DOMAIN a = 1 .. n
    OBVIOUS
  <2>2. QED
    BY <2>1, Zenon DEF EncodeGR
<1>2. \A u \in 1 .. n : /\ a[u] \in Int /\ Magnitude(a[u]) \in Nat
                        /\ SignBit(a[u]) \in Bit /\ ks[u] = Rest(a[u], low)
                        /\ ks[u] \in Nat
  <2>1. \A u \in 1 .. n : a[u] \in Int
    OBVIOUS
  <2>2. \A u \in 1 .. n : Magnitude(a[u]) \in Nat /\ SignBit(a[u]) \in Bit
                          /\ Rest(a[u], low) \in Nat
    BY <2>1, ValueFacts
  <2>3. QED
    BY <2>1, <2>2, Zenon
<1>3. A \in Seq(Bit) /\ Len(A) = n /\ \A u \in 1 .. n : A[u] = SignBit(a[u])
  <2>1. A \in [1 .. n -> Bit]
    BY <1>2
  <2>2. QED
    BY <2>1
<1>4. Joined(Bit, fixed, P, n, B)
      /\ \A u \in 1 .. n : Len(fixed[u]) = low /\ \A j \in 1 .. low :
            fixed[u][j] = (Magnitude(a[u]) \div Power(j - 1)) % 2
  <2>1. \A u \in 1 .. n : /\ fixed[u] \in Seq(Bit) /\ Len(fixed[u]) = low
                          /\ \A j \in 1 .. low :
                                fixed[u][j] = (Magnitude(a[u]) \div Power(j - 1)) % 2
    BY <1>2, BitsOfFacts
  <2>2. fixed \in [1 .. n -> Seq(Bit)]
    BY <2>1
  <2>3. P \in [0 .. n -> Nat] /\ P[0] = 0
    OBVIOUS
  <2>4. \A u \in 1 .. n : P[u] = P[u - 1] + Len(fixed[u])
    <3> SUFFICES ASSUME NEW u \in 1 .. n PROVE P[u] = P[u - 1] + Len(fixed[u])
      OBVIOUS
    <3>1. P[u] = low * u /\ P[u - 1] = low * (u - 1) /\ low * u = low * (u - 1) + low
      OBVIOUS
    <3> HIDE DEF P, fixed
    <3>2. QED
      BY <2>1, <3>1
  <2> HIDE DEF fixed, P, B
  <2>5. Joined(Bit, fixed, P, n, FlattenSeq(fixed))
    BY <2>2, <2>3, <2>4, FlattenFacts
  <2>6. QED
    BY <2>1, <2>5 DEF B
<1>5. /\ end[0] = n + low * n /\ n <= end[0] /\ low * n \in Nat
      /\ \A u \in 0 .. n : end[u] \in Nat /\ end[u] >= end[0]
      /\ \A u \in 1 .. n : /\ end[u] = end[u - 1] + ks[u] + 1
                           /\ end[u] \in Nat /\ end[u - 1] \in Nat
  BY EndsFacts
<1>6. Joined(Bit, rest, Q, n, C)
      /\ \A u \in 1 .. n : /\ Len(rest[u]) = ks[u] + 1
                           /\ rest[u][ks[u] + 1] = 1
                           /\ \A j \in 1 .. ks[u] : rest[u][j] = 0
  <2>1. \A u \in 1 .. n : /\ rest[u] \in Seq(Bit) /\ Len(rest[u]) = ks[u] + 1
                          /\ rest[u][ks[u] + 1] = 1
                          /\ \A j \in 1 .. ks[u] : rest[u][j] = 0
    <3>1. \A u \in 1 .. n : rest[u] = Unary(ks[u])
      <4>1. \A u \in 1 .. n : rest[u] = Unary(Rest(a[u], low))
        OBVIOUS
      <4>2. \A u \in 1 .. n : ks[u] = Rest(a[u], low)
        BY <1>2
      <4> HIDE DEF rest
      <4>3. QED
        BY <4>1, <4>2, Zenon
    <3> HIDE DEF rest
    <3>2. \A u \in 1 .. n : ks[u] \in Nat
      BY <1>2
    <3>3. \A u \in 1 .. n :
             /\ Unary(ks[u]) \in Seq(Bit) /\ Len(Unary(ks[u])) = ks[u] + 1
             /\ Unary(ks[u])[ks[u] + 1] = 1
             /\ \A j \in 1 .. ks[u] : Unary(ks[u])[j] = 0
      BY <3>2, UnaryFacts
    <3>4. ASSUME NEW u \in 1 .. n
          PROVE  /\ rest[u] \in Seq(Bit) /\ Len(rest[u]) = ks[u] + 1
                 /\ rest[u][ks[u] + 1] = 1
                 /\ \A j \in 1 .. ks[u] : rest[u][j] = 0
      <4>1. rest[u] = Unary(ks[u])
        BY <3>1
      <4>2. QED
        BY <3>3, <4>1, Zenon
    <3>5. QED
      BY <3>4, Zenon
  <2>2. rest \in [1 .. n -> Seq(Bit)]
    BY <2>1
  <2>3. Q \in [0 .. n -> Nat] /\ Q[0] = 0
    BY <1>5
  <2>4. \A u \in 1 .. n : Q[u] = Q[u - 1] + Len(rest[u])
    <3> SUFFICES ASSUME NEW u \in 1 .. n PROVE Q[u] = Q[u - 1] + Len(rest[u])
      OBVIOUS
    <3>1. Q[u] = end[u] - end[0] /\ Q[u - 1] = end[u - 1] - end[0] /\ u - 1 \in 0 .. n
      OBVIOUS
    <3> HIDE DEF Q
    <3>2. /\ end[u] \in Nat /\ end[u - 1] \in Nat /\ end[0] \in Nat /\ ks[u] \in Nat
          /\ end[u] = end[u - 1] + ks[u] + 1
      BY <1>2, <1>5
    <3>3. Len(rest[u]) = ks[u] + 1
      BY <2>1
    <3> HIDE DEF rest
    <3>4. end[u] - end[0] = (end[u - 1] - end[0]) + (ks[u] + 1)
      <4> DEFINE x == end[u]
                 y == end[u - 1]
                 z == end[0]
                 k == ks[u]
      <4>1. x \in Nat /\ y \in Nat /\ z \in Nat /\ k \in Nat /\ x = y + k + 1
        BY <3>2
      <4> HIDE DEF x, y, z, k
      <4>2. x - z = (y - z) + (k + 1)
        BY <4>1
      <4>3. QED
        BY <4>2 DEF x, y, z, k
    <3>5. QED
      BY <3>1, <3>3, <3>4, Zenon
  <2> HIDE DEF rest, Q, C
  <2>5. Joined(Bit, rest, Q, n, FlattenSeq(rest))
    BY <2>2, <2>3, <2>4, FlattenFacts
  <2>6. QED
    BY <2>1, <2>5 DEF C
<1> HIDE DEF A, B, C, fixed, rest
<1>7. /\ B \in Seq(Bit) /\ Len(B) = low * n
      /\ C \in Seq(Bit) /\ Len(C) = end[n] - end[0]
  BY <1>4, <1>6 DEF Joined
<1> DEFINE s == (A \o B) \o C
<1>8. low * n \in Nat /\ end[n] - end[0] \in Nat
      /\ n <= end[0] /\ end[0] <= end[n] /\ end[0] \in Nat /\ end[n] \in Nat
  BY <1>5
<1>9. /\ A \o B \in Seq(Bit) /\ Len(A \o B) = end[0]
      /\ \A k \in 1 .. n : (A \o B)[k] = A[k]
      /\ \A k \in 1 .. low * n : (A \o B)[n + k] = B[k]
  <2> DEFINE m == low * n
  <2>1. m \in Nat /\ Len(B) = m /\ n + m = end[0]
    BY <1>5, <1>7, <1>8
  <2> HIDE DEF m
  <2>2. /\ A \o B \in Seq(Bit)
        /\ Len(A \o B) = n + m
        /\ \A k \in 1 .. n + m : (A \o B)[k] = IF k <= n THEN A[k] ELSE B[k - n]
    BY <1>3, <1>7, <2>1, ConcatProperties
  <2>3. \A k \in 1 .. n : k \in 1 .. n + m /\ k <= n
    BY <2>1
  <2>4. \A k \in 1 .. m : n + k \in 1 .. n + m /\ ~(n + k <= n) /\ (n + k) - n = k
    BY <2>1
  <2>5. (\A k \in 1 .. n : (A \o B)[k] = A[k]) /\ \A k \in 1 .. m : (A \o B)[n + k] = B[k]
    BY <2>2, <2>3, <2>4
  <2>6. QED
    BY <2>1, <2>2, <2>5 DEF m
<1>10. /\ s \in Seq(Bit) /\ Len(s) = end[n]
       /\ \A k \in 1 .. end[0] : s[k] = (A \o B)[k]
       /\ \A k \in 1 .. end[n] - end[0] : s[end[0] + k] = C[k]
  <2> DEFINE m == end[n] - end[0]
             AB == A \o B
  <2>1. m \in Nat /\ end[0] + m = end[n] /\ Len(C) = m
    BY <1>7, <1>8
  <2>a. AB \in Seq(Bit) /\ Len(AB) = end[0]
    BY <1>9
  <2> HIDE DEF m, AB
  <2> DEFINE l == end[0]
  <2>b. l \in Nat /\ l = end[0]
    BY <1>8
  <2> HIDE DEF l
  <2>2. /\ AB \o C \in Seq(Bit)
        /\ Len(AB \o C) = l + m
        /\ \A k \in 1 .. l + m : (AB \o C)[k] = IF k <= l THEN AB[k] ELSE C[k - l]
    <3>1. AB \in Seq(Bit) /\ C \in Seq(Bit) /\ Len(AB) = l /\ Len(C) = m /\ l \in Nat /\ m \in Nat
      BY <1>7, <2>a, <2>b, <2>1
    <3>2. QED
      BY <3>1, ConcatProperties
  <2>3. \A k \in 1 .. l : k \in 1 .. l + m /\ k <= l
    BY <2>1, <2>b
  <2>4. \A k \in 1 .. m : l + k \in 1 .. l + m /\ ~(l + k <= l) /\ (l + k) - l = k
    BY <2>1, <2>b
  <2>5. (\A k \in 1 .. l : (AB \o C)[k] = AB[k]) /\ \A k \in 1 .. m : (AB \o C)[l + k] = C[k]
    BY <2>2, <2>3, <2>4
  <2>6. QED
    BY <2>1, <2>2, <2>5, <2>b DEF AB, m
<1> HIDE DEF s
<1>11. /\ \A k \in 1 .. n : s[k] = A[k]
       /\ \A k \in 1 .. low * n : s[n + k] = B[k]
  <2>1. \A k \in 1 .. n : k \in 1 .. end[0]
    BY <1>8
  <2>2. \A k \in 1 .. low * n : n + k \in 1 .. end[0]
    BY <1>5, <1>8
  <2>3. QED
    BY <1>9, <1>10, <2>1, <2>2
<1>12. ASSUME NEW u \in 1 .. n PROVE s[u] = SignBit(a[u])
  BY <1>3, <1>11
<1>13. ASSUME NEW u \in 1 .. n, NEW j \in 1 .. low
       PROVE  s[n + low * (u - 1) + j] = (Magnitude(a[u]) \div Power(j - 1)) % 2
  <2> DEFINE k == low * (u - 1) + j
  <2>1. k \in 1 .. low * n /\ B[k] = fixed[u][j]
    <3>1. P[u - 1] + j \in 1 .. P[n] /\ B[P[u - 1] + j] = fixed[u][j]
      BY <1>4 DEF Joined
    <3>2. P[u - 1] = low * (u - 1) /\ P[n] = low * n
      OBVIOUS
    <3> HIDE DEF P
    <3>3. QED
      BY <3>1, <3>2
  <2>2. n + low * (u - 1) + j = n + k
    OBVIOUS
  <2> HIDE DEF k
  <2>3. s[n + k] = B[k]
    BY <1>11, <2>1
  <2>4. QED
    BY <1>4, <2>1, <2>2, <2>3
<1>14. ASSUME NEW u \in 1 .. n, NEW j \in 1 .. ks[u] + 1
       PROVE  s[end[u - 1] + j] = rest[u][j]
  <2>1. Q[u - 1] + j \in 1 .. Q[n] /\ C[Q[u - 1] + j] = rest[u][j]
    <3>1. j \in 1 .. Len(rest[u])
      BY <1>6
    <3>2. QED
      BY <1>6, <3>1, Zenon DEF Joined
  <2>2. Q[u - 1] = end[u - 1] - end[0] /\ Q[n] = end[n] - end[0] /\ u - 1 \in 0 .. n
    OBVIOUS
  <2> HIDE DEF Q
  <2> DEFINE k == Q[u - 1] + j
  <2>3. end[u - 1] + j = end[0] + k
    BY <1>5, <2>2
  <2>4. k \in 1 .. end[n] - end[0] /\ C[k] = rest[u][j]
    BY <2>1, <2>2
  <2> HIDE DEF k
  <2>5. s[end[0] + k] = C[k]
    BY <1>10, <2>4
  <2>6. QED
    BY <2>3, <2>4, <2>5
<1>15. ASSUME NEW u \in 1 .. n PROVE s[end[u]] = 1
  <2>1. end[u] = end[u - 1] + (ks[u] + 1)
    BY <1>2, <1>5, SMTT(20)
  <2>2. ks[u] + 1 \in 1 .. ks[u] + 1
    BY <1>2
  <2>3. QED
    BY <1>6, <1>14, <2>1, <2>2
<1>16. ASSUME NEW u \in 1 .. n, NEW j \in 1 .. ks[u]
       PROVE  s[end[u - 1] + j] = 0
  <2>1. j \in 1 .. ks[u] + 1
    BY <1>2
  <2>2. QED
    BY <1>6, <1>14, <2>1
<1>17. s = EncodeGR(a, low)
  BY <1>1 DEF s
<1>18. Coded(s, n, low, a, ks, end)
  BY <1>12, <1>13, <1>15, <1>16 DEF Coded
<1>19. QED
  BY <1>10, <1>17, <1>18

-----------------------------------------------------------------------------
(***************************************************************************)
(* Reading the unary part.                                                 *)
(***************************************************************************)
ReadState == [ok : BOOLEAN, next : Nat \ {0}, ks : Seq(Nat)]

\* After e bits, k zeros and a one.
OneAfter(bits, e, k) ==
    /\ k \in Nat /\ e + k + 1 <= Len(bits)
    /\ bits[e + k + 1] = 1
    /\ \A j \in 1 .. k : bits[e + j] = 0

\* One value: what there is to read is read, and nothing else.
LEMMA ReadOne ==
    ASSUME NEW bits \in Seq(Bit), NEW st \in ReadState, NEW hi \in Nat,
           NEW e \in Nat, st.next = e + 1
    PROVE  /\ ReadValue(bits, st, hi) \in ReadState
           /\ ReadValue(bits, st, hi).ok => st.ok
           /\ ReadValue(bits, st, hi).ok =>
                 \E k \in 0 .. hi - 1 :
                    /\ OneAfter(bits, e, k)
                    /\ ReadValue(bits, st, hi)
                       = [ok |-> TRUE, next |-> e + k + 2, ks |-> Append(st.ks, k)]
           /\ \A k \in 0 .. hi - 1 : st.ok /\ OneAfter(bits, e, k) =>
                 ReadValue(bits, st, hi)
                 = [ok |-> TRUE, next |-> e + k + 2, ks |-> Append(st.ks, k)]
<1> DEFINE ones == {x \in st.next .. Len(bits) : bits[x] = 1 /\ x < st.next + hi}
           bad == [ok |-> FALSE, next |-> st.next, ks |-> st.ks]
           end == CHOOSE x \in ones : \A y \in ones : x <= y
           new == ReadValue(bits, st, hi)
           Found(x) == [ok |-> TRUE, next |-> x + 1, ks |-> Append(st.ks, x - st.next)]
<1>1. new = IF ~st.ok \/ ones = {} THEN bad ELSE Found(end)
  BY Zenon DEF ReadValue
<1>2. /\ st = [ok |-> st.ok, next |-> st.next, ks |-> st.ks]
      /\ st.ok \in BOOLEAN /\ st.next \in Nat \ {0} /\ st.ks \in Seq(Nat)
  BY DEF ReadState
<1>4. bad \in ReadState /\ ~bad.ok
  BY <1>2 DEF ReadState
<1>5. Len(bits) \in Nat /\ \A x \in 1 .. Len(bits) : bits[x] \in Bit
  OBVIOUS
<1>6. \A x : x \in ones <=> /\ x \in Nat /\ x >= e + 1 /\ x <= Len(bits)
                            /\ bits[x] = 1 /\ x < e + 1 + hi
  <2> DEFINE from == st.next
             l == Len(bits)
  <2>1. from = e + 1 /\ from \in Nat /\ l \in Nat
    BY <1>5
  <2>2. ones = {x \in from .. l : bits[x] = 1 /\ x < from + hi}
    OBVIOUS
  <2> HIDE DEF from, l, ones
  <2>3. \A x : x \in ones <=> x \in from .. l /\ bits[x] = 1 /\ x < from + hi
    BY <2>2, Zenon
  <2>4. \A x : x \in from .. l <=> x \in Nat /\ from <= x /\ x <= l
    BY <2>1
  <2>5. \A x : x \in ones <=> x \in Nat /\ x >= e + 1 /\ x <= l /\ bits[x] = 1 /\ x < e + 1 + hi
    BY <2>1, <2>3, <2>4
  <2>6. QED
    BY <2>5, Zenon DEF l
<1>7. ASSUME ones # {} PROVE end \in ones /\ \A y \in ones : end <= y
  <2>1. ones \subseteq Nat
    BY <1>6
  <2>2. \E x \in ones : \A y \in ones : x <= y
    BY <1>7, <2>1, LeastNatural
  <2> HIDE DEF ones
  <2>3. QED
    BY <2>2
<1> HIDE DEF ones, end, new, bad
\* The first one, counted from the place before.
<1>8. ASSUME ones # {}, st.ok
      PROVE  /\ end - (e + 1) \in 0 .. hi - 1 /\ OneAfter(bits, e, end - (e + 1))
             /\ new = [ok |-> TRUE, next |-> e + (end - (e + 1)) + 2,
                       ks |-> Append(st.ks, end - (e + 1))]
             /\ new \in ReadState
  <2>1. /\ end \in Nat /\ end >= e + 1 /\ end <= Len(bits) /\ bits[end] = 1
        /\ end < e + 1 + hi
    BY <1>6, <1>7, <1>8
  <2> DEFINE k == end - (e + 1)
  <2>2. k \in 0 .. hi - 1 /\ e + k + 1 = end /\ e + k + 2 = end + 1
    BY <2>1
  <2>3. ASSUME NEW j \in 1 .. k PROVE bits[e + j] = 0
    <3>1. e + j \in 1 .. Len(bits) /\ e + j < end /\ e + j \in Nat
          /\ e + j >= e + 1 /\ e + j < e + 1 + hi
      BY <2>1, <2>2, <1>5
    <3>2. e + j \notin ones
      BY <1>7, <1>8, <2>1, <3>1
    <3>3. bits[e + j] # 1
      BY <1>6, <3>1, <3>2
    <3>4. QED
      BY <1>5, <3>1, <3>3 DEF Bit
  <2>4. OneAfter(bits, e, k)
    BY <2>1, <2>2, <2>3 DEF OneAfter
  <2>5. new = Found(end)
    BY <1>1, <1>8
  <2>6. new = [ok |-> TRUE, next |-> e + k + 2, ks |-> Append(st.ks, k)]
    BY <2>2, <2>5
  <2>7. k \in Nat /\ e + k + 2 \in Nat \ {0}
    BY <2>2
  <2> HIDE DEF k
  <2>8. Append(st.ks, k) \in Seq(Nat)
    BY <1>2, <2>7, AppendProperties
  <2>9. new \in ReadState
    BY <2>6, <2>7, <2>8 DEF ReadState
  <2>10. QED
    BY <2>2, <2>4, <2>6, <2>9 DEF k
<1>9. ASSUME NEW k \in 0 .. hi - 1, st.ok, OneAfter(bits, e, k)
      PROVE  ones # {} /\ end - (e + 1) = k
  <2>1. /\ k \in Nat /\ e + k + 1 <= Len(bits) /\ bits[e + k + 1] = 1
        /\ \A j \in 1 .. k : bits[e + j] = 0
    BY <1>9 DEF OneAfter
  <2>2. e + k + 1 \in ones
    BY <1>6, <2>1
  <2>3. /\ end \in Nat /\ end >= e + 1 /\ end <= e + k + 1 /\ bits[end] = 1
    BY <1>6, <1>7, <2>2
  <2>4. end # e + k + 1 => end - e \in 1 .. k /\ e + (end - e) = end
    BY <2>1, <2>3
  <2>5. end = e + k + 1
    BY <2>1, <2>3, <2>4
  <2>6. QED
    BY <2>1, <2>2, <2>5
<1>10. new \in ReadState
  BY <1>1, <1>4, <1>8
<1>11. new.ok => st.ok /\ ones # {}
  BY <1>1, <1>4
<1>12. QED
  BY <1>8, <1>9, <1>10, <1>11 DEF new

\* The unary part of n values, each ending where it says.
Reads(bits, n, hi, base, ks, end) ==
    /\ ks \in [1 .. n -> Nat]
    /\ end \in [0 .. n -> Nat]
    /\ end[0] = base
    /\ \A u \in 1 .. n : /\ end[u] = end[u - 1] + ks[u] + 1
                         /\ ks[u] \in 0 .. hi - 1
                         /\ OneAfter(bits, end[u - 1], ks[u])

\* The loop that reads, from a state.
ReadTurns(bits, st, n, hi, g) ==
    /\ g \in [0 .. n -> ReadState]
    /\ ReadMany(bits, st, n, hi) = g[n]
    /\ g[0] = st
    /\ \A u \in 1 .. n : g[u] = ReadValue(bits, g[u - 1], hi)

LEMMA ReadStates ==
    ASSUME NEW bits \in Seq(Bit), NEW st \in ReadState, NEW hi \in Nat
    PROVE  /\ ReadValue(bits, st, hi) \in ReadState
           /\ ReadValue(bits, st, hi).ok => st.ok
<1> DEFINE e == st.next - 1
<1>1. e \in Nat /\ st.next = e + 1
  BY DEF ReadState
<1> HIDE DEF e
<1>2. QED
  BY <1>1, ReadOne

LEMMA ReadLoop ==
    ASSUME NEW bits \in Seq(Bit), NEW start \in ReadState, NEW n \in Nat, NEW hi \in Nat
    PROVE  \E g : ReadTurns(bits, start, n, hi, g)
<1> DEFINE F == [u \in 1 .. n |-> [st \in ReadState |-> ReadValue(bits, st, hi)]]
           Loop(g) == g = [u \in 0 .. n |-> IF u = 0 THEN start
                                            ELSE ReadValue(bits, g[u - 1], hi)]
           read == CHOOSE g : Loop(g)
<1>1. ReadMany(bits, start, n, hi) = read[n]
  BY Zenon DEF ReadMany
<1>4. \A st \in ReadState : \A u \in 1 .. n : F[u][st] = ReadValue(bits, st, hi)
  OBVIOUS
<1>5. \A st \in ReadState : \A u \in 1 .. n : F[u][st] \in ReadState
  BY <1>4, ReadStates
<1> HIDE DEF F
<1>6. PICK g \in [0 .. n -> ReadState] : LoopStates(start, n, F, g)
  BY <1>5, LoopExists
<1>7. \A u \in 0 .. n : g[u] = IF u = 0 THEN start ELSE ReadValue(bits, g[u - 1], hi)
  <2> SUFFICES ASSUME NEW u \in 0 .. n
               PROVE  g[u] = IF u = 0 THEN start ELSE ReadValue(bits, g[u - 1], hi)
    OBVIOUS
  <2>1. g[u] = IF u = 0 THEN start ELSE F[u][g[u - 1]]
    BY <1>6, Zenon DEF LoopStates
  <2>2. u # 0 => u \in 1 .. n /\ u - 1 \in 0 .. n
    OBVIOUS
  <2>3. QED
    BY <1>4, <1>6, <2>1, <2>2
<1>8. g = [u \in 0 .. n |-> g[u]]
  BY <1>6
<1>9. Loop(g)
  BY <1>7, <1>8, Zenon
<1> HIDE DEF Loop
<1>10. Loop(read)
  BY <1>9
<1> HIDE DEF read
<1>11. \A u \in 0 .. n : read[u] = IF u = 0 THEN start ELSE ReadValue(bits, read[u - 1], hi)
  BY <1>10, Zenon DEF Loop
<1>12. read = [u \in 0 .. n |-> read[u]]
  BY <1>10, <1>11, Zenon DEF Loop
<1>13. \A u \in 1 .. n : read[u] = ReadValue(bits, read[u - 1], hi)
  <2>1. \A u \in 1 .. n : u \in 0 .. n /\ u # 0
    OBVIOUS
  <2>2. QED
    BY <1>11, <2>1, Zenon
<1>14. read[0] = start
  <2>1. 0 \in 0 .. n
    OBVIOUS
  <2>2. QED
    BY <1>11, <2>1, Zenon
<1> DEFINE G == {u \in 0 .. n : read[u] \in ReadState}
<1>15. 0 \in G
  BY <1>14
<1>16. ASSUME NEW u \in 1 .. n, u - 1 \in G PROVE u \in G
  BY ReadStates, <1>13, <1>16
<1> HIDE DEF G
<1>17. \A u \in 0 .. n : u \in G
  BY <1>15, <1>16, EveryTurn
<1>18. read \in [0 .. n -> ReadState]
  <2>1. \A u \in 0 .. n : read[u] \in ReadState
    BY <1>17 DEF G
  <2>2. QED
    BY <1>12, <2>1
<1>19. ReadTurns(bits, start, n, hi, read)
  BY <1>1, <1>13, <1>14, <1>18 DEF ReadTurns
<1>20. QED
  BY <1>19

\* decode_gr() starts with no values.
UnaryTurns(bits, base, n, hi, g) ==
    /\ g \in [0 .. n -> ReadState]
    /\ ReadUnary(bits, base + 1, n, hi) = g[n]
    /\ g[0] = [ok |-> TRUE, next |-> base + 1, ks |-> <<>>]
    /\ \A u \in 1 .. n : g[u] = ReadValue(bits, g[u - 1], hi)

LEMMA UnaryLoop ==
    ASSUME NEW bits \in Seq(Bit), NEW base \in Nat, NEW n \in Nat, NEW hi \in Nat
    PROVE  \E g : UnaryTurns(bits, base, n, hi, g)
<1> DEFINE start == [ok |-> TRUE, next |-> base + 1, ks |-> <<>>]
<1>1. start \in ReadState
  <2>1. base + 1 \in Nat \ {0} /\ <<>> \in Seq(Nat)
    OBVIOUS
  <2>2. QED
    BY <2>1 DEF ReadState
<1>2. ReadUnary(bits, base + 1, n, hi) = ReadMany(bits, start, n, hi)
  BY Zenon DEF ReadUnary
<1> HIDE DEF start
<1>3. PICK g : ReadTurns(bits, start, n, hi, g)
  BY <1>1, ReadLoop
<1>4. QED
  BY <1>2, <1>3, Zenon DEF ReadTurns, start, UnaryTurns

\* What is there is read.
LEMMA ReadThere ==
    ASSUME NEW bits \in Seq(Bit), NEW base \in Nat, NEW n \in Nat, NEW hi \in Nat,
           NEW ks, NEW end, Reads(bits, n, hi, base, ks, end)
    PROVE  ReadUnary(bits, base + 1, n, hi) = [ok |-> TRUE, next |-> end[n] + 1, ks |-> ks]
<1>20. PICK g : UnaryTurns(bits, base, n, hi, g)
  BY UnaryLoop
<1>1. /\ g \in [0 .. n -> ReadState]
      /\ ReadUnary(bits, base + 1, n, hi) = g[n]
      /\ g[0] = [ok |-> TRUE, next |-> base + 1, ks |-> <<>>]
      /\ \A u \in 1 .. n : g[u] = ReadValue(bits, g[u - 1], hi)
  BY <1>20, Zenon DEF UnaryTurns
<1>2. /\ ks \in [1 .. n -> Nat] /\ end \in [0 .. n -> Nat] /\ end[0] = base
      /\ \A u \in 1 .. n : /\ end[u] = end[u - 1] + ks[u] + 1
                           /\ ks[u] \in 0 .. hi - 1
                           /\ OneAfter(bits, end[u - 1], ks[u])
  BY DEF Reads
<1> DEFINE G == {u \in 0 .. n :
                    /\ g[u].ok = TRUE /\ g[u].next = end[u] + 1 /\ Len(g[u].ks) = u
                    /\ \A v \in 1 .. u : g[u].ks[v] = ks[v]}
<1>3. 0 \in G
  <2>1. g[0].ok = TRUE /\ g[0].next = base + 1 /\ g[0].ks = <<>> /\ Len(<<>>) = 0
    BY <1>1
  <2>2. \A v \in 1 .. 0 : FALSE
    OBVIOUS
  <2>3. QED
    BY <1>2, <2>1, <2>2
<1>4. ASSUME NEW u \in 1 .. n, u - 1 \in G PROVE u \in G
  <2> DEFINE st == g[u - 1]
             e == end[u - 1]
             k == ks[u]
  <2>1. /\ u - 1 \in 0 .. n /\ e \in Nat /\ k \in 0 .. hi - 1 /\ OneAfter(bits, e, k)
        /\ end[u] = e + k + 1 /\ st \in ReadState
    BY <1>1, <1>2
  <2>2. /\ st.ok = TRUE /\ st.next = e + 1 /\ Len(st.ks) = u - 1
        /\ \A v \in 1 .. u - 1 : st.ks[v] = ks[v]
    BY <1>4
  <2>3. g[u] = ReadValue(bits, st, hi)
    BY <1>1
  <2>4. st.ks \in Seq(Nat) /\ k \in Nat
    BY <2>1 DEF ReadState
  <2> HIDE DEF st, e, k, G
  <2>5. g[u] = [ok |-> TRUE, next |-> e + k + 2, ks |-> Append(st.ks, k)]
    BY <2>1, <2>2, <2>3, ReadOne
  <2> DEFINE t == st.ks
             r == Append(t, k)
  <2>6. g[u].ok = TRUE /\ g[u].next = e + k + 2 /\ g[u].ks = r
    BY <2>5
  <2>7. t \in Seq(Nat) /\ Len(t) = u - 1 /\ \A v \in 1 .. u - 1 : t[v] = ks[v]
    BY <2>2, <2>4
  <2> HIDE DEF t
  <2>8. Len(r) = u /\ \A v \in 1 .. u : r[v] = IF v = u THEN k ELSE t[v]
    BY <2>4, <2>7, AppendProperties
  <2>9. \A v \in 1 .. u : r[v] = ks[v]
    BY <2>7, <2>8, SMTT(20) DEF k
  <2>10. g[u].next = end[u] + 1
    BY <2>1, <2>4, <2>6
  <2> HIDE DEF r
  <2>11. QED
    BY <2>6, <2>8, <2>9, <2>10 DEF G
<1> HIDE DEF G
<1>5. \A u \in 0 .. n : u \in G
  BY <1>3, <1>4, EveryTurn
<1>6. n \in G /\ n \in 0 .. n
  BY <1>5
<1>7. /\ g[n].ok = TRUE /\ g[n].next = end[n] + 1 /\ Len(g[n].ks) = n
      /\ \A v \in 1 .. n : g[n].ks[v] = ks[v]
      /\ g[n] \in ReadState
  BY <1>1, <1>6 DEF G
<1> DEFINE st == g[n]
           t == st.ks
<1>8. /\ st = [ok |-> st.ok, next |-> st.next, ks |-> st.ks]
      /\ t \in Seq(Nat)
  BY <1>7 DEF ReadState
<1>9. t = ks
  <2>1. Len(t) = n /\ \A v \in 1 .. n : t[v] = ks[v]
    BY <1>7
  <2> HIDE DEF t
  <2>2. t \in [1 .. n -> Nat]
    BY <1>8, <2>1
  <2>3. QED
    BY <1>2, <2>1, <2>2
<1>10. ReadUnary(bits, base + 1, n, hi) = st
  BY <1>1
<1>11. st.ok = TRUE /\ st.next = end[n] + 1 /\ st.ks = ks
  BY <1>7, <1>9
<1> HIDE DEF st
<1>12. QED
  BY <1>8, <1>10, <1>11

\* What is read is there.
LEMMA ThereRead ==
    ASSUME NEW bits \in Seq(Bit), NEW base \in Nat, NEW n \in Nat, NEW hi \in Nat
    PROVE  ReadUnary(bits, base + 1, n, hi).ok =>
              \E ks, end : Reads(bits, n, hi, base, ks, end)
<1>20. PICK g : UnaryTurns(bits, base, n, hi, g)
  BY UnaryLoop
<1>1. /\ g \in [0 .. n -> ReadState]
      /\ ReadUnary(bits, base + 1, n, hi) = g[n]
      /\ g[0] = [ok |-> TRUE, next |-> base + 1, ks |-> <<>>]
      /\ \A u \in 1 .. n : g[u] = ReadValue(bits, g[u - 1], hi)
  BY <1>20, Zenon DEF UnaryTurns
<1>0. HAVE ReadUnary(bits, base + 1, n, hi).ok
<1> DEFINE end == [u \in 0 .. n |-> g[u].next - 1]
           ks == [u \in 1 .. n |-> end[u] - end[u - 1] - 1]
<1>2. \A u \in 0 .. n : /\ g[u] \in ReadState /\ end[u] \in Nat
                        /\ g[u].next = end[u] + 1
  <2> SUFFICES ASSUME NEW u \in 0 .. n
               PROVE  g[u] \in ReadState /\ end[u] \in Nat /\ g[u].next = end[u] + 1
    OBVIOUS
  <2>1. g[u] \in ReadState /\ end[u] = g[u].next - 1
    BY <1>1
  <2>2. g[u].next \in Nat \ {0}
    BY <2>1 DEF ReadState
  <2> HIDE DEF end
  <2>3. QED
    BY <2>1, <2>2
<1>3. ASSUME NEW u \in 1 .. n
      PROVE  /\ g[u].ok => g[u - 1].ok
             /\ g[u].ok => \E k \in 0 .. hi - 1 :
                   OneAfter(bits, end[u - 1], k) /\ end[u] = end[u - 1] + k + 1
  <2> DEFINE st == g[u - 1]
             new == ReadValue(bits, st, hi)
             e == end[u - 1]
  <2>1. u - 1 \in 0 .. n /\ u \in 0 .. n
    OBVIOUS
  <2>2. st \in ReadState /\ e \in Nat /\ st.next = e + 1
    BY <1>2, <2>1
  <2>3. g[u] = new /\ new.next = end[u] + 1 /\ end[u] \in Nat
    BY <1>1, <1>2, <2>1
  <2> HIDE DEF st, new, e, end
  <2>4. /\ new.ok => st.ok
        /\ new.ok => \E k \in 0 .. hi - 1 :
              /\ OneAfter(bits, e, k)
              /\ new = [ok |-> TRUE, next |-> e + k + 2, ks |-> Append(st.ks, k)]
    BY <2>2, ReadOne DEF new
  <2>5. ASSUME new.ok
        PROVE  \E k \in 0 .. hi - 1 : OneAfter(bits, e, k) /\ end[u] = e + k + 1
    <3>1. PICK k \in 0 .. hi - 1 :
             /\ OneAfter(bits, e, k)
             /\ new = [ok |-> TRUE, next |-> e + k + 2, ks |-> Append(st.ks, k)]
      BY <2>4, <2>5
    <3>2. new.next = e + k + 2
      BY <3>1
    <3>3. end[u] = e + k + 1
      BY <2>2, <2>3, <3>2
    <3>4. QED
      BY <3>1, <3>3
  <2>6. QED
    BY <2>3, <2>4, <2>5 DEF st, e
<1> HIDE DEF end
<1> DEFINE G == {u \in 0 .. n : g[u].ok => \A v \in 0 .. u : g[v].ok}
<1>4. 0 \in G
  <2>1. \A v \in 0 .. 0 : v = 0
    OBVIOUS
  <2>2. QED
    BY <2>1
<1>5. ASSUME NEW u \in 1 .. n, u - 1 \in G PROVE u \in G
  <2>1. g[u].ok => \A v \in 0 .. u - 1 : g[v].ok
    BY <1>3, <1>5
  <2>2. \A v \in 0 .. u : v = u \/ v \in 0 .. u - 1
    OBVIOUS
  <2>3. QED
    BY <2>1, <2>2
<1> HIDE DEF G
<1>6. n \in G /\ n \in 0 .. n
  <2>1. \A u \in 0 .. n : u \in G
    BY <1>4, <1>5, EveryTurn
  <2>2. QED
    BY <2>1
<1>7. \A u \in 1 .. n : g[u].ok
  <2>1. \A v \in 0 .. n : g[v].ok
    BY <1>0, <1>1, <1>6 DEF G
  <2>2. QED
    BY <2>1
<1>8. ASSUME NEW u \in 1 .. n
      PROVE  /\ ks[u] \in 0 .. hi - 1 /\ OneAfter(bits, end[u - 1], ks[u])
             /\ end[u] = end[u - 1] + ks[u] + 1
  <2>1. PICK k \in 0 .. hi - 1 : OneAfter(bits, end[u - 1], k) /\ end[u] = end[u - 1] + k + 1
    BY <1>3, <1>7
  <2>2. end[u - 1] \in Nat /\ end[u] \in Nat
    BY <1>2
  <2>3. ks[u] = end[u] - end[u - 1] - 1
    OBVIOUS
  <2> HIDE DEF ks
  <2>4. ks[u] = k
    BY <2>1, <2>2, <2>3
  <2>5. QED
    BY <2>1, <2>4
<1>9. ks \in [1 .. n -> Nat]
  <2>1. \A u \in 1 .. n : ks[u] \in Nat
    BY <1>8
  <2>2. QED
    BY <2>1
<1>10. end \in [0 .. n -> Nat] /\ end[0] = base
  <2>1. end = [u \in 0 .. n |-> end[u]]
    BY DEF end
  <2>2. g[0].next = base + 1
    BY <1>1
  <2>3. 0 \in 0 .. n
    OBVIOUS
  <2>4. QED
    BY <1>2, <2>1, <2>2, <2>3
<1> HIDE DEF ks
<1>11. Reads(bits, n, hi, base, ks, end)
  BY <1>8, <1>9, <1>10 DEF Reads
<1>12. QED
  BY <1>11

-----------------------------------------------------------------------------
(***************************************************************************)
(* The decoders of a build with AVX2 read what decode_gr() reads.          *)
(***************************************************************************)
\* Two reads are refused both, or are the same.
Alike(a, b) == a.ok = b.ok /\ (a.ok => a = b)

\* a + b values are a of them and then b of them.
LEMMA ManyThen ==
    ASSUME NEW bits \in Seq(Bit), NEW st \in ReadState, NEW hi \in Nat,
           NEW a \in Nat, NEW b \in Nat, NEW c \in Nat, c = a + b
    PROVE  /\ ReadMany(bits, st, a, hi) \in ReadState
           /\ ReadMany(bits, ReadMany(bits, st, a, hi), b, hi) = ReadMany(bits, st, c, hi)
<1>1. PICK f : ReadTurns(bits, st, a, hi, f)
  BY ReadLoop
<1>2. /\ f \in [0 .. a -> ReadState] /\ ReadMany(bits, st, a, hi) = f[a] /\ f[0] = st
      /\ \A u \in 1 .. a : f[u] = ReadValue(bits, f[u - 1], hi)
  BY <1>1, Zenon DEF ReadTurns
<1>3. f[a] \in ReadState
  BY <1>2
<1>4. PICK g : ReadTurns(bits, f[a], b, hi, g)
  BY <1>3, ReadLoop
<1>5. /\ ReadMany(bits, f[a], b, hi) = g[b] /\ g[0] = f[a]
      /\ \A u \in 1 .. b : g[u] = ReadValue(bits, g[u - 1], hi)
  BY <1>4, Zenon DEF ReadTurns
<1>6. a + b \in Nat
  OBVIOUS
<1>7. PICK h : ReadTurns(bits, st, a + b, hi, h)
  BY <1>6, ReadLoop
<1>8. /\ ReadMany(bits, st, a + b, hi) = h[a + b] /\ h[0] = st
      /\ \A u \in 1 .. a + b : h[u] = ReadValue(bits, h[u - 1], hi)
  BY <1>7, Zenon DEF ReadTurns
<1> DEFINE F == {u \in 0 .. a : h[u] = f[u]}
           G == {u \in 0 .. b : h[a + u] = g[u]}
<1>9. 0 \in F
  BY <1>2, <1>8
<1>10. ASSUME NEW u \in 1 .. a, u - 1 \in F PROVE u \in F
  <2>1. u \in 1 .. a + b
    OBVIOUS
  <2>2. h[u] = ReadValue(bits, h[u - 1], hi) /\ f[u] = ReadValue(bits, f[u - 1], hi)
    BY <1>2, <1>8, <2>1
  <2>3. QED
    BY <1>10, <2>2
<1>11. h[a] = f[a]
  <2> HIDE DEF F
  <2>1. \A u \in 0 .. a : u \in F
    BY <1>9, <1>10, EveryTurn
  <2>2. a \in F
    BY <2>1
  <2>3. QED
    BY <2>2 DEF F
<1>12. 0 \in G
  BY <1>5, <1>11
<1>13. ASSUME NEW u \in 1 .. b, u - 1 \in G PROVE u \in G
  <2> DEFINE w == a + u
  <2>1. w \in 1 .. a + b /\ w - 1 = a + (u - 1)
    OBVIOUS
  <2> HIDE DEF w
  <2>2. h[w] = ReadValue(bits, h[w - 1], hi) /\ g[u] = ReadValue(bits, g[u - 1], hi)
    BY <1>5, <1>8, <2>1
  <2>3. h[a + (u - 1)] = g[u - 1]
    BY <1>13
  <2>4. h[a + u] = g[u]
    BY <2>1, <2>2, <2>3, Zenon DEF w
  <2>5. QED
    BY <2>4
<1>14. h[a + b] = g[b]
  <2> HIDE DEF G
  <2>1. \A u \in 0 .. b : u \in G
    BY <1>12, <1>13, EveryTurn
  <2>2. b \in G
    BY <2>1
  <2>3. QED
    BY <2>2 DEF G
<1>15. QED
  BY <1>2, <1>3, <1>5, <1>8, <1>14, Zenon

\* The same of the values of a code.
LEMMA UnaryNone ==
    ASSUME NEW bits \in Seq(Bit), NEW from \in Nat \ {0}, NEW hi \in Nat
    PROVE  ReadUnary(bits, from, 0, hi) = [ok |-> TRUE, next |-> from, ks |-> <<>>]
<1> DEFINE start == [ok |-> TRUE, next |-> from, ks |-> <<>>]
<1>1. start \in ReadState
  <2>1. <<>> \in Seq(Nat)
    OBVIOUS
  <2>2. QED
    BY <2>1 DEF ReadState
<1> HIDE DEF start
<1>2. PICK r : ReadTurns(bits, start, 0, hi, r)
  BY <1>1, ReadLoop
<1>3. ReadMany(bits, start, 0, hi) = start
  BY <1>2, Zenon DEF ReadTurns
<1>4. QED
  BY <1>3, Zenon DEF ReadUnary, start

LEMMA UnaryThen ==
    ASSUME NEW bits \in Seq(Bit), NEW from \in Nat \ {0}, NEW hi \in Nat,
           NEW a \in Nat, NEW b \in Nat, NEW c \in Nat, c = a + b
    PROVE  /\ ReadUnary(bits, from, a, hi) \in ReadState
           /\ ReadUnary(bits, from, c, hi) = ReadMany(bits, ReadUnary(bits, from, a, hi), b, hi)
<1> DEFINE start == [ok |-> TRUE, next |-> from, ks |-> <<>>]
<1>1. start \in ReadState
  <2>1. <<>> \in Seq(Nat)
    OBVIOUS
  <2>2. QED
    BY <2>1 DEF ReadState
<1>2. \A k : ReadUnary(bits, from, k, hi) = ReadMany(bits, start, k, hi)
  BY Zenon DEF ReadUnary
<1> HIDE DEF start
<1>3. /\ ReadMany(bits, start, a, hi) \in ReadState
      /\ ReadMany(bits, ReadMany(bits, start, a, hi), b, hi) = ReadMany(bits, start, c, hi)
  <2>1. ReadMany(bits, start, a, hi) \in ReadState
    BY <1>1, ManyThen
  <2>2. ReadMany(bits, ReadMany(bits, start, a, hi), b, hi) = ReadMany(bits, start, c, hi)
    BY <1>1, ManyThen
  <2>3. QED
    BY <2>1, <2>2
<1>4. QED
  BY <1>2, <1>3, Zenon DEF start

\* Nothing is read after an error.
LEMMA ManyRefused ==
    ASSUME NEW bits \in Seq(Bit), NEW st \in ReadState, NEW n \in Nat, NEW hi \in Nat, ~st.ok
    PROVE  ~ReadMany(bits, st, n, hi).ok
<1>1. PICK g : ReadTurns(bits, st, n, hi, g)
  BY ReadLoop
<1>2. /\ g \in [0 .. n -> ReadState] /\ ReadMany(bits, st, n, hi) = g[n] /\ g[0] = st
      /\ \A u \in 1 .. n : g[u] = ReadValue(bits, g[u - 1], hi)
  BY <1>1, Zenon DEF ReadTurns
<1> DEFINE G == {u \in 0 .. n : ~g[u].ok}
<1>3. 0 \in G
  BY <1>2
<1>4. ASSUME NEW u \in 1 .. n, u - 1 \in G PROVE u \in G
  <2>1. g[u - 1] \in ReadState /\ ~g[u - 1].ok /\ g[u] = ReadValue(bits, g[u - 1], hi)
    BY <1>2, <1>4
  <2>2. ~g[u].ok
    BY <2>1, ReadStates, Zenon
  <2>3. QED
    BY <2>2
<1> HIDE DEF G
<1>5. n \in G
  <2>1. \A u \in 0 .. n : u \in G
    BY <1>3, <1>4, EveryTurn
  <2>2. QED
    BY <2>1
<1>6. QED
  BY <1>2, <1>5 DEF G

\* Where the word ends and where its guard bits begin.
LEMMA WordFacts ==
    ASSUME NEW byte \in Nat \ {0}, NEW look \in Nat, look >= 2
    PROVE  /\ byte * (look - 2) \in Nat
           /\ byte * (look - 1) = byte * (look - 2) + byte
           /\ byte * look = byte * (look - 2) + 2 * byte
<1>1. look - 2 \in Nat
  OBVIOUS
<1> DEFINE k == look - 2
<1>2. k \in Nat /\ look = k + 2 /\ look - 1 = k + 1
  OBVIOUS
<1> HIDE DEF k
<1>3. byte * k \in Nat /\ byte * (k + 1) = byte * k + byte /\ byte * (k + 2) = byte * k + 2 * byte
  BY <1>2
<1>4. QED
  BY <1>2, <1>3 DEF k

\* Values taken one after the other, each of them found.
TakenTurns(bits, st, n, hi, g, ks) ==
    /\ ReadTurns(bits, st, n, hi, g)
    /\ ks \in [1 .. n -> Nat]
    /\ \A u \in 0 .. n : g[u].ok
    /\ \A u \in 1 .. n :
          /\ OneAfter(bits, g[u - 1].next - 1, ks[u])
          /\ g[u] = [ok |-> TRUE, next |-> g[u - 1].next + ks[u] + 1,
                     ks |-> Append(g[u - 1].ks, ks[u])]

\* From "st" on, the next bit that is set comes after e bits and k zeros.
NextOne(bits, st, hi, e, k) ==
    /\ bits \in Seq(Bit) /\ st \in ReadState /\ st.ok /\ st.next = e + 1
    /\ hi \in Nat /\ e \in Nat /\ k \in 0 .. hi - 1
    /\ OneAfter(bits, e, k)

\* A value that is found is taken.
LEMMA ReadFound ==
    ASSUME NEW bits, NEW st, NEW hi, NEW e, NEW k, NextOne(bits, st, hi, e, k)
    PROVE  ReadValue(bits, st, hi) = [ok |-> TRUE, next |-> e + k + 2, ks |-> Append(st.ks, k)]
<1>1. /\ bits \in Seq(Bit) /\ st \in ReadState /\ hi \in Nat /\ e \in Nat /\ st.next = e + 1
      /\ k \in 0 .. hi - 1 /\ st.ok /\ OneAfter(bits, e, k)
  BY DEF NextOne
<1>2. QED
  BY <1>1, ReadOne

\* With the guard bits, each of a byte's worth of values ends in the word.
LEMMA GuardedRead ==
    ASSUME NEW bits \in Seq(Bit), NEW st \in ReadState, st.ok,
           NEW byte \in Nat \ {0}, NEW look \in Nat, look >= 2,
           st.next - 1 + byte * look <= Len(bits),
           NEW guard \in Nat, guard = st.next + byte * (look - 1)
    PROVE  /\ Guarded(bits, st, byte, look) \in Seq(Bit)
           /\ Len(Guarded(bits, st, byte, look)) = guard + byte - 1
           /\ \A i \in 1 .. guard + byte - 1 :
                 Guarded(bits, st, byte, look)[i] = IF i < guard THEN bits[i] ELSE 1
           /\ \E g, ks : TakenTurns(Guarded(bits, st, byte, look), st, byte,
                                    byte * look, g, ks)
<1> DEFINE cut == Guarded(bits, st, byte, look)
           top == byte * look
           l == guard + byte - 1
           from == st.next
<1>1. /\ from \in Nat \ {0} /\ top \in Nat /\ guard \in Nat /\ l \in Nat
      /\ from <= guard /\ guard + byte = from + top /\ l <= Len(bits)
      /\ Len(bits) \in Nat
  <2>1. from \in Nat \ {0}
    BY DEF ReadState
  <2> DEFINE k == byte * (look - 2)
  <2>2. k \in Nat /\ guard = from + (k + byte) /\ top = k + 2 * byte
    BY WordFacts
  <2>3. Len(bits) \in Nat /\ from - 1 + top <= Len(bits)
    OBVIOUS
  <2> HIDE DEF k, top, from
  <2>4. QED
    BY <2>1, <2>2, <2>3
<1>2. cut = [i \in 1 .. l |-> IF i < guard THEN bits[i] ELSE 1]
  BY Zenon DEF Guarded
<1>3. \A i \in 1 .. l : i \in 1 .. Len(bits) /\ bits[i] \in Bit
  <2> HIDE DEF l
  <2>1. QED
    BY <1>1
<1> HIDE DEF cut, top, l, from
<1>4. /\ cut \in Seq(Bit) /\ Len(cut) = l
      /\ \A i \in 1 .. l : cut[i] = IF i < guard THEN bits[i] ELSE 1
  <2>1. \A i \in 1 .. l : cut[i] = IF i < guard THEN bits[i] ELSE 1
    BY <1>2
  <2>2. \A i \in 1 .. l : cut[i] \in Bit
    BY <1>3, <2>1 DEF Bit
  <2>3. cut = [i \in 1 .. l |-> cut[i]]
    BY <1>2, <2>1
  <2>4. cut \in [1 .. l -> Bit]
    BY <2>2, <2>3
  <2>5. QED
    BY <1>1, <2>1, <2>4
<1>5. PICK g : ReadTurns(cut, st, byte, top, g)
  BY <1>1, <1>4, ReadLoop
<1>6. /\ g \in [0 .. byte -> ReadState] /\ g[0] = st
      /\ \A u \in 1 .. byte : g[u] = ReadValue(cut, g[u - 1], top)
  BY <1>5, Zenon DEF ReadTurns
<1> DEFINE Taken(u, k) ==
              /\ OneAfter(cut, g[u - 1].next - 1, k)
              /\ g[u] = [ok |-> TRUE, next |-> g[u - 1].next + k + 1,
                         ks |-> Append(g[u - 1].ks, k)]
           G == {u \in 0 .. byte :
                    /\ g[u].ok /\ g[u].next >= from /\ g[u].next <= guard + u
                    /\ u # 0 => \E k \in Nat : Taken(u, k)}
<1>7. 0 \in G
  BY <1>1, <1>6, SMTT(30) DEF from
<1>8. ASSUME NEW u \in 1 .. byte, u - 1 \in G PROVE u \in G
  <2> DEFINE s == g[u - 1]
             e == s.next - 1
             ones == {i \in e + 1 .. l : cut[i] = 1}
             mark == IF e + 1 <= guard THEN guard ELSE e + 1
  <2>1. s \in ReadState /\ s.ok /\ s.next >= from /\ s.next <= guard + (u - 1)
    BY <1>6, <1>8
  <2>2. s.next \in Nat \ {0}
    BY <2>1 DEF ReadState
  <2>3. e \in Nat /\ s.next = e + 1 /\ e + 1 >= from /\ e + 1 <= guard + (u - 1)
    BY <1>1, <2>1, <2>2, SMTT(30)
  <2>4. g[u] = ReadValue(cut, s, top)
    BY <1>6
  <2> HIDE DEF s, e
  <2>5. mark \in e + 1 .. l /\ mark >= guard /\ mark <= guard + (u - 1)
    BY <1>1, <2>3, SMTT(30) DEF l
  <2>6. mark \in ones
    <3>1. mark \in 1 .. l /\ ~(mark < guard)
      BY <1>1, <2>3, <2>5
    <3>2. cut[mark] = 1
      BY <1>4, <3>1
    <3>3. QED
      BY <2>5, <3>2
  <2>7. PICK x \in ones : \A y \in ones : x <= y
    <3>1. ones \subseteq Nat
      BY <1>1, <2>3
    <3> HIDE DEF ones
    <3>2. QED
      BY <2>6, <3>1, LeastNatural
  <2> DEFINE k == x - (e + 1)
  <2>8. x \in e + 1 .. l /\ cut[x] = 1 /\ x <= mark /\ x \in Nat
    BY <1>1, <2>3, <2>6, <2>7
  <2>9. k \in 0 .. top - 1 /\ x = e + k + 1 /\ k \in Nat
    BY <1>1, <2>3, <2>5, <2>8
  <2>10. ASSUME NEW j \in 1 .. k PROVE cut[e + j] = 0
    <3>1. e + j \in e + 1 .. l /\ e + j < x /\ e + j \in 1 .. l
      BY <1>1, <2>3, <2>8, <2>9
    <3>2. e + j \notin ones
      BY <2>7, <2>8, <3>1
    <3>3. cut[e + j] # 1
      BY <3>1, <3>2
    <3>4. cut[e + j] \in Bit
      BY <1>4, <3>1
    <3>5. QED
      BY <3>3, <3>4 DEF Bit
  <2>11. OneAfter(cut, e, k)
    BY <1>4, <2>8, <2>9, <2>10 DEF OneAfter
  <2>12. g[u] = [ok |-> TRUE, next |-> e + k + 2, ks |-> Append(s.ks, k)]
    <3> HIDE DEF k, ones, mark, G, Taken, cut, top, l, from
    <3>1. NextOne(cut, s, top, e, k)
      BY <1>1, <1>4, <2>1, <2>3, <2>9, <2>11 DEF NextOne
    <3>2. ReadValue(cut, s, top) = [ok |-> TRUE, next |-> e + k + 2, ks |-> Append(s.ks, k)]
      BY <3>1, ReadFound, SMTT(30)
    <3>3. QED
      BY <2>4, <3>2
  <2>13. e + k + 2 <= guard + u /\ e + k + 2 >= from /\ e + k + 2 = s.next + k + 1
         /\ s.next - 1 = e
    BY <1>1, <2>3, <2>5, <2>8, <2>9, SMTT(30)
  <2>14. Taken(u, k)
    <3>1. g[u - 1].next = s.next /\ g[u - 1].ks = s.ks
      BY DEF s
    <3>2. QED
      BY <2>11, <2>12, <2>13, <3>1
  <2>15. g[u].ok /\ g[u].next >= from /\ g[u].next <= guard + u
    <3>1. g[u].ok = TRUE /\ g[u].next = e + k + 2
      BY <2>12
    <3>2. QED
      BY <2>13, <3>1
  <2>16. QED
    <3> HIDE DEF Taken, k
    <3>1. QED
      BY <2>9, <2>14, <2>15
<1> HIDE DEF Taken
<1>9. \A u \in 0 .. byte : u \in G
  <2> HIDE DEF G
  <2>1. QED
    BY <1>7, <1>8, EveryTurn
<1>10. \A u \in 0 .. byte : g[u].ok
  BY <1>9
<1>11. \A u \in 1 .. byte : \E k \in Nat : Taken(u, k)
  BY <1>9
<1> DEFINE ks == [u \in 1 .. byte |-> CHOOSE k \in Nat : Taken(u, k)]
<1>12. \A u \in 1 .. byte : ks[u] \in Nat /\ Taken(u, ks[u])
  BY <1>11
<1>13. ks \in [1 .. byte -> Nat]
  BY <1>12
<1> HIDE DEF ks
<1>14. TakenTurns(cut, st, byte, top, g, ks)
  BY <1>5, <1>10, <1>12, <1>13, Zenon DEF TakenTurns, Taken
<1>15. /\ cut \in Seq(Bit) /\ Len(cut) = guard + byte - 1
       /\ \A i \in 1 .. guard + byte - 1 : cut[i] = IF i < guard THEN bits[i] ELSE 1
  BY <1>4 DEF l
<1>16. QED
  BY <1>14, <1>15, Zenon DEF cut, top

\* The values that were taken are among what has been read.
LEMMA TakenValues ==
    ASSUME NEW bits \in Seq(Bit), NEW st \in ReadState, NEW n \in Nat, NEW hi \in Nat,
           NEW g, NEW ks, TakenTurns(bits, st, n, hi, g, ks)
    PROVE  /\ \A u \in 1 .. n : g[n].ks[Len(st.ks) + u] = ks[u]
           /\ \A u \in 0 .. n : g[u] \in ReadState /\ g[u].next <= g[n].next
<1>1. /\ g \in [0 .. n -> ReadState] /\ g[0] = st /\ ks \in [1 .. n -> Nat]
      /\ \A u \in 1 .. n : g[u] = [ok |-> TRUE, next |-> g[u - 1].next + ks[u] + 1,
                                   ks |-> Append(g[u - 1].ks, ks[u])]
  BY Zenon DEF TakenTurns, ReadTurns
<1>2. \A u \in 0 .. n : g[u] \in ReadState /\ g[u].next \in Nat /\ g[u].ks \in Seq(Nat)
  BY <1>1 DEF ReadState
<1> DEFINE m == Len(st.ks)
           G == {u \in 0 .. n : /\ Len(g[u].ks) = m + u
                                /\ \A v \in 1 .. u : g[u].ks[m + v] = ks[v]
                                /\ \A v \in 0 .. u : g[v].next <= g[u].next}
<1>3. m \in Nat
  <2>1. st.ks \in Seq(Nat)
    BY DEF ReadState
  <2>2. QED
    BY <2>1
<1>4. 0 \in G
  <2>1. Len(g[0].ks) = m + 0 /\ g[0].next <= g[0].next
    BY <1>1, <1>2, <1>3
  <2>2. \A v \in 0 .. 0 : v = 0
    OBVIOUS
  <2>3. \A v \in 1 .. 0 : FALSE
    OBVIOUS
  <2>4. QED
    BY <2>1, <2>2, <2>3
<1> HIDE DEF m
<1>5. ASSUME NEW u \in 1 .. n, u - 1 \in G PROVE u \in G
  <2> DEFINE t == g[u - 1].ks
             r == g[u].ks
             k == ks[u]
  <2>1. /\ Len(t) = m + (u - 1) /\ \A v \in 1 .. u - 1 : t[m + v] = ks[v]
        /\ \A v \in 0 .. u - 1 : g[v].next <= g[u - 1].next
    BY <1>5
  <2>2. /\ r = Append(t, k) /\ k \in Nat /\ t \in Seq(Nat)
        /\ g[u].next = g[u - 1].next + k + 1
        /\ g[u - 1].next \in Nat
    <3>1. u - 1 \in 0 .. n
      OBVIOUS
    <3>2. g[u - 1].next \in Nat /\ g[u - 1].ks \in Seq(Nat) /\ ks[u] \in Nat
      BY <1>1, <1>2, <3>1
    <3>3. g[u] = [ok |-> TRUE, next |-> g[u - 1].next + ks[u] + 1,
                  ks |-> Append(g[u - 1].ks, ks[u])]
      BY <1>1
    <3>4. g[u].next = g[u - 1].next + ks[u] + 1 /\ g[u].ks = Append(g[u - 1].ks, ks[u])
      BY <3>3
    <3>5. QED
      BY <3>2, <3>4
  <2> HIDE DEF t, r, k, G
  <2>3. Len(r) = m + u /\ \A w \in 1 .. m + u : r[w] = IF w = m + u THEN k ELSE t[w]
    BY <1>3, <2>1, <2>2, AppendProperties
  <2>4. ASSUME NEW v \in 1 .. u PROVE r[m + v] = ks[v]
    <3>1. m + v \in 1 .. m + u /\ (m + v = m + u <=> v = u)
      BY <1>3
    <3>2. r[m + v] = IF v = u THEN k ELSE t[m + v]
      BY <2>3, <3>1
    <3>3. CASE v = u
      BY <3>2, <3>3 DEF k
    <3>4. CASE v # u
      <4>1. v \in 1 .. u - 1
        BY <3>4
      <4>2. QED
        BY <2>1, <3>2, <3>4, <4>1
    <3>5. QED
      BY <3>3, <3>4
  <2>5. ASSUME NEW v \in 0 .. u PROVE g[v].next <= g[u].next
    <3>1. g[v].next \in Nat /\ g[u].next \in Nat
      BY <1>2
    <3>2. v = u \/ v \in 0 .. u - 1
      OBVIOUS
    <3>3. v \in 0 .. u - 1 => g[v].next <= g[u - 1].next
      BY <2>1
    <3>4. QED
      BY <2>2, <3>1, <3>2, <3>3, SMTT(30)
  <2>6. QED
    BY <2>3, <2>4, <2>5 DEF G, r
<1> HIDE DEF G
<1>6. \A u \in 0 .. n : u \in G
  BY <1>4, <1>5, EveryTurn
<1>7. n \in G
  BY <1>6
<1>8. QED
  BY <1>2, <1>7 DEF G, m

\* Where no guard bit was taken, the values are those of the buffer.
LEMMA FastIsMany ==
    ASSUME NEW bits \in Seq(Bit), NEW st \in ReadState, st.ok, NEW hi \in Nat,
           NEW byte \in Nat \ {0}, NEW look \in Nat, look >= 2,
           st.next - 1 + byte * look <= Len(bits),
           NEW fast, fast = ReadMany(Guarded(bits, st, byte, look), st, byte, byte * look)
    PROVE  /\ fast \in ReadState /\ fast.ok
           /\ fast.next - st.next <= byte * (look - 1) =>
                 IF \A u \in 1 .. byte : fast.ks[Len(st.ks) + u] < hi
                 THEN ReadMany(bits, st, byte, hi) = fast
                 ELSE ~ReadMany(bits, st, byte, hi).ok
<1> DEFINE cut == Guarded(bits, st, byte, look)
           top == byte * look
           guard == st.next + byte * (look - 1)
           from == st.next
<1>1. /\ from \in Nat \ {0} /\ top \in Nat /\ guard \in Nat
      /\ guard + byte - 1 <= Len(bits) /\ Len(bits) \in Nat
  <2>1. from \in Nat \ {0}
    BY DEF ReadState
  <2> DEFINE k == byte * (look - 2)
  <2>2. k \in Nat /\ guard = from + (k + byte) /\ top = k + 2 * byte
    BY WordFacts
  <2>3. Len(bits) \in Nat /\ from - 1 + top <= Len(bits)
    OBVIOUS
  <2> HIDE DEF k, top, from, guard
  <2>4. QED
    BY <2>1, <2>2, <2>3
<1>2. guard = st.next + byte * (look - 1)
  OBVIOUS
<1>3. /\ cut \in Seq(Bit) /\ Len(cut) = guard + byte - 1
      /\ \A i \in 1 .. guard + byte - 1 : cut[i] = IF i < guard THEN bits[i] ELSE 1
      /\ \E g, ks : TakenTurns(cut, st, byte, top, g, ks)
  <2> HIDE DEF guard
  <2>1. QED
    BY <1>1, <1>2, GuardedRead, SMTT(30)
<1>4. guard - from = byte * (look - 1)
  <2> DEFINE w == byte * (look - 1)
  <2>1. w \in Nat
    BY WordFacts
  <2>2. guard = from + w
    OBVIOUS
  <2> HIDE DEF w, guard, from
  <2>3. guard - from = w
    BY <1>1, <2>1, <2>2
  <2>4. QED
    BY <2>3 DEF w
<1>5. fast = ReadMany(cut, st, byte, top)
  OBVIOUS
<1> HIDE DEF cut, top, guard
<1>6. PICK g, ks : TakenTurns(cut, st, byte, top, g, ks)
  BY <1>3
<1>7. /\ g \in [0 .. byte -> ReadState] /\ g[0] = st /\ ks \in [1 .. byte -> Nat]
      /\ fast = g[byte]
      /\ \A u \in 0 .. byte : g[u].ok
      /\ \A u \in 1 .. byte :
            /\ OneAfter(cut, g[u - 1].next - 1, ks[u])
            /\ g[u] = [ok |-> TRUE, next |-> g[u - 1].next + ks[u] + 1,
                       ks |-> Append(g[u - 1].ks, ks[u])]
  BY <1>5, <1>6, Zenon DEF TakenTurns, ReadTurns
<1>8. /\ \A u \in 1 .. byte : fast.ks[Len(st.ks) + u] = ks[u]
      /\ \A u \in 0 .. byte : g[u] \in ReadState /\ g[u].next <= fast.next
  <2>1. /\ \A u \in 1 .. byte : g[byte].ks[Len(st.ks) + u] = ks[u]
        /\ \A u \in 0 .. byte : g[u] \in ReadState /\ g[u].next <= g[byte].next
    BY <1>1, <1>3, <1>6, TakenValues
  <2>2. QED
    BY <1>7, <2>1, Zenon
<1>9. fast \in ReadState /\ fast.ok
  BY <1>7
<1>10. ASSUME fast.next - st.next <= byte * (look - 1)
       PROVE  IF \A u \in 1 .. byte : ks[u] < hi
              THEN ReadMany(bits, st, byte, hi) = fast
              ELSE ~ReadMany(bits, st, byte, hi).ok
  <2>1. fast.next <= guard
    <3>1. fast.next \in Nat
      BY <1>9 DEF ReadState
    <3>2. fast.next - from <= guard - from
      BY <1>4, <1>10
    <3> HIDE DEF from
    <3>3. QED
      BY <1>1, <3>1, <3>2
  <2>2. PICK r : ReadTurns(bits, st, byte, hi, r)
    BY ReadLoop
  <2>3. /\ r \in [0 .. byte -> ReadState] /\ ReadMany(bits, st, byte, hi) = r[byte]
        /\ r[0] = st /\ \A u \in 1 .. byte : r[u] = ReadValue(bits, r[u - 1], hi)
    BY <2>2, Zenon DEF ReadTurns
  \* The values of the word are values of the buffer.
  <2>4. ASSUME NEW u \in 1 .. byte
        PROVE  /\ g[u - 1].next - 1 \in Nat
               /\ OneAfter(bits, g[u - 1].next - 1, ks[u])
    <3> DEFINE e == g[u - 1].next - 1
               k == ks[u]
    <3>1. u - 1 \in 0 .. byte /\ u \in 0 .. byte
      OBVIOUS
    <3>2. g[u - 1].next \in Nat \ {0} /\ g[u].next <= guard
      <4>1. g[u - 1] \in ReadState /\ g[u] \in ReadState /\ g[u].next <= fast.next
        BY <1>8, <3>1
      <4>2. fast.next \in Nat /\ g[u].next \in Nat /\ g[u - 1].next \in Nat \ {0}
        BY <1>9, <4>1 DEF ReadState
      <4>3. QED
        BY <1>1, <2>1, <4>1, <4>2
    <3>3. g[u].next = g[u - 1].next + k + 1 /\ k \in Nat /\ OneAfter(cut, e, k)
      <4>1. k \in Nat /\ OneAfter(cut, e, k)
        BY <1>7
      <4>2. g[u] = [ok |-> TRUE, next |-> g[u - 1].next + k + 1,
                    ks |-> Append(g[u - 1].ks, k)]
        BY <1>7
      <4>3. g[u].next = g[u - 1].next + k + 1
        BY <4>2
      <4>4. QED
        BY <4>1, <4>3
    <3>4. e \in Nat /\ g[u].next = e + k + 2
      BY <3>2, <3>3, SMTT(30)
    <3> HIDE DEF e, k
    <3>5. e + k + 1 < guard
      BY <1>1, <3>2, <3>3, <3>4, SMTT(30)
    <3>6. \A j \in 1 .. k + 1 : /\ e + j \in 1 .. guard + byte - 1 /\ e + j < guard
      BY <1>1, <3>3, <3>4, <3>5
    <3>7. \A j \in 1 .. k + 1 : cut[e + j] = bits[e + j]
      BY <1>3, <3>6
    <3>8. cut[e + k + 1] = 1 /\ \A j \in 1 .. k : cut[e + j] = 0
      BY <3>3 DEF OneAfter
    <3>9. bits[e + k + 1] = 1
      <4>1. k + 1 \in 1 .. k + 1 /\ e + k + 1 = e + (k + 1)
        BY <3>3, <3>4
      <4>2. QED
        BY <3>7, <3>8, <4>1
    <3>10. \A j \in 1 .. k : bits[e + j] = 0
      <4>1. \A j \in 1 .. k : j \in 1 .. k + 1
        BY <3>3
      <4>2. QED
        BY <3>7, <3>8, <4>1
    <3>11. e + k + 1 <= Len(bits)
      BY <1>1, <3>3, <3>4, <3>5
    <3>12. OneAfter(bits, e, k)
      BY <3>3, <3>9, <3>10, <3>11 DEF OneAfter
    <3>13. QED
      BY <3>4, <3>12 DEF e, k
  \* Up to the first that is too large they are read alike.
  <2> DEFINE Small(u) == \A v \in 1 .. u : ks[v] < hi
             G == {u \in 0 .. byte : IF Small(u) THEN r[u] = g[u] ELSE ~r[u].ok}
  <2>5. 0 \in G
    <3>1. Small(0)
      OBVIOUS
    <3>2. QED
      BY <1>7, <2>3, <3>1
  <2>6. ASSUME NEW u \in 1 .. byte, u - 1 \in G PROVE u \in G
    <3> DEFINE s == r[u - 1]
               e == g[u - 1].next - 1
               k == ks[u]
               new == ReadValue(bits, s, hi)
    <3>1. s \in ReadState /\ r[u] = new /\ k \in Nat /\ e \in Nat
          /\ OneAfter(bits, e, k)
      BY <1>7, <2>3, <2>4
    <3>2. Small(u) <=> Small(u - 1) /\ k < hi
      <4>1. \A v : v \in 1 .. u <=> v = u \/ v \in 1 .. u - 1
        OBVIOUS
      <4>2. QED
        BY <4>1
    <3>3. IF Small(u - 1) THEN s = g[u - 1] ELSE ~s.ok
      BY <2>6
    <3> HIDE DEF Small, s, e, k, new, G
    <3>4. CASE ~Small(u - 1)
      <4>1. ~new.ok
        BY <3>1, <3>3, <3>4, ReadStates DEF new
      <4>2. QED
        BY <3>1, <3>2, <3>4, <4>1 DEF G
    <3>5. CASE Small(u - 1)
      <4>1. s = g[u - 1] /\ s.ok /\ s.next = e + 1
        <5>1. s = g[u - 1]
          BY <3>3, <3>5
        <5>2. g[u - 1].ok
          BY <1>7
        <5>3. s.next \in Nat
          BY <3>1 DEF ReadState
        <5>4. s.next - 1 = e
          BY <5>1 DEF e
        <5>5. QED
          BY <5>1, <5>2, <5>3, <5>4
      <4>2. CASE k < hi
        <5>1. k \in 0 .. hi - 1
          BY <3>1, <4>2
        <5>2. new = [ok |-> TRUE, next |-> e + k + 2, ks |-> Append(s.ks, k)]
          <6>1. NextOne(bits, s, hi, e, k)
            BY <3>1, <4>1, <5>1 DEF NextOne
          <6>2. QED
            BY <6>1, ReadFound, SMTT(30) DEF new
        <5>3. g[u] = [ok |-> TRUE, next |-> s.next + k + 1, ks |-> Append(s.ks, k)]
          BY <1>7, <4>1 DEF k
        <5>4. s.next + k + 1 = e + k + 2
          BY <3>1, <4>1
        <5>5. r[u] = g[u]
          BY <3>1, <5>2, <5>3, <5>4
        <5>6. QED
          BY <3>2, <3>5, <4>2, <5>5 DEF G
      <4>3. CASE ~(k < hi)
        <5>1. ASSUME new.ok PROVE FALSE
          <6>1. PICK c \in 0 .. hi - 1 : OneAfter(bits, e, c)
            BY <3>1, <4>1, <5>1, ReadOne DEF new
          <6>2. c \in Nat /\ c + 1 \in 1 .. k /\ e + c + 1 = e + (c + 1)
            BY <3>1, <4>3, <6>1
          <6>3. bits[e + c + 1] = 1
            BY <6>1 DEF OneAfter
          <6>4. \A j \in 1 .. k : bits[e + j] = 0
            BY <3>1 DEF OneAfter
          <6>5. bits[e + (c + 1)] = 0
            BY <6>2, <6>4
          <6>6. QED
            BY <6>2, <6>3, <6>5
        <5>2. QED
          BY <3>1, <3>2, <4>3, <5>1 DEF G
      <4>4. QED
        BY <4>2, <4>3
    <3>6. QED
      BY <3>4, <3>5
  <2> HIDE DEF G
  <2>7. \A u \in 0 .. byte : u \in G
    BY <2>5, <2>6, EveryTurn
  <2>8. byte \in G
    BY <2>7
  <2>9. IF Small(byte) THEN r[byte] = g[byte] ELSE ~r[byte].ok
    BY <2>8, Zenon DEF G
  <2>10. QED
    BY <1>7, <2>3, <2>9
<1>11. (\A u \in 1 .. byte : fast.ks[Len(st.ks) + u] < hi) <=> \A u \in 1 .. byte : ks[u] < hi
  BY <1>8
<1>12. QED
  BY <1>9, <1>10, <1>11, Zenon

\* One turn of decode_gr_vpart() reads what as many turns of decode_gr() read.
LEMMA TurnIsMany ==
    ASSUME NEW bits \in Seq(Bit), NEW st \in ReadState, NEW hi \in Nat,
           NEW byte \in Nat \ {0}, NEW look \in Nat, look >= 2, hi <= byte * look
    PROVE  /\ ReadTurn(bits, st, hi, byte, look) \in ReadState
           /\ Alike(ReadTurn(bits, st, hi, byte, look), ReadMany(bits, st, byte, hi))
<1> DEFINE many == ReadMany(bits, st, byte, hi)
           turn == ReadTurn(bits, st, hi, byte, look)
           fast == ReadMany(Guarded(bits, st, byte, look), st, byte, byte * look)
           far == fast.next - st.next > byte * (look - 2) + Buffered(st, byte)
           word == st.next .. st.next + byte * look - 1
           end == ~st.ok \/ st.next - 1 + Buffered(st, byte) + byte * look > Len(bits)
           small == \A u \in 1 .. byte : fast.ks[Len(st.ks) + u] < hi
           top == byte * look
           from == st.next
<1>1. turn = IF end THEN many
             ELSE IF \A i \in word : bits[i] = 0 THEN [st EXCEPT !.ok = FALSE]
             ELSE IF far THEN many
             ELSE [fast EXCEPT !.ok = small]
  BY Zenon DEF ReadTurn, FastTurn, NearEnd
<1>2. many \in ReadState
  BY ManyThen
<1>3. /\ from \in Nat \ {0} /\ top \in Nat /\ Len(bits) \in Nat /\ st.ks \in Seq(Nat)
      /\ st.ok \in BOOLEAN
  <2>1. from \in Nat \ {0} /\ st.ks \in Seq(Nat) /\ st.ok \in BOOLEAN
    BY DEF ReadState
  <2>2. top \in Nat
    OBVIOUS
  <2>3. QED
    BY <2>1, <2>2
<1>4. Buffered(st, byte) \in 0 .. byte - 1
  <2>1. 1 - from \in Int /\ Buffered(st, byte) = (1 - from) % byte
    BY <1>3 DEF Buffered
  <2> HIDE DEF from
  <2>2. (1 - from) % byte \in 0 .. byte - 1
    BY <2>1
  <2>3. QED
    BY <2>1, <2>2
<1>5. ASSUME ~end
      PROVE  /\ st.ok /\ from - 1 + top <= Len(bits)
             /\ ~far => fast.next - st.next <= byte * (look - 1)
             /\ fast \in ReadState
  <2>1. st.ok /\ ~(from - 1 + Buffered(st, byte) + top > Len(bits))
    BY <1>5
  <2> DEFINE k == Buffered(st, byte)
             w == byte * (look - 2)
             full == byte * (look - 1)
  <2>2. w \in Nat /\ full = w + byte
    BY WordFacts
  <2> HIDE DEF top, from, fast, k, w, full, end
  <2>3. st.ok /\ from - 1 + top <= Len(bits)
    BY <1>3, <1>4, <2>1 DEF k
  <2>4. fast \in ReadState
    <3>1. st.next - 1 + byte * look <= Len(bits)
      BY <2>3 DEF from, top
    <3>2. QED
      BY <2>3, <3>1, FastIsMany DEF fast
  <2>5. fast.next \in Nat
    BY <2>4 DEF ReadState
  <2>6. ASSUME ~far PROVE fast.next - from <= full
    <3>1. fast.next - from <= w + k
      BY <1>3, <1>4, <2>2, <2>5, <2>6 DEF far, w, k, from
    <3>2. QED
      BY <1>3, <1>4, <2>2, <2>5, <3>1 DEF k
  <2>7. QED
    BY <2>3, <2>4, <2>6 DEF full, from
<1> HIDE DEF many, turn, fast, far, word, end, small, top, from
<1>6. CASE end \/ (~end /\ ~(\A i \in word : bits[i] = 0) /\ far)
  <2>1. turn = many
    BY <1>1, <1>6, Zenon
  <2>2. turn \in ReadState /\ Alike(turn, many)
    BY <1>2, <2>1, Zenon DEF Alike
  <2>3. QED
    BY <2>2, Zenon DEF turn, many
<1>7. CASE ~end /\ \A i \in word : bits[i] = 0
  <2>1. turn = [st EXCEPT !.ok = FALSE]
    BY <1>1, <1>7
  <2>2. turn \in ReadState /\ ~turn.ok
    BY <2>1 DEF ReadState
  <2>3. PICK r : ReadTurns(bits, st, byte, hi, r)
    BY ReadLoop
  <2>4. /\ r \in [0 .. byte -> ReadState] /\ many = r[byte] /\ r[0] = st
        /\ \A u \in 1 .. byte : r[u] = ReadValue(bits, r[u - 1], hi)
    BY <2>3, Zenon DEF ReadTurns, many
  <2> DEFINE G == {u \in 0 .. byte : u = 0 \/ ~r[u].ok}
  <2>5. 0 \in G
    OBVIOUS
  <2>6. ASSUME NEW u \in 1 .. byte, u - 1 \in G PROVE u \in G
    <3>1. r[u - 1] \in ReadState /\ r[u] = ReadValue(bits, r[u - 1], hi)
      BY <2>4
    <3>2. CASE u # 1
      <4>1. ~r[u - 1].ok
        BY <2>6, <3>2
      <4>2. ~r[u].ok
        BY <3>1, <4>1, ReadStates, Zenon
      <4>3. QED
        BY <4>2
    <3>3. CASE u = 1
      <4> DEFINE e == from - 1
      <4>1. e \in Nat /\ st.next = e + 1
        BY <1>3 DEF from
      <4>2. r[u] = ReadValue(bits, st, hi)
        BY <2>4, <3>1, <3>3
      <4> HIDE DEF e, G
      <4>3. ASSUME r[u].ok PROVE FALSE
        <5>1. PICK c \in 0 .. hi - 1 : OneAfter(bits, e, c)
          BY <4>1, <4>2, <4>3, ReadOne
        <5>2. bits[e + c + 1] = 1 /\ e + c + 1 <= Len(bits)
          BY <5>1 DEF OneAfter
        <5>3. e + c + 1 \in word
          <6>1. hi <= top
            BY DEF top
          <6>2. word = from .. from + top - 1
            BY DEF word, from, top
          <6>3. from = e + 1
            BY <4>1 DEF from
          <6>4. QED
            BY <1>3, <4>1, <6>1, <6>2, <6>3
        <5>4. QED
          BY <1>7, <5>2, <5>3
      <4>4. QED
        BY <4>3 DEF G
    <3>4. QED
      BY <3>2, <3>3
  <2> HIDE DEF G
  <2>7. \A u \in 0 .. byte : u \in G
    BY <2>5, <2>6, EveryTurn
  <2>8. ~many.ok
    <3>1. byte \in G /\ byte # 0
      BY <2>7
    <3>2. QED
      BY <2>4, <3>1 DEF G
  <2>9. many.ok \in BOOLEAN
    BY <1>2 DEF ReadState
  <2>10. turn.ok = many.ok
    <3>1. turn.ok \in BOOLEAN
      BY <2>2 DEF ReadState
    <3>2. QED
      BY <2>2, <2>8, <2>9, <3>1
  <2>11. Alike(turn, many)
    BY <2>2, <2>10 DEF Alike
  <2>12. QED
    BY <2>2, <2>11, Zenon DEF turn, many
<1>8. CASE ~end /\ ~(\A i \in word : bits[i] = 0) /\ ~far
  <2>1. turn = [fast EXCEPT !.ok = small]
    BY <1>1, <1>8
  <2>2. /\ st.ok /\ fast \in ReadState /\ fast.next - st.next <= byte * (look - 1)
        /\ st.next - 1 + byte * look <= Len(bits)
    BY <1>5, <1>8 DEF from, top
  <2>3. /\ fast.ok
        /\ IF small THEN many = fast ELSE ~many.ok
    BY <2>2, FastIsMany DEF fast, many, small
  <2>4. /\ fast = [ok |-> fast.ok, next |-> fast.next, ks |-> fast.ks]
        /\ fast.ok = TRUE /\ fast.next \in Nat \ {0} /\ fast.ks \in Seq(Nat)
    BY <2>2, <2>3 DEF ReadState
  <2>5. turn = [ok |-> small, next |-> fast.next, ks |-> fast.ks]
    BY <2>1, <2>4
  <2>6. small \in BOOLEAN
    BY DEF small
  <2>7. turn \in ReadState
    BY <2>4, <2>5, <2>6 DEF ReadState
  <2>8. CASE small
    <3>1. turn = fast
      BY <2>4, <2>5, <2>8
    <3>2. QED
      BY <2>3, <2>7, <2>8, <3>1 DEF Alike, turn, many
  <2>9. CASE ~small
    <3>1. ~turn.ok /\ ~many.ok /\ many.ok \in BOOLEAN /\ turn.ok \in BOOLEAN
      BY <1>2, <2>3, <2>5, <2>7, <2>9 DEF ReadState
    <3>2. QED
      BY <2>7, <3>1 DEF Alike, turn, many
  <2>10. QED
    BY <2>8, <2>9
<1>9. QED
  BY <1>6, <1>7, <1>8

\* The turns of decode_gr_vpart().
WideTurns(bits, from, count, hi, byte, look, g) ==
    /\ g \in [0 .. count \div byte -> ReadState]
    /\ ReadWide(bits, from, count, hi, byte, look) = g[count \div byte]
    /\ g[0] = [ok |-> TRUE, next |-> from, ks |-> <<>>]
    /\ \A t \in 1 .. count \div byte : g[t] = ReadTurn(bits, g[t - 1], hi, byte, look)

LEMMA WideLoop ==
    ASSUME NEW bits \in Seq(Bit), NEW from \in Nat \ {0}, NEW count \in Nat, NEW hi \in Nat,
           NEW byte \in Nat \ {0}, NEW look \in Nat, look >= 2, hi <= byte * look
    PROVE  \E g : WideTurns(bits, from, count, hi, byte, look, g)
<1> DEFINE n == count \div byte
           start == [ok |-> TRUE, next |-> from, ks |-> <<>>]
           F == [u \in 1 .. n |-> [st \in ReadState |-> ReadTurn(bits, st, hi, byte, look)]]
           Loop(g) == g = [u \in 0 .. n |-> IF u = 0 THEN start
                                            ELSE ReadTurn(bits, g[u - 1], hi, byte, look)]
           read == CHOOSE g : Loop(g)
<1>1. ReadWide(bits, from, count, hi, byte, look) = read[n]
  BY Zenon DEF ReadWide
<1>2. n \in Nat
  BY DivBounds
<1>3. start \in ReadState
  <2>1. <<>> \in Seq(Nat)
    OBVIOUS
  <2>2. QED
    BY <2>1 DEF ReadState
<1> HIDE DEF n, start
<1>4. \A st \in ReadState : \A u \in 1 .. n : F[u][st] = ReadTurn(bits, st, hi, byte, look)
  OBVIOUS
<1>5. \A st \in ReadState : ReadTurn(bits, st, hi, byte, look) \in ReadState
  BY TurnIsMany
<1> HIDE DEF F
<1>6. PICK g \in [0 .. n -> ReadState] : LoopStates(start, n, F, g)
  <2>1. \A st \in ReadState : \A u \in 1 .. n : F[u][st] \in ReadState
    BY <1>4, <1>5
  <2>2. QED
    BY <1>2, <1>3, <2>1, LoopExists
<1>7. \A u \in 0 .. n : g[u] = IF u = 0 THEN start
                               ELSE ReadTurn(bits, g[u - 1], hi, byte, look)
  <2> SUFFICES ASSUME NEW u \in 0 .. n
               PROVE  g[u] = IF u = 0 THEN start
                             ELSE ReadTurn(bits, g[u - 1], hi, byte, look)
    OBVIOUS
  <2>1. g[u] = IF u = 0 THEN start ELSE F[u][g[u - 1]]
    BY <1>6, Zenon DEF LoopStates
  <2>2. u # 0 => u \in 1 .. n /\ u - 1 \in 0 .. n
    BY <1>2
  <2>3. QED
    BY <1>4, <1>6, <2>1, <2>2
<1>8. g = [u \in 0 .. n |-> g[u]]
  BY <1>6
<1>9. Loop(g)
  BY <1>7, <1>8, Zenon
<1> HIDE DEF Loop
<1>10. Loop(read)
  BY <1>9
<1> HIDE DEF read
<1>11. \A u \in 0 .. n : read[u] = IF u = 0 THEN start
                                   ELSE ReadTurn(bits, read[u - 1], hi, byte, look)
  BY <1>10, Zenon DEF Loop
<1>12. read = [u \in 0 .. n |-> read[u]]
  BY <1>10, <1>11, Zenon DEF Loop
<1>13. \A u \in 1 .. n : read[u] = ReadTurn(bits, read[u - 1], hi, byte, look)
  <2>1. \A u \in 1 .. n : u \in 0 .. n /\ u # 0
    BY <1>2
  <2>2. QED
    BY <1>11, <2>1, Zenon
<1>14. read[0] = start
  <2>1. 0 \in 0 .. n
    BY <1>2
  <2>2. QED
    BY <1>11, <2>1, Zenon
<1> DEFINE G == {u \in 0 .. n : read[u] \in ReadState}
<1>15. 0 \in G
  BY <1>2, <1>3, <1>14
<1>16. ASSUME NEW u \in 1 .. n, u - 1 \in G PROVE u \in G
  BY <1>2, <1>5, <1>13, <1>16
<1> HIDE DEF G
<1>17. \A u \in 0 .. n : u \in G
  BY <1>2, <1>15, <1>16, EveryTurn
<1>18. read \in [0 .. n -> ReadState]
  <2>1. \A u \in 0 .. n : read[u] \in ReadState
    BY <1>17 DEF G
  <2>2. QED
    BY <1>12, <2>1
<1>19. WideTurns(bits, from, count, hi, byte, look, read)
  BY <1>1, <1>13, <1>14, <1>18, Zenon DEF WideTurns, n, start
<1>20. QED
  BY <1>19

\* decode_gr_vpart() reads what decode_gr() reads.
LEMMA WideIsUnary ==
    ASSUME NEW bits \in Seq(Bit), NEW from \in Nat \ {0}, NEW count \in Nat, NEW hi \in Nat,
           NEW byte \in Nat \ {0}, NEW look \in Nat, look >= 2, hi <= byte * look,
           count % byte = 0
    PROVE  Alike(ReadWide(bits, from, count, hi, byte, look), ReadUnary(bits, from, count, hi))
<1> DEFINE n == count \div byte
           start == [ok |-> TRUE, next |-> from, ks |-> <<>>]
           Many(k) == ReadUnary(bits, from, k, hi)
<1>1. n \in Nat /\ byte * n = count
  BY DivBounds
<1>4. PICK g : WideTurns(bits, from, count, hi, byte, look, g)
  BY WideLoop
<1>5. /\ g \in [0 .. n -> ReadState] /\ g[0] = start
      /\ ReadWide(bits, from, count, hi, byte, look) = g[n]
      /\ \A t \in 1 .. n : g[t] = ReadTurn(bits, g[t - 1], hi, byte, look)
  BY <1>4, Zenon DEF WideTurns
<1> HIDE DEF n, start
<1>6. Many(0) = start
  BY UnaryNone DEF start
<1>7. ASSUME NEW k \in Nat, NEW j \in Nat, NEW c \in Nat, c = k + j
      PROVE  Many(k) \in ReadState /\ Many(c) = ReadMany(bits, Many(k), j, hi)
  <2>1. ReadUnary(bits, from, k, hi) \in ReadState
    BY UnaryThen
  <2>2. ReadUnary(bits, from, c, hi) = ReadMany(bits, ReadUnary(bits, from, k, hi), j, hi)
    BY <1>7, UnaryThen
  <2>3. QED
    BY <2>1, <2>2
<1> HIDE DEF Many
<1> DEFINE G == {t \in 0 .. n : Alike(g[t], Many(byte * t))}
<1>8. 0 \in G
  <2>1. byte * 0 = 0
    OBVIOUS
  <2>2. QED
    BY <1>1, <1>5, <1>6, <2>1 DEF Alike
<1>9. ASSUME NEW t \in 1 .. n, t - 1 \in G PROVE t \in G
  <2> DEFINE st == g[t - 1]
             k == byte * (t - 1)
  <2>1. /\ st \in ReadState /\ g[t] = ReadTurn(bits, st, hi, byte, look)
        /\ Alike(st, Many(k))
    BY <1>1, <1>5, <1>9
  <2>2. k \in Nat /\ byte * t \in Nat /\ byte * t = k + byte
    BY <1>1
  <2> HIDE DEF st, k, G
  <2>3. Many(k) \in ReadState /\ Many(byte * t) = ReadMany(bits, Many(k), byte, hi)
    BY <1>7, <2>2
  <2>4. /\ g[t] \in ReadState /\ Alike(g[t], ReadMany(bits, st, byte, hi))
    BY <2>1, TurnIsMany
  <2>5. CASE st.ok
    <3>1. st = Many(k)
      BY <2>1, <2>5 DEF Alike
    <3>2. QED
      BY <1>1, <2>3, <2>4, <3>1 DEF G
  <2>6. CASE ~st.ok
    <3>1. ~Many(k).ok
      BY <2>1, <2>6 DEF Alike
    <3>2. ~Many(byte * t).ok
      BY <2>3, <3>1, ManyRefused
    <3>3. ~ReadMany(bits, st, byte, hi).ok
      BY <2>1, <2>6, ManyRefused
    <3>4. ~g[t].ok
      BY <2>4, <3>3 DEF Alike
    <3>5. Many(byte * t).ok \in BOOLEAN /\ g[t].ok \in BOOLEAN
      <4>1. Many(byte * t) \in ReadState
        BY <1>7, <2>3, ManyThen
      <4>2. QED
        BY <2>4, <4>1 DEF ReadState
    <3>6. QED
      BY <3>2, <3>4, <3>5 DEF Alike, G
  <2>7. QED
    BY <2>5, <2>6
<1> HIDE DEF G
<1>10. \A t \in 0 .. n : t \in G
  BY <1>1, <1>8, <1>9, EveryTurn
<1>11. Alike(g[n], Many(byte * n))
  <2>1. n \in G
    BY <1>1, <1>10
  <2>2. QED
    BY <2>1 DEF G
<1>12. QED
  BY <1>1, <1>5, <1>11, Zenon DEF Many

-----------------------------------------------------------------------------
(***************************************************************************)
(* decode_gr() reads a code, and reads it as its values.                   *)
(***************************************************************************)
Signed(b, m) == IF b = 1 THEN -m - 1 ELSE m

LEMMA SignedFacts ==
    ASSUME NEW b \in Bit, NEW m \in Nat
    PROVE  /\ Signed(b, m) \in Int /\ Magnitude(Signed(b, m)) = m
           /\ SignBit(Signed(b, m)) = b
BY DEF Signed, Magnitude, SignBit, Bit

\* The number of low bits of the value u.
LowPart(bits, n, low, u) == NumberAt(bits, n + low * (u - 1) + 1, low)

\* With all its values read, the buffer has a bit for each.
LEMMA UnaryRoom ==
    ASSUME NEW bits \in Seq(Bit), NEW base \in Nat, NEW n \in Nat, NEW hi \in Nat,
           ReadUnary(bits, base + 1, n, hi).ok
    PROVE  n = 0 \/ base + n <= Len(bits)
<1>1. PICK ks, end : Reads(bits, n, hi, base, ks, end)
  BY ThereRead
<1>2. /\ ks \in [1 .. n -> Nat] /\ end \in [0 .. n -> Nat] /\ end[0] = base
      /\ \A u \in 1 .. n : /\ end[u] = end[u - 1] + ks[u] + 1
                           /\ OneAfter(bits, end[u - 1], ks[u])
  BY <1>1 DEF Reads
<1> DEFINE G == {u \in 0 .. n : end[u] >= base + u}
<1>3. 0 \in G
  BY <1>2
<1>4. ASSUME NEW u \in 1 .. n, u - 1 \in G PROVE u \in G
  <2>1. /\ end[u] = end[u - 1] + ks[u] + 1 /\ ks[u] \in Nat
        /\ end[u - 1] \in Nat /\ end[u - 1] >= base + (u - 1)
    BY <1>2, <1>4
  <2>2. end[u] >= base + u
    BY <2>1
  <2>3. QED
    BY <2>2
<1> HIDE DEF G
<1>5. \A u \in 0 .. n : u \in G
  BY <1>3, <1>4, EveryTurn
<1>6. end[n] >= base + n
  BY <1>5 DEF G
<1>7. ASSUME n # 0 PROVE end[n] <= Len(bits)
  <2>1. n \in 1 .. n /\ n - 1 \in 0 .. n
    BY <1>7
  <2>2. /\ end[n] = end[n - 1] + ks[n] + 1 /\ OneAfter(bits, end[n - 1], ks[n])
    BY <1>2, <2>1
  <2>3. end[n - 1] + ks[n] + 1 <= Len(bits)
    BY <2>2 DEF OneAfter
  <2>4. QED
    BY <2>2, <2>3
<1>8. end[n] \in Nat /\ Len(bits) \in Nat
  BY <1>2
<1>9. QED
  BY <1>6, <1>7, <1>8

\* Where a vector can be decoded a word at a time.
ByWords(bits, n, low, hi, byte, look) ==
    /\ bits \in Seq(Bit) /\ n \in Nat \ {0} /\ low \in Nat /\ hi \in Nat
    /\ byte \in Nat \ {0} /\ look \in Nat /\ look >= 2 /\ hi <= byte * look
    /\ n % byte = 0

\* The decoders of a build with AVX2 accept what decode_gr() accepts, and
\* decode it to the same.
LEMMA WideDecodesAlike ==
    ASSUME NEW bits, NEW n, NEW low, NEW hi, NEW byte, NEW look,
           ByWords(bits, n, low, hi, byte, look)
    PROVE  DecodeWide(bits, n, low, hi, byte, look) = DecodeGR(bits, n, low, hi)
<1> DEFINE base == (low + 1) * n
           start == base + 1
           wide == ReadWide(bits, start, n, hi, byte, look)
           plain == ReadUnary(bits, start, n, hi)
           Of(unary) == [values |-> [u \in 1 .. n |->
                             Signed(bits[u], unary.ks[u] * Power(low)
                                             + NumberAt(bits, n + low * (u - 1) + 1, low))],
                         used |-> unary.next - 1]
<1>0. /\ bits \in Seq(Bit) /\ n \in Nat \ {0} /\ low \in Nat /\ hi \in Nat
      /\ byte \in Nat \ {0} /\ look \in Nat /\ look >= 2 /\ hi <= byte * look
      /\ n % byte = 0
  BY DEF ByWords
<1>1. DecodeWide(bits, n, low, hi, byte, look)
      = IF Len(bits) < (low + 2) * n \/ ~wide.ok THEN None ELSE Of(wide)
  BY Zenon DEF DecodeWide, CodedValues, CodedValue, Signed
<1>2. DecodeGR(bits, n, low, hi)
      = IF Len(bits) < base \/ ~plain.ok THEN None ELSE Of(plain)
  BY Zenon DEF DecodeGR, CodedValues, CodedValue, Signed
<1>3. base \in Nat /\ start \in Nat \ {0} /\ start - 1 = base /\ (low + 2) * n = base + n
  <2>1. (low + 1) * n = low * n + n /\ (low + 2) * n = low * n + 2 * n /\ low * n \in Nat
    BY <1>0
  <2> DEFINE m == low * n
  <2>2. base = m + n /\ (low + 2) * n = m + 2 * n /\ m \in Nat /\ n \in Nat \ {0}
    BY <1>0, <2>1
  <2> HIDE DEF base, m
  <2>3. base \in Nat /\ base + 1 \in Nat \ {0} /\ base + 1 - 1 = base /\ m + 2 * n = base + n
    BY <2>2
  <2>4. QED
    BY <2>2, <2>3
<1>4. Alike(wide, plain)
  BY <1>0, <1>3, WideIsUnary
<1>5. plain.ok => base + n <= Len(bits)
  <2>1. plain = ReadUnary(bits, base + 1, n, hi)
    OBVIOUS
  <2> HIDE DEF plain, base
  <2>2. QED
    BY <1>0, <1>3, <2>1, UnaryRoom
<1> HIDE DEF base, start, wide, plain, Of
<1>6. Len(bits) \in Nat
  BY <1>0
<1>7. plain.ok => ~(Len(bits) < base) /\ ~(Len(bits) < (low + 2) * n)
  <2> DEFINE m == (low + 2) * n
  <2>1. n \in Nat /\ base \in Nat /\ m = base + n
    BY <1>0, <1>3
  <2> HIDE DEF m
  <2>2. plain.ok => ~(Len(bits) < base) /\ ~(Len(bits) < m)
    BY <1>5, <1>6, <2>1
  <2>3. QED
    BY <2>2 DEF m
<1>8. QED
  BY <1>1, <1>2, <1>4, <1>7, Zenon DEF Alike

LEMMA DecodeForm ==
    ASSUME NEW bits, NEW n \in Nat, NEW low \in Nat, NEW hi
    PROVE  DecodeGR(bits, n, low, hi) =
              IF Len(bits) < n + low * n \/ ~ReadUnary(bits, n + low * n + 1, n, hi).ok THEN None
              ELSE [values |-> [u \in 1 .. n |->
                                  Signed(bits[u],
                                         ReadUnary(bits, n + low * n + 1, n, hi).ks[u] * Power(low)
                                         + LowPart(bits, n, low, u))],
                    used |-> ReadUnary(bits, n + low * n + 1, n, hi).next - 1]
<1> DEFINE start == (low + 1) * n + 1
<1>1. start = n + low * n + 1 /\ (low + 1) * n = n + low * n
  <2>1. (low + 1) * n = low * n + n /\ low * n \in Nat
    OBVIOUS
  <2> DEFINE m == low * n
  <2>2. (low + 1) * n = m + n /\ m \in Nat
    BY <2>1
  <2> HIDE DEF m
  <2>3. start = n + m + 1 /\ (low + 1) * n = n + m
    BY <2>2
  <2>4. QED
    BY <2>3 DEF m
<1>2. DecodeGR(bits, n, low, hi) =
         IF Len(bits) < (low + 1) * n \/ ~ReadUnary(bits, start, n, hi).ok THEN None
         ELSE [values |-> [u \in 1 .. n |->
                             Signed(bits[u],
                                    ReadUnary(bits, start, n, hi).ks[u] * Power(low)
                                    + LowPart(bits, n, low, u))],
               used |-> ReadUnary(bits, start, n, hi).next - 1]
  BY Zenon DEF DecodeGR, CodedValues, CodedValue, Signed, LowPart
<1> HIDE DEF start
<1>3. QED
  BY <1>1, <1>2, Zenon

\* The sign and the low bits of v are where those of the value u are.
ValueAt(bits, n, low, u, v) ==
    /\ bits[u] = SignBit(v)
    /\ \A j \in 1 .. low :
          bits[n + low * (u - 1) + j] = (Magnitude(v) \div Power(j - 1)) % 2

LEMMA ValueRead ==
    ASSUME NEW bits, NEW n \in Nat, NEW low \in Nat, NEW u \in Nat, NEW v \in Int,
           ValueAt(bits, n, low, u, v)
    PROVE  Signed(bits[u], Rest(v, low) * Power(low) + LowPart(bits, n, low, u)) = v
<1>1. PICK x \in Nat : x = Magnitude(v)
  BY ValueFacts
<1>2. PICK from \in Int : from = n + low * (u - 1) + 1
  OBVIOUS
<1>3. \A j \in 1 .. low : from + j - 1 = n + low * (u - 1) + j
  BY <1>2
<1>4. \A j \in 1 .. low : bits[from + j - 1] = (x \div Power(j - 1)) % 2
  BY <1>1, <1>3 DEF ValueAt
<1>5. NumberAt(bits, from, low) = x % Power(low)
  <2>1. BitsThere(bits, from, low, x)
    BY <1>4 DEF BitsThere
  <2>2. QED
    BY <2>1, NumberOf
<1>6. LowPart(bits, n, low, u) = x % Power(low)
  BY <1>2, <1>5, Zenon DEF LowPart
<1>7. x = Rest(v, low) * Power(low) + (x % Power(low))
  BY <1>1, ValueFacts
<1>8. v = IF SignBit(v) = 1 THEN -x - 1 ELSE x
  BY <1>1, ValueFacts
<1>9. bits[u] = SignBit(v)
  BY DEF ValueAt
<1>10. Signed(bits[u], x) = v
  BY <1>8, <1>9, Zenon DEF Signed
<1>11. QED
  BY <1>6, <1>7, <1>10, Zenon

LEMMA Decodes ==
    ASSUME NEW bits \in Seq(Bit), NEW n \in Nat, n > 0, NEW low \in Nat, NEW hi \in Nat,
           NEW a \in [1 .. n -> Int], NEW ks, NEW end
    PROVE  /\ Coded(bits, n, low, a, ks, end)
           /\ end[n] <= Len(bits) /\ \A u \in 1 .. n : ks[u] < hi
           => DecodeGR(bits, n, low, hi) = [values |-> a, used |-> end[n]]
<1> DEFINE base == n + low * n
           unary == ReadUnary(bits, base + 1, n, hi)
           value(u) == Signed(bits[u], unary.ks[u] * Power(low) + LowPart(bits, n, low, u))
<1>h. HAVE /\ Coded(bits, n, low, a, ks, end)
           /\ end[n] <= Len(bits) /\ \A u \in 1 .. n : ks[u] < hi
<1>0. base \in Nat
  OBVIOUS
<1>d. DecodeGR(bits, n, low, hi) =
         IF Len(bits) < base \/ ~unary.ok THEN None
         ELSE [values |-> [u \in 1 .. n |-> value(u)], used |-> unary.next - 1]
  <2>1. n \in Nat
    OBVIOUS
  <2>2. QED
    BY <2>1, DecodeForm, Zenon
<1>1. /\ Ends(n, low, ks, end)
      /\ \A u \in 1 .. n : ks[u] = Rest(a[u], low)
      /\ \A u \in 1 .. n : bits[u] = SignBit(a[u])
      /\ \A u \in 1 .. n : \A j \in 1 .. low :
            bits[n + low * (u - 1) + j] = (Magnitude(a[u]) \div Power(j - 1)) % 2
      /\ \A u \in 1 .. n : bits[end[u]] = 1
      /\ \A u \in 1 .. n : \A j \in 1 .. ks[u] : bits[end[u - 1] + j] = 0
  BY <1>h DEF Coded
<1>2. /\ end[0] = base
      /\ \A u \in 1 .. n : /\ ks[u] \in Nat
                           /\ end[u] = end[u - 1] + ks[u] + 1
                           /\ end[u] \in Nat /\ end[u - 1] \in Nat
      /\ \A u \in 0 .. n : end[u] <= end[n] /\ end[u] >= end[0] /\ end[u] \in Nat
  BY <1>1, EndsFacts
<1>3. ks \in [1 .. n -> Nat] /\ end \in [0 .. n -> Nat]
  BY <1>1 DEF Ends
<1> HIDE DEF base
<1>4. Reads(bits, n, hi, base, ks, end)
  <2>1. ASSUME NEW u \in 1 .. n
        PROVE  ks[u] \in 0 .. hi - 1 /\ OneAfter(bits, end[u - 1], ks[u])
    <3>1. ks[u] \in Nat /\ ks[u] < hi /\ end[u - 1] + ks[u] + 1 = end[u]
          /\ end[u] <= end[n] /\ end[u] \in Nat /\ end[n] \in Nat /\ end[n] <= Len(bits)
      BY <1>h, <1>2
    <3>2. end[u - 1] + ks[u] + 1 <= Len(bits)
      <4>1. Len(bits) \in Nat
        OBVIOUS
      <4>2. QED
        BY <3>1, <4>1
    <3>3. bits[end[u - 1] + ks[u] + 1] = 1
      BY <1>1, <3>1
    <3>4. OneAfter(bits, end[u - 1], ks[u])
      BY <1>1, <3>1, <3>2, <3>3 DEF OneAfter
    <3>5. ks[u] \in 0 .. hi - 1
      BY <3>1
    <3>6. QED
      BY <3>4, <3>5
  <2>2. QED
    BY <1>2, <1>3, <2>1 DEF Reads
<1>5. unary = [ok |-> TRUE, next |-> end[n] + 1, ks |-> ks]
  BY <1>0, <1>4, ReadThere
<1>6. unary.ok = TRUE /\ unary.next = end[n] + 1 /\ unary.ks = ks
  BY <1>5
<1>7. ~(Len(bits) < base)
  <2>1. /\ Len(bits) \in Nat /\ end[0] <= end[n] /\ end[n] \in Nat /\ 0 \in 0 .. n
        /\ end[n] <= Len(bits)
    BY <1>h, <1>2
  <2>2. QED
    BY <1>0, <1>2, <2>1
<1>8. DecodeGR(bits, n, low, hi) = [values |-> [u \in 1 .. n |-> value(u)],
                                    used |-> unary.next - 1]
  <2> DEFINE d == [values |-> [u \in 1 .. n |-> value(u)], used |-> unary.next - 1]
  <2>1. DecodeGR(bits, n, low, hi) = IF Len(bits) < base \/ ~unary.ok THEN None ELSE d
    BY <1>d
  <2> HIDE DEF d, unary
  <2>2. QED
    BY <1>6, <1>7, <2>1, Zenon DEF d
<1> HIDE DEF unary
<1>9. \A u \in 1 .. n : value(u) = a[u]
  <2> SUFFICES ASSUME NEW u \in 1 .. n PROVE value(u) = a[u]
    OBVIOUS
  <2>1. ValueAt(bits, n, low, u, a[u])
    BY <1>1 DEF ValueAt
  <2>2. a[u] \in Int /\ u \in Nat
    OBVIOUS
  <2>3. Signed(bits[u], Rest(a[u], low) * Power(low) + LowPart(bits, n, low, u)) = a[u]
    BY <2>1, <2>2, ValueRead
  <2>4. unary.ks[u] = Rest(a[u], low)
    BY <1>1, <1>6
  <2>5. QED
    BY <2>3, <2>4, Zenon
<1>10. [u \in 1 .. n |-> value(u)] = a
  BY <1>9
<1>11. unary.next - 1 = end[n]
  BY <1>2, <1>3, <1>6
<1>12. QED
  BY <1>8, <1>10, <1>11, Zenon

LEMMA DecodedCoded ==
    ASSUME NEW bits \in Seq(Bit), NEW n \in Nat, n > 0, NEW low \in Nat, NEW hi \in Nat
    PROVE  DecodeGR(bits, n, low, hi) # None =>
              \E a \in [1 .. n -> Int] : \E ks, end :
                 /\ Coded(bits, n, low, a, ks, end)
                 /\ end[n] <= Len(bits) /\ \A u \in 1 .. n : ks[u] < hi
                 /\ DecodeGR(bits, n, low, hi) = [values |-> a, used |-> end[n]]
<1> DEFINE base == n + low * n
           unary == ReadUnary(bits, base + 1, n, hi)
<1>0. base \in Nat
  OBVIOUS
<1>1. HAVE DecodeGR(bits, n, low, hi) # None
<1>2. ~(Len(bits) < base) /\ unary.ok
  BY <1>1, DecodeForm, Zenon
<1> HIDE DEF base
<1>3. PICK ks, end : Reads(bits, n, hi, base, ks, end)
  BY <1>0, <1>2, ThereRead
<1>4. /\ ks \in [1 .. n -> Nat] /\ end \in [0 .. n -> Nat] /\ end[0] = base
      /\ \A u \in 1 .. n : /\ end[u] = end[u - 1] + ks[u] + 1
                           /\ ks[u] \in 0 .. hi - 1
                           /\ OneAfter(bits, end[u - 1], ks[u])
  BY <1>3 DEF Reads
<1>5. Ends(n, low, ks, end)
  BY <1>4 DEF Ends, base
<1>6. /\ Len(bits) \in Nat /\ Len(bits) >= base /\ \A x \in 1 .. Len(bits) : bits[x] \in Bit
  BY <1>0, <1>2
<1> DEFINE P == Power(low)
           r == [u \in 1 .. n |-> LowPart(bits, n, low, u)]
           m == [u \in 1 .. n |-> ks[u] * P + r[u]]
           a == [u \in 1 .. n |-> Signed(bits[u], m[u])]
<1>7. P \in Nat \ {0}
  BY PowerFacts
<1>8. ASSUME NEW u \in 1 .. n
      PROVE  /\ r[u] \in 0 .. P - 1
             /\ \A j \in 1 .. low : (r[u] \div Power(j - 1)) % 2 = bits[n + low * (u - 1) + j]
             /\ bits[u] \in Bit
  <2> DEFINE from == n + low * (u - 1) + 1
  <2>1. low * (u - 1) \in Nat /\ low * (u - 1) + low <= low * n /\ low * n \in Nat
    <3>1. low * (u - 1) + low = low * u /\ low * u <= low * n
      OBVIOUS
    <3>2. QED
      BY <3>1
  <2>2. \A j \in 1 .. low : /\ from + j - 1 = n + low * (u - 1) + j
                            /\ from + j - 1 \in 1 .. Len(bits)
    <3> DEFINE lu == low * (u - 1)
               ln == low * n
    <3>1. lu \in Nat /\ ln \in Nat /\ lu + low <= ln /\ base = n + ln /\ from = n + lu + 1
      BY <2>1 DEF base
    <3> HIDE DEF lu, ln, from
    <3>2. \A j \in 1 .. low : from + j - 1 = n + lu + j /\ from + j - 1 \in 1 .. Len(bits)
      BY <1>6, <3>1
    <3>3. QED
      BY <3>2 DEF lu
  <2>3. \A j \in 1 .. low : bits[from + j - 1] \in Bit
    BY <1>6, <2>2
  <2>4. from \in Int
    BY <2>1
  <2> HIDE DEF from
  <2>5. /\ NumberAt(bits, from, low) \in 0 .. P - 1
        /\ \A j \in 1 .. low :
              (NumberAt(bits, from, low) \div Power(j - 1)) % 2 = bits[from + j - 1]
    BY <2>3, <2>4, NumberBits
  <2>6. r[u] = NumberAt(bits, from, low)
    BY DEF LowPart, from
  <2>7. u \in 1 .. Len(bits)
    BY <1>6, <2>1 DEF base
  <2> HIDE DEF r
  <2>8. QED
    BY <1>6, <2>2, <2>5, <2>6, <2>7
<1>9. ASSUME NEW u \in 1 .. n
      PROVE  /\ m[u] \in Nat /\ m[u] \div P = ks[u] /\ m[u] % P = r[u]
             /\ a[u] \in Int /\ Magnitude(a[u]) = m[u] /\ SignBit(a[u]) = bits[u]
  <2> DEFINE q == ks[u]
             rest == r[u]
             x == m[u]
  <2>1. q \in Nat /\ rest \in 0 .. P - 1
    BY <1>4, <1>8
  <2>2. x = q * P + rest
    OBVIOUS
  <2>3. a[u] = Signed(bits[u], x)
    OBVIOUS
  <2> HIDE DEF q, rest, x, P, a
  <2>4. q * P \in Nat
    BY <1>7, <2>1
  <2>5. x \in Nat /\ x \div P = q /\ x % P = rest
    BY <1>7, <2>1, <2>2, <2>4
  <2>6. a[u] \in Int /\ Magnitude(a[u]) = x /\ SignBit(a[u]) = bits[u]
    BY <1>8, <2>3, <2>5, SignedFacts
  <2>7. QED
    BY <2>5, <2>6 DEF q, rest, x
<1>10. a \in [1 .. n -> Int]
  <2>1. \A u \in 1 .. n : a[u] \in Int
    BY <1>9
  <2>2. QED
    BY <2>1
<1> HIDE DEF a, m, r, P
<1>11. Coded(bits, n, low, a, ks, end)
  <2>1. ASSUME NEW u \in 1 .. n
        PROVE  /\ ks[u] = Rest(a[u], low) /\ bits[u] = SignBit(a[u])
               /\ bits[end[u]] = 1
               /\ \A j \in 1 .. ks[u] : bits[end[u - 1] + j] = 0
    <3>1. ks[u] = Rest(a[u], low)
      BY <1>9 DEF Rest, P
    <3>2. OneAfter(bits, end[u - 1], ks[u]) /\ end[u] = end[u - 1] + ks[u] + 1
      BY <1>4
    <3>3. QED
      BY <1>9, <3>1, <3>2 DEF OneAfter
  <2>2. ASSUME NEW u \in 1 .. n, NEW j \in 1 .. low
        PROVE  bits[n + low * (u - 1) + j] = (Magnitude(a[u]) \div Power(j - 1)) % 2
    <3>1. bits[n + low * (u - 1) + j] = (r[u] \div Power(j - 1)) % 2
      BY <1>8
    <3>2. m[u] \in Nat /\ r[u] = m[u] % Power(low) /\ Magnitude(a[u]) = m[u]
      BY <1>9 DEF P
    <3> DEFINE x == m[u]
    <3> HIDE DEF x
    <3>3. ((x % Power(low)) \div Power(j - 1)) % 2 = (x \div Power(j - 1)) % 2
      BY <3>2, LowBits DEF x
    <3>4. QED
      BY <3>1, <3>2, <3>3, Zenon DEF x
  <2>3. QED
    BY <1>5, <2>1, <2>2 DEF Coded
<1>12. \A u \in 1 .. n : ks[u] < hi
  BY <1>4
<1>13. end[n] <= Len(bits)
  <2>1. OneAfter(bits, end[n - 1], ks[n]) /\ end[n] = end[n - 1] + ks[n] + 1
    BY <1>4
  <2>2. QED
    BY <2>1 DEF OneAfter
<1>14. DecodeGR(bits, n, low, hi) = [values |-> a, used |-> end[n]]
  BY <1>10, <1>11, <1>12, <1>13, Decodes
<1>15. QED
  BY <1>10, <1>11, <1>12, <1>13, <1>14

-----------------------------------------------------------------------------
(***************************************************************************)
(* The code and its decoder, from outside.                                 *)
(***************************************************************************)
\* Two buffers that hold the same code.
LEMMA CodedSame ==
    ASSUME NEW n \in Nat, NEW low \in Nat, NEW a, NEW ks, NEW end, NEW b, NEW c,
           Coded(b, n, low, a, ks, end), Coded(c, n, low, a, ks, end),
           NEW x \in 1 .. end[n]
    PROVE  b[x] = c[x]
<1>1. Ends(n, low, ks, end)
  BY DEF Coded
<1>2. /\ end[0] = n + low * n /\ low * n \in Nat
      /\ \A u \in 0 .. n : end[u] \in Nat
      /\ \A u \in 1 .. n : ks[u] \in Nat /\ end[u] = end[u - 1] + ks[u] + 1
  BY <1>1, EndsFacts
<1>3. x \in Nat /\ x >= 1 /\ x <= end[n] /\ end[n] \in Nat
  BY <1>2
<1>4. CASE x <= n
  <2>1. x \in 1 .. n
    BY <1>3, <1>4
  <2>2. QED
    BY <2>1 DEF Coded
<1>5. CASE n < x /\ x <= end[0]
  <2> DEFINE y == x - n - 1
             u == (y \div low) + 1
             j == (y % low) + 1
             ln == low * n
  <2>1. ln \in Nat /\ y \in Nat /\ y < ln /\ x = n + y + 1
    BY <1>2, <1>3, <1>5
  <2>2. low > 0
    <3>1. low = 0 => ln = 0
      OBVIOUS
    <3> HIDE DEF ln
    <3>2. QED
      BY <2>1, <3>1
  <2>3. /\ y \div low \in Nat /\ y % low \in 0 .. low - 1
        /\ y = low * (y \div low) + (y % low)
    <3> HIDE DEF y
    <3>1. QED
      BY <2>1, <2>2
  <2>4. y \div low < n
    <3> DEFINE q == y \div low
    <3> HIDE DEF y
    <3>1. q \in Nat /\ low * q <= y
      BY <2>1, <2>3
    <3> HIDE DEF q
    <3>2. q >= n => low * q >= low * n
      BY <3>1, <2>2
    <3>3. low * q \in Nat /\ ln = low * n
      BY <3>1
    <3>4. ~(q >= n)
      BY <2>1, <3>1, <3>2, <3>3
    <3>5. QED
      BY <3>1, <3>4 DEF q
  <2>5. u \in 1 .. n /\ j \in 1 .. low /\ u - 1 = y \div low
    <3> HIDE DEF y
    <3>1. QED
      BY <2>2, <2>3, <2>4
  <2>6. x = n + low * (u - 1) + j
    <3> DEFINE p == low * (y \div low)
    <3>1. p = low * (u - 1)
      BY <2>5
    <3>2. y = p + (y % low) /\ j = (y % low) + 1 /\ p \in Int
      BY <2>3, <2>2
    <3> HIDE DEF y, p, j, u
    <3>3. x = n + p + j
      BY <2>1, <2>2, <3>2
    <3>4. QED
      BY <3>1, <3>3
  <2> HIDE DEF u, j
  <2>7. QED
    BY <2>5, <2>6 DEF Coded
<1>6. CASE x > end[0]
  <2> DEFINE T == {u \in 0 .. n : x <= end[u]}
  <2>1. T \subseteq Nat /\ n \in T
    BY <1>3
  <2>2. PICK u \in T : \A v \in T : u <= v
    BY <2>1, LeastNatural
  <2>3. u \in 1 .. n /\ x <= end[u] /\ u - 1 \in 0 .. n
    BY <1>2, <1>3, <1>6, <2>2
  <2>4. ~(x <= end[u - 1])
    BY <2>2, <2>3
  <2> DEFINE j == x - end[u - 1]
  <2>5. /\ end[u - 1] \in Nat /\ end[u] = end[u - 1] + ks[u] + 1 /\ ks[u] \in Nat
        /\ x = end[u - 1] + j /\ j \in 1 .. ks[u] + 1
    BY <1>2, <1>3, <2>3, <2>4
  <2>6. CASE j = ks[u] + 1
    <3>1. x = end[u]
      BY <2>5, <2>6
    <3>2. QED
      BY <2>3, <3>1 DEF Coded
  <2>7. CASE j # ks[u] + 1
    <3>1. j \in 1 .. ks[u]
      BY <2>5, <2>7
    <3> HIDE DEF j
    <3>2. QED
      BY <2>3, <2>5, <3>1 DEF Coded
  <2>8. QED
    BY <2>6, <2>7
<1>7. QED
  BY <1>2, <1>3, <1>4, <1>5, <1>6

\* s is the first of bits.
Begins(bits, s) ==
    Len(s) <= Len(bits) /\ \A x \in 1 .. Len(s) : bits[x] = s[x]

Small(a, n, low, hi) == \A u \in 1 .. n : Rest(a[u], low) < hi

LEMMA EncodeFacts ==
    ASSUME NEW n \in Nat, NEW low \in Nat, NEW a \in [1 .. n -> Int]
    PROVE  /\ EncodeGR(a, low) \in Seq(Bit)
           /\ \E ks, end : /\ Ends(n, low, ks, end)
                           /\ \A u \in 1 .. n : ks[u] = Rest(a[u], low)
                           /\ Coded(EncodeGR(a, low), n, low, a, ks, end)
                           /\ Len(EncodeGR(a, low)) = end[n]
                           /\ end[n] >= n
<1>1. PICK ks \in [1 .. n -> Nat] : ks = Rests(n, low, a)
  BY RestsFacts
<1>2. \A u \in 1 .. n : ks[u] = Rest(a[u], low)
  BY <1>1, RestsFacts
<1>3. PICK end : Ends(n, low, ks, end)
  BY EndsExist
<1>4. /\ EncodeGR(a, low) \in Seq(Bit) /\ Len(EncodeGR(a, low)) = end[n]
      /\ Coded(EncodeGR(a, low), n, low, a, ks, end)
  BY <1>2, <1>3, EncodeCoded
<1>5. end[n] >= n
  <2>1. /\ n <= end[0] /\ n \in 0 .. n
        /\ \A u \in 0 .. n : end[u] \in Nat /\ end[u] >= end[0]
    BY <1>3, EndsFacts
  <2>2. end[n] \in Nat /\ end[0] \in Nat /\ end[n] >= end[0]
    BY <2>1
  <2>3. QED
    BY <2>1, <2>2
<1>6. QED
  BY <1>2, <1>3, <1>4, <1>5

\* What was encoded is decoded, whatever follows.
LEMMA DecodesEncoded ==
    ASSUME NEW n \in Nat, n > 0, NEW low \in Nat, NEW hi \in Nat,
           NEW a \in [1 .. n -> Int], NEW bits \in Seq(Bit)
    PROVE  Small(a, n, low, hi) /\ Begins(bits, EncodeGR(a, low)) =>
              DecodeGR(bits, n, low, hi) = [values |-> a, used |-> Len(EncodeGR(a, low))]
<1>1. HAVE Small(a, n, low, hi) /\ Begins(bits, EncodeGR(a, low))
<1> DEFINE s == EncodeGR(a, low)
<1>2. PICK ks, end : /\ Ends(n, low, ks, end)
                     /\ \A u \in 1 .. n : ks[u] = Rest(a[u], low)
                     /\ Coded(s, n, low, a, ks, end)
                     /\ Len(s) = end[n]
                     /\ end[n] >= n
  BY EncodeFacts
<1>3. /\ \A u \in 1 .. n : end[u] \in 1 .. end[n] /\ end[u - 1] \in Nat
                           /\ end[u] = end[u - 1] + ks[u] + 1 /\ ks[u] \in Nat
      /\ end[0] = n + low * n /\ low * n \in Nat /\ end[n] \in Nat /\ end[0] <= end[n]
  <2>1. /\ end[0] = n + low * n /\ low * n \in Nat
        /\ \A u \in 0 .. n : end[u] \in Nat /\ end[u] >= end[0] /\ end[u] <= end[n]
        /\ \A u \in 1 .. n : ks[u] \in Nat /\ end[u] = end[u - 1] + ks[u] + 1
    BY <1>2, EndsFacts
  <2>2. n \in 0 .. n /\ \A u \in 1 .. n : u \in 0 .. n /\ u - 1 \in 0 .. n
    OBVIOUS
  <2>3. QED
    BY <2>1, <2>2
<1>4. Len(s) <= Len(bits) /\ \A x \in 1 .. end[n] : bits[x] = s[x]
  BY <1>1, <1>2 DEF Begins
<1> HIDE DEF s
<1>5. Coded(bits, n, low, a, ks, end)
  <2>1. ASSUME NEW u \in 1 .. n
        PROVE  /\ bits[u] = SignBit(a[u])
               /\ bits[end[u]] = 1
               /\ \A j \in 1 .. ks[u] : bits[end[u - 1] + j] = 0
    <3>1. u \in 1 .. end[n]
      BY <1>3
    <3>2. \A j \in 1 .. ks[u] : end[u - 1] + j \in 1 .. end[n]
      <4>1. /\ end[u] \in 1 .. end[n] /\ end[u - 1] \in Nat
            /\ end[u] = end[u - 1] + ks[u] + 1 /\ ks[u] \in Nat /\ end[n] \in Nat
        BY <1>3
      <4> DEFINE x == end[u]
                 y == end[u - 1]
                 z == end[n]
                 k == ks[u]
      <4>2. x \in 1 .. z /\ y \in Nat /\ x = y + k + 1 /\ k \in Nat /\ z \in Nat
        BY <4>1
      <4> HIDE DEF x, y, z, k
      <4>3. \A j \in 1 .. k : y + j \in 1 .. z
        BY <4>2
      <4>4. QED
        BY <4>3 DEF y, z, k
    <3>3. /\ s[u] = SignBit(a[u])
          /\ s[end[u]] = 1
          /\ \A j \in 1 .. ks[u] : s[end[u - 1] + j] = 0
      BY <1>2 DEF Coded
    <3>4. QED
      BY <1>3, <1>4, <3>1, <3>2, <3>3
  <2>2. ASSUME NEW u \in 1 .. n, NEW j \in 1 .. low
        PROVE  bits[n + low * (u - 1) + j] = (Magnitude(a[u]) \div Power(j - 1)) % 2
    <3> DEFINE lu == low * (u - 1)
               ln == low * n
               x == n + lu + j
    <3>1. lu \in Nat /\ lu + low <= ln
      <4>1. low * (u - 1) + low = low * u /\ low * u <= low * n /\ low * (u - 1) \in Nat
        OBVIOUS
      <4>2. QED
        BY <4>1
    <3>2. ln \in Nat /\ end[0] = n + ln
      BY <1>3
    <3> HIDE DEF lu, ln
    <3>3. x \in 1 .. end[n]
      BY <1>3, <3>1, <3>2
    <3>4. s[n + low * (u - 1) + j] = (Magnitude(a[u]) \div Power(j - 1)) % 2
      BY <1>2 DEF Coded
    <3> HIDE DEF x
    <3>5. bits[x] = s[x]
      BY <1>4, <3>3
    <3>6. QED
      BY <3>4, <3>5, Zenon DEF x, lu
  <2>3. QED
    BY <1>2, <2>1, <2>2 DEF Coded
<1>6. \A u \in 1 .. n : ks[u] < hi
  BY <1>1, <1>2 DEF Small
<1>7. QED
  BY <1>2, <1>4, <1>5, <1>6, Decodes DEF s

\* What is decoded, whatever it is, starts as its encoding.
LEMMA DecodedEncodes ==
    ASSUME NEW n \in Nat, n > 0, NEW low \in Nat, NEW hi \in Nat, NEW bits \in Seq(Bit)
    PROVE  DecodeGR(bits, n, low, hi) # None =>
              \E a \in [1 .. n -> Int] :
                 /\ Small(a, n, low, hi) /\ Begins(bits, EncodeGR(a, low))
                 /\ DecodeGR(bits, n, low, hi) = [values |-> a, used |-> Len(EncodeGR(a, low))]
<1>1. HAVE DecodeGR(bits, n, low, hi) # None
<1>2. PICK a \in [1 .. n -> Int] : \E ks, end :
         /\ Coded(bits, n, low, a, ks, end)
         /\ end[n] <= Len(bits) /\ \A u \in 1 .. n : ks[u] < hi
         /\ DecodeGR(bits, n, low, hi) = [values |-> a, used |-> end[n]]
  BY <1>1, DecodedCoded
<1> PICK ks, end :
         /\ Coded(bits, n, low, a, ks, end)
         /\ end[n] <= Len(bits) /\ \A u \in 1 .. n : ks[u] < hi
         /\ DecodeGR(bits, n, low, hi) = [values |-> a, used |-> end[n]]
  BY <1>2
<1>3. Ends(n, low, ks, end) /\ \A u \in 1 .. n : ks[u] = Rest(a[u], low)
  BY <1>2 DEF Coded
<1>4. /\ Len(EncodeGR(a, low)) = end[n]
      /\ Coded(EncodeGR(a, low), n, low, a, ks, end)
  BY <1>3, EncodeCoded
<1>5. \A x \in 1 .. end[n] : bits[x] = EncodeGR(a, low)[x]
  BY <1>2, <1>4, CodedSame
<1>6. Begins(bits, EncodeGR(a, low))
  BY <1>2, <1>4, <1>5 DEF Begins
<1>7. Small(a, n, low, hi)
  BY <1>2, <1>3 DEF Small
<1>8. QED
  BY <1>2, <1>4, <1>6, <1>7
=============================================================================
