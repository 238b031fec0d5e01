--------------------------- MODULE HawkSignProofs ---------------------------
(***************************************************************************)
(* Proofs about HawkSplit and HawkSign, for every degree, every number of  *)
(* threads, and every set of keys, messages and squares.                   *)
(***************************************************************************)
EXTENDS HawkSign, DataTheorems

-----------------------------------------------------------------------------
(***************************************************************************)
(* The ranges tile the coordinates.                                        *)
(***************************************************************************)
\* They start at the first coordinate, end at the last, and follow each
\* other.
LEMMA StartFacts ==
    ASSUME SplitTypeOK
    PROVE  /\ threads \in Nat \ {0} /\ threads <= MaxThreads
           /\ \A w \in Nat : RangeStart(w) \in Nat /\ RangeStart(w + 1) \in Nat
           /\ \A v, w \in Nat : v <= w => RangeStart(v) <= RangeStart(w)
           /\ RangeStart(0) = 0 /\ RangeStart(threads) = 2 * Degree
           /\ \A w \in Workers : w < threads =>
                 /\ RangeStart(w) <= RangeStart(w + 1)
                 /\ RangeStart(w + 1) <= 2 * Degree
<1>1. threads \in Nat \ {0} /\ threads <= MaxThreads /\ 2 * Degree \in Nat
  BY ThreadsAssumption, DegreeAssumption DEF SplitTypeOK
<1>2. \A w : RangeStart(w) = Cut(2 * Degree, threads, w)
  BY DEF RangeStart, Cut
<1>3. /\ \A w \in Nat : RangeStart(w) \in Nat
      /\ \A v, w \in Nat : v <= w => RangeStart(v) <= RangeStart(w)
      /\ RangeStart(0) = 0 /\ RangeStart(threads) = 2 * Degree
  BY <1>1, <1>2, CutFacts
<1>4. \A w \in Nat : w + 1 \in Nat
  OBVIOUS
<1>5. ASSUME NEW w \in Workers, w < threads
      PROVE  RangeStart(w) <= RangeStart(w + 1) /\ RangeStart(w + 1) <= 2 * Degree
  <2>1. w \in Nat /\ w + 1 \in Nat /\ w <= w + 1 /\ w + 1 <= threads
    BY <1>1, <1>5, ThreadsAssumption DEF Workers
  <2>2. QED
    BY <1>1, <1>3, <2>1
<1>6. QED
  BY <1>1, <1>3, <1>4, <1>5

\* Every coordinate is in the range of a worker.
LEMMA OwnerExists ==
    ASSUME SplitTypeOK, NEW v \in Coordinates
    PROVE  \E w \in Workers : w < threads /\ InRange(w, v)
<1>1. /\ threads \in Nat \ {0} /\ threads <= MaxThreads
      /\ 2 * Degree \in Nat \ {0} /\ v \in 0 .. 2 * Degree - 1
  BY StartFacts, DegreeAssumption DEF Coordinates
<1>2. PICK w \in 0 .. threads - 1 :
         /\ Cut(2 * Degree, threads, w) <= v
         /\ v < Cut(2 * Degree, threads, w + 1)
  BY <1>1, CutOwner
<1>3. w \in Workers /\ w < threads
  BY <1>1, ThreadsAssumption DEF Workers
<1>4. InRange(w, v)
  BY <1>2 DEF InRange, RangeStart, Cut
<1>5. QED
  BY <1>3, <1>4

\* No coordinate is in the range of two workers.
LEMMA OwnerUnique ==
    ASSUME SplitTypeOK, NEW w \in Nat, NEW v \in Nat, NEW r \in Coordinates,
           InRange(w, r), InRange(v, r)
    PROVE  w = v
<1>1. r \in Nat
  BY DegreeAssumption DEF Coordinates
<1>2. ~(w < v)
  <2>1. SUFFICES ASSUME w < v PROVE FALSE
    OBVIOUS
  <2>2. w + 1 \in Nat /\ w + 1 <= v
    BY <2>1
  <2>3. RangeStart(w + 1) <= RangeStart(v)
        /\ RangeStart(w + 1) \in Nat /\ RangeStart(v) \in Nat
    BY <2>2, StartFacts
  <2>4. QED
    BY <1>1, <2>3 DEF InRange
<1>3. ~(v < w)
  <2>1. SUFFICES ASSUME v < w PROVE FALSE
    OBVIOUS
  <2>2. v + 1 \in Nat /\ v + 1 <= w
    BY <2>1
  <2>3. RangeStart(v + 1) <= RangeStart(w)
        /\ RangeStart(v + 1) \in Nat /\ RangeStart(w) \in Nat
    BY <2>2, StartFacts
  <2>4. QED
    BY <1>1, <2>3 DEF InRange
<1>4. QED
  BY <1>2, <1>3

-----------------------------------------------------------------------------
(***************************************************************************)
(* The squares of coordinates that follow each other.                      *)
(***************************************************************************)
\* No coordinates have the sum 0.
LEMMA NormNone ==
    ASSUME NEW y, NEW a \in Int
    PROVE  NormBetween(y, a, a) = 0
<1>1. a .. a - 1 = {}
  OBVIOUS
<1>2. SumFunctionOnSet([v \in {} |-> y[v].square], {}) = 0
  BY SumOfNone
<1>3. QED
  BY <1>1, <1>2, Zenon DEF NormBetween

\* A sum is a natural number.
LEMMA NormType ==
    ASSUME NEW y, NEW a \in Int, NEW b \in Int,
           \A v \in a .. b - 1 : y[v].square \in Nat
    PROVE  NormBetween(y, a, b) \in Nat
<1>1. IsFiniteSet(a .. b - 1)
  BY FS_Interval
<1> DEFINE f == [v \in a .. b - 1 |-> y[v].square]
<1>2. \A v \in a .. b - 1 : f[v] \in Nat
  OBVIOUS
<1> HIDE DEF f
<1>3. SumFunctionOnSet(f, a .. b - 1) \in Nat
  BY <1>1, <1>2, SumType
<1>4. QED
  BY <1>3 DEF NormBetween, f

\* Coordinates elsewhere do not matter.
LEMMA NormAgree ==
    ASSUME NEW y, NEW z, NEW a \in Int, NEW b \in Int,
           \A v \in a .. b - 1 : y[v] = z[v]
    PROVE  NormBetween(y, a, b) = NormBetween(z, a, b)
<1>1. [v \in a .. b - 1 |-> y[v].square] = [v \in a .. b - 1 |-> z[v].square]
  OBVIOUS
<1>2. QED
  BY <1>1 DEF NormBetween

\* One coordinate more.
LEMMA NormNext ==
    ASSUME NEW y, NEW a \in Int, NEW b \in Int, a <= b,
           \A v \in a .. b : y[v].square \in Nat
    PROVE  NormBetween(y, a, b + 1) = NormBetween(y, a, b) + y[b].square
<1> DEFINE f == [v \in a .. b |-> y[v].square]
           g == [v \in a .. b - 1 |-> y[v].square]
<1>1. (b + 1) - 1 = b
  OBVIOUS
<1>2. /\ \A v \in a .. b : f[v] \in Nat
      /\ \A v \in a .. b - 1 : f[v] \in Nat /\ f[v] = g[v]
      /\ f[b] = y[b].square
  OBVIOUS
<1>3. NormBetween(y, a, b + 1) = SumFunctionOnSet(f, a .. b)
  BY <1>1, Zenon DEF NormBetween
<1>4. NormBetween(y, a, b) = SumFunctionOnSet(g, a .. b - 1)
  BY DEF NormBetween
<1>5. IsFiniteSet(a .. b - 1)
  BY FS_Interval
<1> HIDE DEF f, g
<1>6. SumFunctionOnSet(f, a .. b) = SumFunctionOnSet(f, a .. b - 1) + f[b]
  BY <1>2, SumNext
<1>7. SumFunctionOnSet(f, a .. b - 1) = SumFunctionOnSet(g, a .. b - 1)
  BY <1>2, <1>5, SumAgree
<1>8. QED
  BY <1>2, <1>3, <1>4, <1>6, <1>7

\* One range, and then the next.
LEMMA NormJoin ==
    ASSUME NEW y, NEW a \in Int, NEW b \in Int, NEW c \in Int, a <= b, b <= c,
           \A v \in a .. c - 1 : y[v].square \in Nat
    PROVE  NormBetween(y, a, c) = NormBetween(y, a, b) + NormBetween(y, b, c)
<1> DEFINE f == [v \in a .. c - 1 |-> y[v].square]
           g == [v \in a .. b - 1 |-> y[v].square]
           h == [v \in b .. c - 1 |-> y[v].square]
<1>1. /\ \A v \in a .. c - 1 : f[v] \in Nat
      /\ \A v \in a .. b - 1 : f[v] \in Nat /\ f[v] = g[v]
      /\ \A v \in b .. c - 1 : f[v] \in Nat /\ f[v] = h[v]
  OBVIOUS
<1>2. /\ NormBetween(y, a, c) = SumFunctionOnSet(f, a .. c - 1)
      /\ NormBetween(y, a, b) = SumFunctionOnSet(g, a .. b - 1)
      /\ NormBetween(y, b, c) = SumFunctionOnSet(h, b .. c - 1)
  BY DEF NormBetween
<1>3. IsFiniteSet(a .. b - 1) /\ IsFiniteSet(b .. c - 1)
  BY FS_Interval
<1> HIDE DEF f, g, h
<1>4. SumFunctionOnSet(f, a .. c - 1) =
         SumFunctionOnSet(f, a .. b - 1) + SumFunctionOnSet(f, b .. c - 1)
  BY <1>1, SumJoin
<1>5. /\ SumFunctionOnSet(f, a .. b - 1) = SumFunctionOnSet(g, a .. b - 1)
      /\ SumFunctionOnSet(f, b .. c - 1) = SumFunctionOnSet(h, b .. c - 1)
  BY <1>1, <1>3, SumAgree
<1>6. QED
  BY <1>2, <1>4, <1>5

\* All coordinates.
LEMMA NormWhole ==
    ASSUME NEW y, DOMAIN y = Coordinates
    PROVE  NormBetween(y, 0, 2 * Degree) = SquareSum(y)
<1> DEFINE f == [v \in Coordinates |-> y[v].square]
<1>1. DOMAIN f = Coordinates
  OBVIOUS
<1>2. SquareSum(y) = SumFunctionOnSet(f, DOMAIN f)
  BY Zenon DEF SquareSum, SumFunction
<1>3. NormBetween(y, 0, 2 * Degree) = SumFunctionOnSet(f, Coordinates)
  BY Zenon DEF NormBetween, Coordinates
<1>4. QED
  BY <1>1, <1>2, <1>3, Zenon

\* The square of a sample.
LEMMA SquareType ==
    ASSUME NEW t, NEW v, Sampled(v, t)
    PROVE  x[v].square \in CoordNorms /\ x[v].square \in Nat
BY CoordNormsAssumption DEF Sampled, Sample

-----------------------------------------------------------------------------
(***************************************************************************)
(* The split sampler: each of its steps keeps SplitInv.                    *)
(***************************************************************************)
\* The split sampler starts with no call and an idle pool.
LEMMA SplitStart == SplitInit => SplitInv
<1> SUFFICES ASSUME SplitInit PROVE SplitInv
  OBVIOUS
<1>1. SplitTypeOK
  <2>1. x = [v \in Coordinates |-> x[v]]
    BY DEF SplitInit
  <2>2. threads \in 1 .. MaxThreads /\ u \in 0 .. MaxThreads
    BY ThreadsAssumption DEF SplitInit
  <2>3. cursor \in [Workers -> 0 .. 2 * Degree]
    BY DegreeAssumption DEF SplitInit
  <2>4. /\ wpc \in [Workers -> {"off", "range", "done"}]
        /\ acc \in [Workers -> Nat] /\ wsn \in [Workers -> Nat]
        /\ wok \in [Workers -> BOOLEAN]
    BY DEF SplitInit
  <2>5. /\ split \in BOOLEAN /\ sn \in Nat /\ ok \in BOOLEAN /\ xsn \in Nat
        /\ spc \in {"off", "dispatch", "own", "wait", "sum"}
    BY DEF SplitInit
  <2>6. QED
    BY <2>1, <2>2, <2>3, <2>4, <2>5 DEF SplitTypeOK
<1>2. PoolInv /\ WorkerInv /\ RangeInv /\ SumInv
  BY DEF SplitInit, Pool!Init, PoolInv, WorkerInv, RangeInv, SumInv
<1>3. QED
  BY <1>1, <1>2 DEF SplitInv

\* A step that starts workers of the call, and touches nothing they have
\* done, keeps what is known of the ranges.
LEMMA RangeKept ==
    ASSUME SplitInv, spc # "off",
           UNCHANGED <<threads, target, x, cursor, acc, wsn, wok>>,
           wpc' \in [Workers -> {"off", "range", "done"}],
           \A w \in Workers :
              \/ wpc'[w] = wpc[w]
              \/ wpc[w] = "off" /\ wpc'[w] = "range" /\ w < threads
    PROVE  RangeInv'
<1>1. /\ \A w : RangeStart(w)' = RangeStart(w)
      /\ \A w, v : InRange(w, v)' <=> InRange(w, v)
      /\ \A v : Sampled(v, target)' <=> Sampled(v, target)
      /\ \A a, b : NormBetween(x, a, b)' = NormBetween(x, a, b)
  BY DEF RangeStart, InRange, Sampled, NormBetween
<1>2. \A w \in Workers : /\ wpc[w] = "done" <=> wpc'[w] = "done"
                         /\ w >= threads => wpc'[w] = wpc[w]
  BY ThreadsAssumption DEF SplitInv, SplitTypeOK, Workers
<1>3. \A w \in Workers : w < threads =>
         /\ cursor'[w] \in RangeStart(w)' .. RangeStart(w + 1)'
         /\ acc'[w] = NormBetween(x', RangeStart(w)', cursor'[w])
         /\ wok'[w] => /\ cursor'[w] = RangeStart(w + 1)' /\ wpc'[w] = "done"
                       /\ wsn'[w] = acc'[w]
  BY <1>1, <1>2 DEF SplitInv, RangeInv
<1>4. \A w \in Workers : w >= threads => wpc'[w] = "off"
  BY <1>2 DEF SplitInv, RangeInv
<1>5. \A w \in Workers, v \in Coordinates :
         w < threads /\ InRange(w, v)' /\ v < cursor'[w] => Sampled(v, target)'
  BY <1>1 DEF SplitInv, RangeInv
<1>6. QED
  BY <1>3, <1>4, <1>5 DEF RangeInv

\* What the sum has seen, by a step before it starts.
LEMMA SumKept ==
    ASSUME SplitInv, spc # "off", spc # "sum", UNCHANGED <<u, sn, ok, threads>>
    PROVE  SumInv'
<1>1. u = 0 /\ u' = 0 /\ threads' = threads /\ threads \in Nat
  BY StartFacts DEF SplitInv, SumInv
<1>2. RangeStart(0) = 0 /\ RangeStart(0)' = 0
  BY StartFacts DEF SplitInv, RangeStart
<1>3. NormBetween(x, 0, 0) = 0 /\ NormBetween(x', 0, 0) = 0
  BY NormNone
<1>4. \A w \in Workers : ~(w < 0)
  BY ThreadsAssumption DEF Workers
<1>5. ok' => sn' = NormBetween(x', 0, 0)
  BY <1>1, <1>2, <1>3 DEF SplitInv, SumInv
<1>6. 0 <= threads'
  BY <1>1
<1>7. QED
  BY <1>1, <1>2, <1>4, <1>5, <1>6 DEF SumInv

\* hawkv_select keeps the invariant: there is no call.
LEMMA StepSelect ==
    ASSUME SplitInv, NEW s \in BOOLEAN, NEW t \in Threads, Select(s, t)
    PROVE  SplitInv'
<1>1. spc = "off" /\ split' = s /\ threads' = t
      /\ UNCHANGED <<callVars, x, workerVars, poolVars>>
  BY DEF Select
<1>2. SplitTypeOK'
  BY <1>1, SelectAssumption
  DEF SplitInv, SplitTypeOK, callVars, workerVars
<1>3. PoolInv' /\ WorkerInv'
  BY <1>1 DEF SplitInv, PoolInv, WorkerInv, callVars, workerVars, poolVars
<1>4. RangeInv' /\ SumInv'
  BY <1>1 DEF RangeInv, SumInv, callVars
<1>5. QED
  BY <1>2, <1>3, <1>4 DEF SplitInv

\* Upstream's sampler: its samples, and the sum of their squares.
LEMMA AllSampled ==
    ASSUME NEW t, SampleAll(t)
    PROVE  /\ x' \in Vectors(t) /\ xsn' = SquareSum(x') /\ xsn' \in Nat
           /\ x' = [v \in Coordinates |-> x'[v]]
<1>1. PICK c \in [Coordinates -> CoordNorms] :
         x' = [v \in Coordinates |-> Sample(t, c[v])]
  BY DEF SampleAll
<1>2. /\ x' \in Vectors(t) /\ x' = [v \in Coordinates |-> x'[v]]
      /\ \A v \in Coordinates : x'[v].square \in Nat
  BY <1>1, CoordNormsAssumption DEF Vectors, Sample
<1>3. xsn' = SquareSum(x')
  BY DEF SampleAll
<1>4. NormBetween(x', 0, 2 * Degree) \in Nat
  <2>1. \A v \in 0 .. 2 * Degree - 1 : x'[v].square \in Nat
    BY <1>2 DEF Coordinates
  <2>2. 0 \in Int /\ 2 * Degree \in Int
    BY DegreeAssumption
  <2>3. QED
    BY <2>1, <2>2, NormType
<1>5. DOMAIN x' = Coordinates
  BY <1>2
<1>6. NormBetween(x', 0, 2 * Degree) = SquareSum(x')
  BY <1>5, NormWhole
<1>7. QED
  BY <1>2, <1>3, <1>4, <1>6

LEMMA StepSampleAll ==
    ASSUME SplitInv, NEW t, SampleAll(t)
    PROVE  SplitInv'
<1>1. spc = "off" /\ spc' = "off"
      /\ UNCHANGED <<selectVars, spc, target, u, sn, ok, workerVars, poolVars>>
  BY DEF SampleAll
<1>2. SplitTypeOK'
  BY <1>1, AllSampled
  DEF SplitInv, SplitTypeOK, selectVars, workerVars
<1>3. PoolInv' /\ WorkerInv'
  BY <1>1 DEF SplitInv, PoolInv, WorkerInv, selectVars, workerVars, poolVars
<1>4. RangeInv' /\ SumInv'
  BY <1>1 DEF RangeInv, SumInv
<1>5. QED
  BY <1>2, <1>3, <1>4 DEF SplitInv

\* The head of the call: every range is empty so far.
LEMMA StepSplitCall ==
    ASSUME SplitInv, NEW t, SplitCall(t)
    PROVE  SplitInv'
<1>1. /\ spc = "off" /\ phase = "idle" /\ taken = {} /\ finished = {}
      /\ threads' = threads /\ threads \in Nat /\ threads > 0
      /\ threads <= MaxThreads /\ split' = split
      /\ UNCHANGED <<phase, task, size, taken, finished>>
  BY StartFacts, SMTT(30) DEF SplitCall, SplitInv, PoolInv, selectVars, poolVars
<1>2. /\ \A w \in Nat : RangeStart(w) \in Nat /\ RangeStart(w + 1) \in Nat
      /\ \A w \in Workers : w < threads =>
            /\ RangeStart(w) <= RangeStart(w + 1)
            /\ RangeStart(w + 1) <= 2 * Degree
      /\ RangeStart(0) = 0
      /\ \A w : RangeStart(w)' = RangeStart(w)
      /\ \A w \in Workers : w \in Nat
  BY <1>1, StartFacts, ThreadsAssumption DEF SplitInv, RangeStart, Workers
<1>3. SplitTypeOK'
  <2>1. \A w \in Workers : w < threads => RangeStart(w) \in 0 .. 2 * Degree
    BY <1>2, DegreeAssumption
  <2>2. cursor' \in [Workers -> 0 .. 2 * Degree]
    BY <2>1, DegreeAssumption DEF SplitCall
  <2>3. /\ acc' \in [Workers -> Nat] /\ wsn' \in [Workers -> Nat]
        /\ wok' \in [Workers -> BOOLEAN] /\ u' \in 0 .. MaxThreads
        /\ sn' \in Nat /\ ok' \in BOOLEAN /\ xsn' \in Nat
        /\ x' = [v \in Coordinates |-> x'[v]]
        /\ wpc' \in [Workers -> {"off", "range", "done"}]
        /\ spc' \in {"dispatch", "own"}
    BY ThreadsAssumption DEF SplitCall
  <2>4. QED
    BY <1>1, <2>2, <2>3 DEF SplitInv, SplitTypeOK
<1>4. PoolInv'
  BY <1>1 DEF SplitCall, PoolInv
<1>5. WorkerInv'
  <2>1. \A w \in Workers :
           wpc'[w] = IF w = 0 /\ threads = 1 THEN "range" ELSE "off"
    BY DEF SplitCall
  <2>2. QED
    BY <1>1, <2>1 DEF SplitCall, WorkerInv
<1>6. RangeInv'
  <2>1. ASSUME NEW w \in Workers, w < threads
        PROVE  /\ cursor'[w] = RangeStart(w) /\ wok'[w] = FALSE
               /\ cursor'[w] \in RangeStart(w) .. RangeStart(w + 1)
               /\ acc'[w] = NormBetween(x', RangeStart(w), cursor'[w])
    <3>1. cursor'[w] = RangeStart(w) /\ wok'[w] = FALSE /\ acc'[w] = 0
      BY <2>1 DEF SplitCall
    <3>2. RangeStart(w) \in Nat /\ RangeStart(w + 1) \in Nat
          /\ RangeStart(w) <= RangeStart(w + 1)
      BY <1>2, <2>1
    <3>3. NormBetween(x', RangeStart(w), RangeStart(w)) = 0
      BY <3>2, NormNone
    <3>4. QED
      BY <3>1, <3>2, <3>3
  <2>2. \A w \in Workers : w >= threads => wpc'[w] = "off"
    BY <1>1 DEF SplitCall
  <2>3. ASSUME NEW w \in Workers, NEW v \in Coordinates, w < threads,
               InRange(w, v)'
        PROVE  ~(v < cursor'[w])
    <3>1. RangeStart(w) <= v /\ RangeStart(w) \in Nat /\ v \in Nat
      BY <1>2, <2>3, DegreeAssumption DEF InRange, Coordinates
    <3>2. cursor'[w] = RangeStart(w)
      BY <2>1, <2>3
    <3>3. QED
      BY <3>1, <3>2
  <2>4. QED
    BY <1>1, <1>2, <2>1, <2>2, <2>3 DEF RangeInv
<1>7. SumInv'
  <2>1. u' = 0 /\ sn' = 0 /\ \A w \in Workers : ~(w < 0)
    BY ThreadsAssumption DEF SplitCall, Workers
  <2>2. NormBetween(x', 0, 0) = 0
    BY NormNone
  <2>3. 0 <= threads'
    BY <1>1
  <2>4. QED
    BY <1>2, <2>1, <2>2, <2>3 DEF SumInv
<1>8. QED
  BY <1>3, <1>4, <1>5, <1>6, <1>7 DEF SplitInv

\* A call that is over, with no worker in its range.
LEMMA StepReturn ==
    ASSUME SplitInv, NEW norm \in Nat, Return(norm),
           spc \in {"dispatch", "sum"}, UNCHANGED <<selectVars, x, poolVars>>
    PROVE  SplitInv'
<1>1. \A w \in Workers : wpc[w] \in {"off", "done"}
  BY DEF SplitInv, SplitTypeOK, WorkerInv
<1>2. /\ spc' = "off" /\ xsn' = norm
      /\ u' = 0 /\ sn' = 0 /\ ok' = TRUE
      /\ wpc' = [w \in Workers |-> IF wpc[w] = "done" THEN "off" ELSE wpc[w]]
      /\ cursor' = [w \in Workers |-> IF wpc[w] = "range" THEN cursor[w] ELSE 0]
      /\ acc' = [w \in Workers |-> 0] /\ wsn' = [w \in Workers |-> 0]
      /\ wok' = [w \in Workers |-> FALSE]
      /\ UNCHANGED <<split, threads, x, phase, task, size, taken, finished>>
  BY DEF Return, selectVars, poolVars
<1>3. SplitTypeOK'
  <2>1. wpc' \in [Workers -> {"off", "range", "done"}]
    BY <1>1, <1>2
  <2>2. cursor' \in [Workers -> 0 .. 2 * Degree]
    BY <1>1, <1>2, DegreeAssumption
  <2>3. QED
    BY <1>2, <2>1, <2>2, ThreadsAssumption DEF SplitInv, SplitTypeOK
<1>4. PoolInv' /\ WorkerInv'
  BY <1>1, <1>2 DEF SplitInv, PoolInv, WorkerInv
<1>5. RangeInv' /\ SumInv'
  BY <1>2 DEF RangeInv, SumInv
<1>6. QED
  BY <1>3, <1>4, <1>5 DEF SplitInv

LEMMA StepDispatch ==
    ASSUME SplitInv, Dispatch
    PROVE  SplitInv'
<1>1. 0 \in Workers /\ threads \in 2 .. MaxThreads
  BY ThreadsAssumption DEF Dispatch, SplitInv, PoolInv, SplitTypeOK, Workers
<1>2. /\ spc = "dispatch" /\ spc' = "own"
      /\ phase = "idle" /\ phase' = "forked" /\ size' = threads - 1
      /\ UNCHANGED <<split, threads, target, u, sn, ok, xsn, x, cursor, acc,
                     wsn, wok, taken, finished>>
  BY DEF Dispatch, Pool!Fork, selectVars
<1>3. /\ wpc' \in [Workers -> {"off", "range", "done"}]
      /\ wpc'[0] = "range" /\ \A w \in Workers : w # 0 => wpc'[w] = wpc[w]
      /\ \A w \in Workers : wpc[w] = "off"
  BY <1>1 DEF Dispatch, SplitInv, SplitTypeOK, WorkerInv
<1>4. SplitTypeOK'
  BY <1>2, <1>3 DEF SplitInv, SplitTypeOK
<1>5. PoolInv'
  BY <1>1, <1>2 DEF SplitInv, PoolInv
<1>6. WorkerInv'
  BY <1>1, <1>2, <1>3 DEF SplitInv, PoolInv, WorkerInv
<1>7. RangeInv'
  BY <1>1, <1>2, <1>3, RangeKept
<1>8. SumInv'
  BY <1>2, SumKept
<1>9. QED
  BY <1>4, <1>5, <1>6, <1>7, <1>8 DEF SplitInv

LEMMA StepDispatchFails ==
    ASSUME SplitInv, DispatchFails
    PROVE  SplitInv'
BY StepReturn, CoordNormsAssumption DEF DispatchFails

LEMMA StepOwnDone ==
    ASSUME SplitInv, OwnDone
    PROVE  SplitInv'
<1>1. /\ spc = "own" /\ wpc[0] = "done"
      /\ spc' = IF threads = 1 THEN "sum" ELSE "wait"
      /\ UNCHANGED <<split, threads, target, u, sn, ok, xsn, x, wpc, cursor,
                     acc, wsn, wok, phase, size, taken, finished>>
  BY DEF OwnDone, AfterOwn, selectVars, workerVars, poolVars
<1>2. threads \in 1 .. MaxThreads
  BY DEF SplitInv, SplitTypeOK
<1>3. SplitTypeOK'
  BY <1>1 DEF SplitInv, SplitTypeOK
<1>4. PoolInv'
  BY <1>1, <1>2 DEF SplitInv, PoolInv
<1>5. WorkerInv'
  <2>1. \A w \in Workers : w = 0 \/ w > 0
    BY ThreadsAssumption DEF Workers
  <2>2. ASSUME spc' = "sum"
        PROVE  \A w \in Workers : wpc[w] # "range"
    <3>1. phase = "idle"
      BY <1>1, <2>2 DEF SplitInv, PoolInv
    <3>2. QED
      BY <1>1, <2>1, <3>1 DEF SplitInv, WorkerInv
  <2>3. QED
    BY <1>1, <2>2 DEF SplitInv, WorkerInv
<1>6. RangeInv'
  BY <1>1, RangeKept DEF SplitInv, SplitTypeOK
<1>7. SumInv'
  BY <1>1, SumKept
<1>8. QED
  BY <1>3, <1>4, <1>5, <1>6, <1>7 DEF SplitInv

LEMMA StepWait ==
    ASSUME SplitInv, Wait
    PROVE  SplitInv'
<1>1. /\ spc = "wait" /\ spc' = "sum"
      /\ phase = "forked" /\ phase' = "idle" /\ taken' = {} /\ finished' = {}
      /\ finished = 0 .. size - 1
      /\ UNCHANGED <<split, threads, target, u, sn, ok, xsn, x, wpc, cursor,
                     acc, wsn, wok>>
  BY DEF Wait, Pool!Join, Pool!Leave, selectVars, workerVars
<1>2. SplitTypeOK'
  BY <1>1 DEF SplitInv, SplitTypeOK
<1>3. PoolInv'
  BY <1>1 DEF SplitInv, PoolInv
<1>4. WorkerInv'
  <2>1. taken \ finished = {}
    BY <1>1 DEF SplitInv, PoolInv
  <2>2. \A w \in Workers : w = 0 \/ w > 0
    BY ThreadsAssumption DEF Workers
  <2>3. \A w \in Workers : wpc[w] # "range"
    BY <1>1, <2>1, <2>2 DEF SplitInv, WorkerInv
  <2>4. QED
    BY <1>1, <2>3 DEF WorkerInv
<1>5. RangeInv'
  BY <1>1, RangeKept DEF SplitInv, SplitTypeOK
<1>6. SumInv'
  BY <1>1, SumKept
<1>7. QED
  BY <1>2, <1>3, <1>4, <1>5, <1>6 DEF SplitInv

LEMMA StepTakeJob ==
    ASSUME SplitInv, NEW s \in 0 .. MaxThreads - 2, TakeJob(s)
    PROVE  SplitInv'
<1>1. /\ s + 1 \in Workers /\ s \in Nat /\ phase = "forked" /\ s \notin taken
      /\ s \in 0 .. size - 1 /\ size = threads - 1 /\ threads \in Nat
      /\ spc \in {"own", "wait"}
      /\ UNCHANGED <<split, threads, spc, target, u, sn, ok, xsn, x, cursor,
                     acc, wsn, wok, phase, size, finished>>
      /\ taken' = taken \cup {s}
  BY ThreadsAssumption DEF TakeJob, Pool!Take, SplitInv, PoolInv, Workers,
     SplitTypeOK, selectVars, callVars
<1>2. wpc[s + 1] = "off"
  BY <1>1 DEF SplitInv, WorkerInv
<1>3. /\ wpc' \in [Workers -> {"off", "range", "done"}]
      /\ wpc'[s + 1] = "range"
      /\ \A w \in Workers : w # s + 1 => wpc'[w] = wpc[w]
  BY <1>1 DEF TakeJob, SplitInv, SplitTypeOK
<1>4. SplitTypeOK'
  BY <1>1, <1>3 DEF SplitInv, SplitTypeOK
<1>5. PoolInv'
  BY <1>1 DEF SplitInv, PoolInv
<1>6. WorkerInv'
  <2>1. wpc'[0] = wpc[0]
    BY <1>1, <1>3, ThreadsAssumption DEF Workers
  <2>2. s \notin finished
    BY <1>1 DEF SplitInv, PoolInv
  <2>3. \A w \in Workers : w > 0 /\ wpc'[w] = "range" =>
           phase' = "forked" /\ w - 1 \in taken' \ finished'
    BY <1>1, <1>3, <2>2 DEF SplitInv, WorkerInv, Workers
  <2>4. \A w \in Workers : w > 0 /\ w - 1 \notin taken' => wpc'[w] = "off"
    BY <1>1, <1>3 DEF SplitInv, WorkerInv, Workers
  <2>5. QED
    BY <1>1, <2>1, <2>3, <2>4 DEF SplitInv, WorkerInv
<1>7. RangeInv'
  BY <1>1, <1>2, <1>3, RangeKept
<1>8. SumInv'
  BY <1>1, SumKept
<1>9. QED
  BY <1>4, <1>5, <1>6, <1>7, <1>8 DEF SplitInv

LEMMA StepFinishJob ==
    ASSUME SplitInv, NEW s \in 0 .. MaxThreads - 2, FinishJob(s)
    PROVE  SplitInv'
<1>1. /\ wpc[s + 1] = "done" /\ phase = "forked" /\ s \in taken \ finished
      /\ finished' = finished \cup {s} /\ spc \in {"own", "wait"}
      /\ UNCHANGED <<split, threads, spc, target, u, sn, ok, xsn, x, wpc,
                     cursor, acc, wsn, wok, phase, size, taken>>
  BY DEF FinishJob, JobOver, Pool!Finish, SplitInv, PoolInv, selectVars,
     callVars, workerVars
<1>2. SplitTypeOK'
  BY <1>1 DEF SplitInv, SplitTypeOK
<1>3. PoolInv'
  BY <1>1 DEF SplitInv, PoolInv
<1>4. WorkerInv'
  BY <1>1 DEF SplitInv, WorkerInv, Workers
<1>5. RangeInv'
  BY <1>1, RangeKept DEF SplitInv, SplitTypeOK
<1>6. SumInv'
  BY <1>1, SumKept
<1>7. QED
  BY <1>2, <1>3, <1>4, <1>5, <1>6 DEF SplitInv

\* What the workers that are done have sampled.
LEMMA SampledBelow ==
    ASSUME SplitInv, spc # "off", NEW k \in Nat, k <= threads,
           \A w \in Workers : w < k => wok[w],
           NEW v \in Coordinates, v < RangeStart(k)
    PROVE  Sampled(v, target)
<1>1. PICK w \in Workers : w < threads /\ InRange(w, v)
  BY OwnerExists DEF SplitInv
<1>2. w \in Nat /\ v \in Nat
  BY ThreadsAssumption, DegreeAssumption DEF Workers, Coordinates
<1>3. w < k
  <2>1. SUFFICES ASSUME k <= w PROVE FALSE
    BY <1>2
  <2>2. /\ RangeStart(k) <= RangeStart(w)
        /\ RangeStart(k) \in Nat /\ RangeStart(w) \in Nat
    BY <1>2, <2>1, StartFacts DEF SplitInv
  <2>3. QED
    BY <1>1, <1>2, <2>2 DEF InRange
<1>4. cursor[w] = RangeStart(w + 1)
  BY <1>1, <1>3 DEF SplitInv, RangeInv
<1>5. QED
  BY <1>1, <1>4 DEF SplitInv, RangeInv, InRange

LEMMA StepSum ==
    ASSUME SplitInv, AddUp
    PROVE  SplitInv'
<1>1. /\ spc = "sum" /\ u < threads
      /\ u' = u + 1 /\ sn' = sn + wsn[u] /\ ok' = (ok /\ wok[u])
      /\ UNCHANGED <<split, threads, spc, target, xsn, x, wpc, cursor, acc,
                     wsn, wok, phase, size, taken, finished>>
  BY DEF AddUp, selectVars, workerVars, poolVars
<1>2. /\ u \in Workers /\ u \in Nat /\ u + 1 \in Nat /\ u + 1 <= threads
      /\ threads \in Nat /\ threads <= MaxThreads
      /\ sn \in Nat /\ wsn[u] \in Nat /\ ok \in BOOLEAN /\ wok[u] \in BOOLEAN
  BY <1>1, ThreadsAssumption DEF SplitInv, SplitTypeOK, Workers
<1>3. SplitTypeOK'
  <2>1. u' \in 0 .. MaxThreads /\ sn' \in Nat /\ ok' \in BOOLEAN
    BY <1>1, <1>2, ThreadsAssumption
  <2>2. QED
    BY <1>1, <2>1 DEF SplitInv, SplitTypeOK
<1>4. PoolInv' /\ WorkerInv'
  BY <1>1 DEF SplitInv, PoolInv, WorkerInv
<1>5. RangeInv'
  BY <1>1, RangeKept DEF SplitInv, SplitTypeOK
<1>6. SumInv'
  <2>1. /\ \A a, b : NormBetween(x, a, b)' = NormBetween(x, a, b)
        /\ RangeStart(u)' = RangeStart(u + 1)
    BY <1>1 DEF NormBetween, RangeStart
  <2>2. ASSUME ok'
        PROVE  /\ \A w \in Workers : w < u' => wok[w]
               /\ sn' = NormBetween(x, 0, RangeStart(u + 1))
    <3>1. ok /\ wok[u]
      BY <1>1, <2>2
    <3>2. \A w \in Workers : w < u + 1 => wok[w]
      BY <1>1, <1>2, <3>1 DEF SplitInv, SumInv, Workers
    <3>3. /\ RangeStart(u) \in Nat /\ RangeStart(u + 1) \in Nat
          /\ RangeStart(u) <= RangeStart(u + 1)
          /\ RangeStart(u + 1) <= 2 * Degree
      BY <1>1, <1>2, StartFacts DEF SplitInv
    <3>4. ASSUME NEW v \in 0 .. RangeStart(u + 1) - 1
          PROVE  x[v].square \in Nat
      <4>1. v \in Coordinates /\ v < RangeStart(u + 1)
        BY <3>3, DegreeAssumption DEF Coordinates
      <4>2. Sampled(v, target)
        BY <1>1, <1>2, <3>2, <4>1, SampledBelow
      <4>3. QED
        BY <4>2, SquareType
    <3>5. NormBetween(x, 0, RangeStart(u + 1)) =
             NormBetween(x, 0, RangeStart(u))
             + NormBetween(x, RangeStart(u), RangeStart(u + 1))
      BY <3>3, <3>4, NormJoin
    <3>6. sn = NormBetween(x, 0, RangeStart(u))
      BY <1>1, <3>1 DEF SplitInv, SumInv
    <3>7. wsn[u] = NormBetween(x, RangeStart(u), RangeStart(u + 1))
      BY <1>1, <1>2, <3>1 DEF SplitInv, RangeInv
    <3>8. QED
      BY <1>1, <3>2, <3>5, <3>6, <3>7
  <2>3. u' <= threads'
    BY <1>1, <1>2
  <2>4. QED
    BY <1>1, <2>1, <2>2, <2>3 DEF SumInv
<1>7. QED
  BY <1>3, <1>4, <1>5, <1>6 DEF SplitInv

\* The norm the call returns is that of the coordinates, all of them sampled.
LEMMA SumExact ==
    ASSUME SplitInv, spc = "sum", u = threads, ok
    PROVE  x \in Vectors(target) /\ sn = SquareSum(x)
<1>1. /\ threads \in Nat /\ RangeStart(threads) = 2 * Degree
      /\ x = [v \in Coordinates |-> x[v]]
  BY StartFacts DEF SplitInv, SplitTypeOK
<1>2. \A w \in Workers : w < threads => wok[w]
  BY DEF SplitInv, SumInv
<1>3. ASSUME NEW v \in Coordinates
      PROVE  x[v] \in {Sample(target, c) : c \in CoordNorms}
  <2>1. v < RangeStart(threads)
    BY <1>1, DegreeAssumption DEF Coordinates
  <2>2. Sampled(v, target)
    BY <1>1, <1>2, <2>1, SampledBelow
  <2>3. QED
    BY <2>2 DEF Sampled
<1>4. x \in Vectors(target)
  <2> DEFINE S == {Sample(target, c) : c \in CoordNorms}
  <2>1. \A v \in Coordinates : x[v] \in S
    BY <1>3
  <2> HIDE DEF S
  <2>2. x \in [Coordinates -> S]
    BY <1>1, <2>1
  <2>3. QED
    BY <2>2 DEF Vectors, S
<1>5. sn = NormBetween(x, 0, 2 * Degree)
  BY <1>1 DEF SplitInv, SumInv
<1>6. DOMAIN x = Coordinates
  BY <1>1
<1>7. QED
  BY <1>4, <1>5, <1>6, NormWhole

LEMMA StepSplitReturn ==
    ASSUME SplitInv, SplitReturn
    PROVE  SplitInv'
<1>1. NormOrTop \in Nat
  BY CoordNormsAssumption DEF NormOrTop, SplitInv, SplitTypeOK
<1>2. QED
  BY <1>1, StepReturn DEF SplitReturn

\* Where a worker in its range is.
LEMMA RunningWorker ==
    ASSUME SplitInv, NEW w \in Workers, wpc[w] = "range"
    PROVE  /\ spc \in {"own", "wait"} /\ w < threads /\ w \in Nat
           /\ RangeStart(w) \in Nat /\ RangeStart(w + 1) \in Nat
           /\ RangeStart(w + 1) <= 2 * Degree
           /\ cursor[w] \in RangeStart(w) .. RangeStart(w + 1)
           /\ ~wok[w]
           /\ cursor[w] < RangeStart(w + 1) =>
                 cursor[w] \in Coordinates /\ InRange(w, cursor[w])
<1>1. spc \in {"own", "wait"}
  BY DEF SplitInv, SplitTypeOK, WorkerInv
<1>2. w < threads /\ w \in Nat
  <2>1. w \in Nat /\ threads \in Nat
    BY ThreadsAssumption, StartFacts DEF SplitInv, Workers
  <2>2. ~(w >= threads)
    BY <1>1 DEF SplitInv, RangeInv
  <2>3. QED
    BY <2>1, <2>2
<1>3. /\ RangeStart(w) \in Nat /\ RangeStart(w + 1) \in Nat
      /\ RangeStart(w + 1) <= 2 * Degree
  BY <1>2, StartFacts DEF SplitInv
<1>4. /\ cursor[w] \in RangeStart(w) .. RangeStart(w + 1)
      /\ ~wok[w]
  BY <1>1, <1>2 DEF SplitInv, RangeInv
<1>5. cursor[w] < RangeStart(w + 1) =>
         cursor[w] \in Coordinates /\ InRange(w, cursor[w])
  BY <1>3, <1>4, DegreeAssumption DEF InRange, Coordinates
<1>6. QED
  BY <1>1, <1>2, <1>3, <1>4, <1>5

\* A worker that goes on or ends disturbs neither the pool nor the call.
LEMMA WorkerMoves ==
    ASSUME SplitInv, NEW w \in Workers, wpc[w] = "range",
           wpc' = wpc \/ wpc' = [wpc EXCEPT ![w] = "done"],
           UNCHANGED <<selectVars, callVars, poolVars>>
    PROVE  /\ wpc' \in [Workers -> {"off", "range", "done"}]
           /\ \A v \in Workers : v # w => wpc'[v] = wpc[v]
           /\ PoolInv' /\ WorkerInv' /\ SumInv'
<1>1. /\ wpc' \in [Workers -> {"off", "range", "done"}]
      /\ \A v \in Workers : v # w => wpc'[v] = wpc[v]
      /\ wpc'[w] \in {"range", "done"}
  BY DEF SplitInv, SplitTypeOK
<1>2. UNCHANGED <<threads, spc, u, sn, ok, phase, size, taken, finished>>
  BY DEF selectVars, callVars, poolVars
<1>3. PoolInv'
  BY <1>2 DEF SplitInv, PoolInv
<1>4. \A v \in Workers : /\ wpc'[v] = "range" => wpc[v] = "range"
                         /\ wpc[v] = "off" => wpc'[v] = "off"
                         /\ wpc[v] = "done" => wpc'[v] = "done"
  BY <1>1
<1>5. 0 \in Workers
  BY ThreadsAssumption DEF Workers
<1>6. WorkerInv'
  BY <1>2, <1>4, <1>5 DEF SplitInv, WorkerInv
<1>7. SumInv'
  BY <1>2, RunningWorker, SumKept
<1>8. QED
  BY <1>1, <1>3, <1>6, <1>7

\* A coordinate is written: the sum of its worker grows by its square, and
\* no other worker's range has it.
LEMMA StepSampleCoordinate ==
    ASSUME SplitInv, NEW w \in Workers, NEW c \in CoordNorms,
           SampleCoordinate(w, c)
    PROVE  SplitInv'
<1> DEFINE b == cursor[w]
<1>1. /\ wpc[w] = "range" /\ b < RangeStart(w + 1)
      /\ x' = [x EXCEPT ![b] = Sample(target, c)]
      /\ acc' = [acc EXCEPT ![w] = @ + c]
      /\ cursor' = [cursor EXCEPT ![w] = @ + 1]
      /\ UNCHANGED <<selectVars, callVars, wpc, wsn, wok, poolVars>>
      /\ UNCHANGED <<split, threads, spc, target, u, sn, ok, xsn>>
  BY DEF SampleCoordinate, selectVars, callVars
<1>2. /\ spc \in {"own", "wait"} /\ w < threads /\ w \in Nat
      /\ RangeStart(w) \in Nat /\ RangeStart(w + 1) \in Nat
      /\ RangeStart(w + 1) <= 2 * Degree
      /\ b \in RangeStart(w) .. RangeStart(w + 1) /\ ~wok[w]
      /\ b \in Coordinates /\ InRange(w, b) /\ b \in Nat
  BY <1>1, RunningWorker
<1>3. /\ acc'[w] = acc[w] + c /\ cursor'[w] = b + 1
      /\ \A v \in Workers : v # w => acc'[v] = acc[v] /\ cursor'[v] = cursor[v]
      /\ acc' \in [Workers -> Nat] /\ c \in Nat /\ acc[w] \in Nat
  BY <1>1, CoordNormsAssumption DEF SplitInv, SplitTypeOK
<1>4. /\ x'[b] = Sample(target, c)
      /\ \A v \in Coordinates : v # b => x'[v] = x[v]
      /\ x' = [v \in Coordinates |-> x'[v]]
  BY <1>1, <1>2 DEF SplitInv, SplitTypeOK
<1> HIDE DEF b
<1>5. PoolInv' /\ WorkerInv' /\ SumInv'
  BY <1>1, WorkerMoves
<1>6. SplitTypeOK'
  <2>1. b + 1 \in 0 .. 2 * Degree
    BY <1>1, <1>2, DegreeAssumption
  <2>2. cursor' \in [Workers -> 0 .. 2 * Degree]
    BY <1>1, <1>3, <2>1 DEF SplitInv, SplitTypeOK
  <2>3. QED
    BY <1>1, <1>3, <1>4, <2>2 DEF SplitInv, SplitTypeOK
<1>7. RangeInv'
  <2>1. /\ \A v : RangeStart(v)' = RangeStart(v)
        /\ \A v, r : InRange(v, r)' <=> InRange(v, r)
    BY <1>1 DEF RangeStart, InRange
  <2>2. \A v \in Workers : v \in Nat
    BY ThreadsAssumption DEF Workers
  <2>3. ASSUME NEW v \in Workers, v < threads
        PROVE  /\ cursor[v] \in RangeStart(v) .. RangeStart(v + 1)
               /\ RangeStart(v) \in Nat /\ RangeStart(v + 1) \in Nat
               /\ RangeStart(v + 1) <= 2 * Degree
               /\ acc[v] = NormBetween(x, RangeStart(v), cursor[v])
               /\ wok[v] => /\ cursor[v] = RangeStart(v + 1) /\ wpc[v] = "done"
                            /\ wsn[v] = acc[v]
    BY <1>2, <2>2, <2>3, StartFacts DEF SplitInv, RangeInv
  <2>4. ASSUME NEW v \in Workers, v < threads, v # w
        PROVE  acc'[v] = NormBetween(x', RangeStart(v), cursor'[v])
    <3>1. ASSUME NEW r \in RangeStart(v) .. cursor[v] - 1
          PROVE  x[r] = x'[r]
      <4>1. r \in Coordinates /\ InRange(v, r)
        BY <2>3, <2>4, DegreeAssumption DEF InRange, Coordinates
      <4>2. r # b
        BY <1>2, <2>2, <2>4, <4>1, OwnerUnique DEF SplitInv
      <4>3. QED
        BY <1>4, <4>1, <4>2
    <3>2. RangeStart(v) \in Int /\ cursor[v] \in Int
      BY <2>3, <2>4
    <3>3. NormBetween(x, RangeStart(v), cursor[v]) =
             NormBetween(x', RangeStart(v), cursor[v])
      BY <3>1, <3>2, NormAgree
    <3>4. QED
      BY <1>3, <2>3, <2>4, <3>3
  <2>5. acc'[w] = NormBetween(x', RangeStart(w), cursor'[w])
    <3>1. ASSUME NEW r \in RangeStart(w) .. b - 1
          PROVE  x[r] = x'[r] /\ x'[r].square \in Nat
      <4>1. r \in Coordinates /\ InRange(w, r) /\ r < b /\ r # b
        BY <1>1, <1>2, DegreeAssumption DEF InRange, Coordinates
      <4>2. Sampled(r, target)
        BY <1>2, <4>1 DEF SplitInv, RangeInv, b
      <4>3. QED
        BY <1>4, <4>1, <4>2, SquareType
    <3>2. x'[b].square = c
      BY <1>4 DEF Sample
    <3>3. \A r \in RangeStart(w) .. b : x'[r].square \in Nat
      BY <1>2, <1>3, <3>1, <3>2
    <3>4. RangeStart(w) \in Int /\ b \in Int /\ RangeStart(w) <= b
      BY <1>2
    <3>5. NormBetween(x', RangeStart(w), b + 1) =
             NormBetween(x', RangeStart(w), b) + x'[b].square
      BY <3>3, <3>4, NormNext
    <3>6. NormBetween(x, RangeStart(w), b) = NormBetween(x', RangeStart(w), b)
      BY <3>1, <3>4, NormAgree
    <3>7. acc[w] = NormBetween(x, RangeStart(w), b)
      BY <1>2, <2>3 DEF b
    <3>8. QED
      BY <1>3, <3>2, <3>5, <3>6, <3>7
  <2>6. ASSUME NEW v \in Workers, v < threads
        PROVE  /\ cursor'[v] \in RangeStart(v) .. RangeStart(v + 1)
               /\ wok[v] => /\ cursor'[v] = RangeStart(v + 1)
                            /\ wpc[v] = "done" /\ wsn[v] = acc'[v]
    <3>1. CASE v = w
      BY <1>1, <1>2, <1>3, <3>1
    <3>2. CASE v # w
      BY <1>3, <2>3, <2>6, <3>2
    <3>3. QED
      BY <3>1, <3>2
  <2>7. ASSUME NEW v \in Workers, NEW r \in Coordinates, v < threads,
               InRange(v, r), r < cursor'[v]
        PROVE  Sampled(r, target)'
    <3>1. CASE r = b
      BY <1>1, <1>4, <3>1 DEF Sampled
    <3>2. CASE r # b
      <4>1. r < cursor[v]
        <5>1. r \in Nat
          BY DegreeAssumption DEF Coordinates
        <5>2. QED
          BY <1>2, <1>3, <2>7, <3>2, <5>1 DEF b
      <4>2. Sampled(r, target)
        BY <1>2, <2>7, <4>1 DEF SplitInv, RangeInv
      <4>3. QED
        BY <1>1, <1>4, <3>2, <4>2 DEF Sampled
    <3>3. QED
      BY <3>1, <3>2
  <2>8. \A v \in Workers : v >= threads => wpc[v] = "off"
    BY <1>2 DEF SplitInv, RangeInv
  <2>9. QED
    BY <1>1, <2>1, <2>4, <2>5, <2>6, <2>7, <2>8 DEF RangeInv
<1>8. QED
  BY <1>5, <1>6, <1>7 DEF SplitInv

\* A worker that ends, its range done or not.
LEMMA WorkerEnds ==
    ASSUME SplitInv, NEW w \in Workers, wpc[w] = "range",
           wpc' = [wpc EXCEPT ![w] = "done"],
           UNCHANGED <<selectVars, callVars, x, cursor, acc, poolVars>>,
           \/ wsn' = wsn /\ wok' = wok
           \/ /\ cursor[w] = RangeStart(w + 1)
              /\ wsn' = [wsn EXCEPT ![w] = acc[w]]
              /\ wok' = [wok EXCEPT ![w] = TRUE]
    PROVE  SplitInv'
<1>1. spc \in {"own", "wait"} /\ w < threads /\ w \in Nat
  BY RunningWorker
<1>2. /\ wpc' \in [Workers -> {"off", "range", "done"}]
      /\ \A v \in Workers : v # w => wpc'[v] = wpc[v]
      /\ wpc'[w] = "done"
      /\ PoolInv' /\ WorkerInv' /\ SumInv'
  BY WorkerMoves DEF SplitInv, SplitTypeOK
<1>3. UNCHANGED <<split, threads, spc, target, u, sn, ok, xsn>>
  BY DEF selectVars, callVars
<1>4. SplitTypeOK'
  BY <1>2, <1>3 DEF SplitInv, SplitTypeOK
<1>5. RangeInv'
  <2>1. /\ \A v : RangeStart(v)' = RangeStart(v)
        /\ \A v, r : InRange(v, r)' <=> InRange(v, r)
        /\ \A r : Sampled(r, target)' <=> Sampled(r, target)
        /\ \A a, b : NormBetween(x, a, b)' = NormBetween(x, a, b)
    BY <1>3 DEF RangeStart, InRange, Sampled, NormBetween
  <2>2. \A v \in Workers : v # w => wsn'[v] = wsn[v] /\ wok'[v] = wok[v]
    BY DEF SplitInv, SplitTypeOK
  <2>3. wok'[w] => cursor[w] = RangeStart(w + 1) /\ wsn'[w] = acc[w]
    BY RunningWorker DEF SplitInv, SplitTypeOK
  <2>4. \A v \in Workers : v >= threads => wpc'[v] = "off"
    BY <1>1, <1>2, ThreadsAssumption DEF SplitInv, RangeInv, SplitTypeOK, Workers
  <2>5. \A v \in Workers : v < threads =>
           /\ cursor[v] \in RangeStart(v) .. RangeStart(v + 1)
           /\ acc[v] = NormBetween(x, RangeStart(v), cursor[v])
           /\ wok'[v] => /\ cursor[v] = RangeStart(v + 1) /\ wpc'[v] = "done"
                         /\ wsn'[v] = acc[v]
    BY <1>1, <1>2, <2>2, <2>3 DEF SplitInv, RangeInv
  <2>6. \A v \in Workers, r \in Coordinates :
           v < threads /\ InRange(v, r) /\ r < cursor[v] => Sampled(r, target)
    BY <1>1 DEF SplitInv, RangeInv
  <2>7. QED
    BY <1>3, <2>1, <2>4, <2>5, <2>6 DEF RangeInv
<1>6. QED
  BY <1>2, <1>4, <1>5 DEF SplitInv

LEMMA StepWorker ==
    ASSUME SplitInv, NEW w \in Workers, WorkerStep(w)
    PROVE  SplitInv'
<1>1. CASE CoordinateFails(w)
  BY <1>1, WorkerEnds DEF CoordinateFails
<1>2. CASE RangeDone(w)
  BY <1>2, WorkerEnds DEF RangeDone
<1>3. QED
  BY <1>1, <1>2, StepSampleCoordinate DEF WorkerStep

\* Every step of the split sampler.
LEMMA StepSplit ==
    ASSUME SplitInv, SplitStep
    PROVE  SplitInv'
<1>1. CASE CallStep
  BY <1>1, StepDispatch, StepDispatchFails, StepOwnDone, StepWait, StepSum,
     StepSplitReturn DEF CallStep
<1>2. CASE \E s \in 0 .. MaxThreads - 2 : PoolStep(s)
  BY <1>2, StepTakeJob, StepFinishJob DEF PoolStep
<1>3. QED
  BY <1>1, <1>2, StepWorker DEF SplitStep

\* A step of the split sampler is one of a call that runs; if the call
\* returns a norm other than the one above every bound, the coordinates are
\* samples of its target, and the norm is theirs.
LEMMA StepResult ==
    ASSUME SplitInv, SplitStep
    PROVE  /\ spc # "off"
           /\ spc' # "off" => target' = target
           /\ spc' = "off" /\ xsn' # NormTop =>
                 /\ x \in Vectors(target)
                 /\ x' = x /\ xsn' = SquareSum(x)
<1>1. CASE DispatchFails
  BY <1>1 DEF DispatchFails, Return
<1>2. CASE SplitReturn
  <2>1. /\ spc = "sum" /\ u = threads /\ spc' = "off" /\ x' = x
        /\ xsn' = NormOrTop
    BY <1>2 DEF SplitReturn, Return
  <2>2. xsn' # NormTop => ok /\ xsn' = sn
    BY <2>1 DEF NormOrTop
  <2>3. QED
    BY <2>1, <2>2, SumExact
<1>3. CASE Dispatch \/ OwnDone \/ Wait \/ AddUp
  BY <1>3 DEF Dispatch, OwnDone, AfterOwn, Wait, AddUp
<1>4. CASE \E w \in Workers : WorkerStep(w)
  <2>1. PICK w \in Workers : WorkerStep(w)
    BY <1>4
  <2>2. wpc[w] = "range" /\ UNCHANGED callVars
    BY <2>1 DEF WorkerStep, SampleCoordinate, CoordinateFails, RangeDone
  <2>3. QED
    BY <2>2, RunningWorker DEF callVars
<1>5. CASE \E s \in 0 .. MaxThreads - 2 : PoolStep(s)
  <2>1. phase = "forked" /\ UNCHANGED callVars
    BY <1>5 DEF PoolStep, TakeJob, FinishJob, Pool!Take, Pool!Finish
  <2>2. QED
    BY <2>1 DEF SplitInv, PoolInv, callVars
<1>6. QED
  BY <1>1, <1>2, <1>3, <1>4, <1>5 DEF SplitStep, CallStep

-----------------------------------------------------------------------------
(***************************************************************************)
(* The signer.                                                             *)
(***************************************************************************)
\* The buffer holds nothing, and no signature is out.
LEMMA HawkStart == Init => HawkInv
<1> SUFFICES ASSUME Init PROVE HawkInv
  OBVIOUS
<1>1. SplitInv
  BY SplitStart DEF Init
<1>2. TypeOK
  <2>1. mem = [a \in Areas |-> mem[a]]
    BY DEF Init
  <2>2. attempt \in 0 .. CounterMod - 1
    BY CounterAssumption DEF Init
  <2>3. QED
    BY <2>1, <2>2 DEF Init, TypeOK
<1>3. KeyInv
  BY DEF Init, KeyInv
<1>4. BufferInv
  BY DEF Init, SplitInit, BufferInv
<1>5. SignatureVerifies
  BY DEF Init, SignatureVerifies
<1>6. QED
  BY <1>1, <1>2, <1>3, <1>4, <1>5 DEF HawkInv

\* A signature that is out, or none, stays what it is.
LEMMA SignatureKept ==
    ASSUME SignatureVerifies, UNCHANGED <<sig, hm, key>>
    PROVE  SignatureVerifies'
BY DEF SignatureVerifies, TargetOf, ShortVectors, Vectors, SquareSum

\* A step that leaves the signer alone while no call runs.
LEMMA StepSelectVariant ==
    ASSUME HawkInv, NEW s \in BOOLEAN, NEW t \in Threads, SelectVariant(s, t)
    PROVE  HawkInv'
<1>1. /\ pc = "idle" /\ Select(s, t)
      /\ UNCHANGED <<pc, key, decoded, use_shake, hm, attempt, salt, h1buf,
                     mem, sig>>
      /\ UNCHANGED <<spc, target, xsn, x>>
  BY DEF SelectVariant, Select, signVars, argVars, localVars, callVars
<1>2. SplitInv'
  BY <1>1, StepSelect DEF HawkInv
<1>3. TypeOK'
  BY <1>1 DEF HawkInv, TypeOK
<1>4. KeyInv' /\ BufferInv'
  BY <1>1 DEF HawkInv, KeyInv, BufferInv
<1>5. SignatureVerifies'
  BY <1>1, SignatureKept DEF HawkInv
<1>6. QED
  BY <1>2, <1>3, <1>4, <1>5 DEF HawkInv

\* A step of the signer itself leaves the sampler's state alone.
LEMMA SplitUnchanged ==
    ASSUME SplitInv, UNCHANGED splitVars
    PROVE  SplitInv'
<1>1. UNCHANGED <<split, threads, spc, target, u, sn, ok, xsn, x, wpc, cursor,
                  acc, wsn, wok, phase, size, taken, finished>>
  BY DEF splitVars, selectVars, callVars, workerVars, poolVars
<1>2. SplitTypeOK' /\ PoolInv' /\ WorkerInv'
  BY <1>1 DEF SplitInv, SplitTypeOK, PoolInv, WorkerInv
<1>3. /\ \A w : RangeStart(w)' = RangeStart(w)
      /\ \A w, v : InRange(w, v)' <=> InRange(w, v)
      /\ \A v : Sampled(v, target)' <=> Sampled(v, target)
      /\ \A a, b : NormBetween(x, a, b)' = NormBetween(x, a, b)
  BY <1>1 DEF RangeStart, InRange, Sampled, NormBetween
<1>4. RangeInv'
  BY <1>1, <1>3 DEF SplitInv, RangeInv
<1>5. SumInv'
  BY <1>1, <1>3 DEF SplitInv, SumInv
<1>6. QED
  BY <1>2, <1>4, <1>5 DEF SplitInv

\* The expanded f and g.
LEMMA RegenFacts ==
    ASSUME NEW m, m = [a \in Areas |-> m[a]], NEW k, NEW d
    PROVE  /\ Regen(m, k, d) = [a \in Areas |-> Regen(m, k, d)[a]]
           /\ ~d => /\ Regen(m, k, d)["f"] = PolyF(k)
                    /\ Regen(m, k, d)["g"] = PolyG(k)
BY DEF Regen, Areas

LEMMA StepStart ==
    ASSUME HawkInv, NEW k \in Keys, NEW d \in BOOLEAN, NEW s \in BOOLEAN,
           NEW m \in Messages, Start(k, d, s, m)
    PROVE  HawkInv'
<1>1. /\ pc = "idle" /\ pc' = "attempt" /\ key' = k /\ decoded' = d
      /\ use_shake' = s /\ mem' = Regen(mem, k, d) /\ attempt' = 0
      /\ sig' = NoSig /\ UNCHANGED splitVars /\ UNCHANGED spc
  BY DEF Start, splitVars, callVars
<1>2. SplitInv'
  BY <1>1, SplitUnchanged DEF HawkInv
<1>3. mem = [a \in Areas |-> mem[a]]
  BY DEF HawkInv, TypeOK
<1>4. TypeOK'
  BY <1>1, <1>3, RegenFacts, CounterAssumption DEF TypeOK
<1>5. KeyInv'
  BY <1>1, <1>3, RegenFacts DEF KeyInv, F, G
<1>6. BufferInv'
  BY <1>1 DEF HawkInv, BufferInv
<1>7. SignatureVerifies'
  BY <1>1 DEF SignatureVerifies
<1>8. QED
  BY <1>2, <1>4, <1>5, <1>6, <1>7 DEF HawkInv

LEMMA StepMakeTarget ==
    ASSUME HawkInv, NEW r \in Rand, MakeTarget(r)
    PROVE  HawkInv'
<1> DEFINE h == HashChallenge(hm, salt')
<1>1. /\ pc = "attempt" /\ pc' = "sample" /\ UNCHANGED splitVars
      /\ UNCHANGED <<key, decoded, use_shake, hm, attempt, h1buf, sig, spc>>
      /\ mem' = [mem EXCEPT !["mod2"] = [h |-> h, t |-> Target(F, G, key, h)],
                            !["scratch"] = Junk]
  BY DEF MakeTarget, argVars, splitVars, callVars
<1>2. SplitInv'
  BY <1>1, SplitUnchanged DEF HawkInv
<1>3. mem = [a \in Areas |-> mem[a]]
  BY DEF HawkInv, TypeOK
<1>4. /\ mem' = [a \in Areas |-> mem'[a]]
      /\ mem'["f"] = mem["f"] /\ mem'["g"] = mem["g"]
      /\ mem'["mod2"] = [h |-> h, t |-> Target(F, G, key, h)]
  BY <1>1, <1>3 DEF Areas
<1>5. TypeOK'
  BY <1>1, <1>4 DEF HawkInv, TypeOK
<1>6. F = PolyF(key) /\ G = PolyG(key) /\ F' = F /\ G' = G
  BY <1>1, <1>4 DEF HawkInv, KeyInv, F, G
<1>7. KeyInv'
  BY <1>1, <1>6 DEF KeyInv
<1>8. BufferInv'
  <2>1. TargetOf(salt)' = Target(F, G, key, h)
    BY <1>1, <1>6 DEF TargetOf
  <2>2. HashChallenge(hm, salt)' = h
    BY <1>1
  <2>3. spc' = "off"
    BY <1>1 DEF HawkInv, BufferInv
  <2>4. QED
    BY <1>1, <1>4, <2>1, <2>2, <2>3 DEF BufferInv
<1>9. SignatureVerifies'
  BY <1>1, SignatureKept DEF HawkInv
<1>10. QED
  BY <1>2, <1>5, <1>7, <1>8, <1>9 DEF HawkInv

LEMMA StepCallSampler ==
    ASSUME HawkInv, CallSampler
    PROVE  HawkInv'
<1>1. /\ pc = "sample"
      /\ UNCHANGED <<key, decoded, use_shake, hm, attempt, salt, h1buf, mem,
                     sig>>
  BY DEF CallSampler, argVars, localVars
<1>2. mem["mod2"].t = TargetOf(salt) /\ spc = "off"
      /\ mem["mod2"] = [h |-> HashChallenge(hm, salt), t |-> TargetOf(salt)]
  BY <1>1 DEF HawkInv, BufferInv
<1>3. /\ pc' \in {"sampling", "sampled"}
      /\ \/ SplitCall(TargetOf(salt)) /\ pc' = "sampling"
         \/ SampleAll(TargetOf(salt)) /\ pc' = "sampled"
  BY <1>2 DEF CallSampler
<1>4. SplitInv'
  BY <1>3, StepSplitCall, StepSampleAll DEF HawkInv
<1>5. TypeOK' /\ KeyInv'
  BY <1>1, <1>3 DEF HawkInv, TypeOK, KeyInv, F, G
<1>6. TargetOf(salt)' = TargetOf(salt)
  BY <1>1 DEF TargetOf
<1>7. BufferInv'
  <2>1. CASE SplitCall(TargetOf(salt)) /\ pc' = "sampling"
    <3>1. spc' # "off" /\ target' = TargetOf(salt)
      BY <2>1 DEF SplitCall
    <3>2. QED
      BY <1>1, <1>2, <1>6, <2>1, <3>1 DEF BufferInv
  <2>2. CASE SampleAll(TargetOf(salt)) /\ pc' = "sampled"
    <3>1. /\ x' \in Vectors(TargetOf(salt)) /\ xsn' = SquareSum(x')
          /\ spc' = "off"
      BY <1>2, <2>2, AllSampled DEF SampleAll
    <3>2. x' \in Vectors(TargetOf(salt))' /\ xsn' = SquareSum(x)'
      BY <1>6, <3>1 DEF Vectors, SquareSum
    <3>3. QED
      BY <1>1, <1>2, <1>6, <2>2, <3>1, <3>2 DEF BufferInv
  <2>3. QED
    BY <1>3, <2>1, <2>2
<1>8. SignatureVerifies'
  BY <1>1, SignatureKept DEF HawkInv
<1>9. QED
  BY <1>4, <1>5, <1>7, <1>8 DEF HawkInv

\* A step of the split sampler, in the signer's call of it.
LEMMA StepSampling ==
    ASSUME HawkInv, Sampling(SplitStep)
    PROVE  HawkInv'
<1>1. /\ SplitStep
      /\ pc' = IF pc = "sampling" /\ spc' = "off" THEN "sampled" ELSE pc
      /\ UNCHANGED <<key, decoded, use_shake, hm, attempt, salt, h1buf, mem,
                     sig>>
  BY DEF Sampling, argVars, localVars
<1>2. /\ spc # "off"
      /\ spc' # "off" => target' = target
      /\ spc' = "off" /\ xsn' # NormTop =>
            x \in Vectors(target) /\ x' = x /\ xsn' = SquareSum(x)
  BY <1>1, StepResult DEF HawkInv
<1>3. /\ pc = "sampling" /\ target = TargetOf(salt)
      /\ mem["mod2"] = [h |-> HashChallenge(hm, salt), t |-> TargetOf(salt)]
  BY <1>2 DEF HawkInv, BufferInv
<1>4. pc' = IF spc' = "off" THEN "sampled" ELSE "sampling"
  BY <1>1, <1>3
<1>5. SplitInv'
  BY <1>1, StepSplit DEF HawkInv
<1>6. TypeOK' /\ KeyInv'
  BY <1>1, <1>3, <1>4 DEF HawkInv, TypeOK, KeyInv, F, G
<1>7. TargetOf(salt)' = TargetOf(salt)
  BY <1>1 DEF TargetOf
<1>8. BufferInv'
  <2>1. CASE spc' # "off"
    BY <1>1, <1>2, <1>3, <1>4, <1>7, <2>1 DEF BufferInv
  <2>2. CASE spc' = "off"
    <3>1. xsn' # NormTop => /\ x' \in Vectors(TargetOf(salt))
                            /\ xsn' = SquareSum(x')
      BY <1>2, <1>3, <2>2
    <3>2. xsn' # NormTop => /\ x' \in Vectors(TargetOf(salt))'
                            /\ xsn' = SquareSum(x)'
      BY <1>7, <3>1 DEF Vectors, SquareSum
    <3>3. QED
      BY <1>1, <1>3, <1>4, <1>7, <2>2, <3>2 DEF BufferInv
  <2>3. QED
    BY <2>1, <2>2
<1>9. SignatureVerifies'
  BY <1>1, SignatureKept DEF HawkInv
<1>10. QED
  BY <1>5, <1>6, <1>8, <1>9 DEF HawkInv

LEMMA CounterType ==
    ASSUME NEW a \in 0 .. CounterMod - 1
    PROVE  (a + 2) % CounterMod \in 0 .. CounterMod - 1
BY CounterAssumption

LEMMA StepRejectNorm ==
    ASSUME HawkInv, RejectNorm
    PROVE  HawkInv'
<1>1. /\ pc = "sampled" /\ pc' = "attempt"
      /\ attempt' = (attempt + 2) % CounterMod
      /\ UNCHANGED <<key, decoded, use_shake, hm, salt, h1buf, mem, sig, spc>>
      /\ UNCHANGED splitVars
  BY DEF RejectNorm, Again, argVars, splitVars, callVars
<1>2. SplitInv'
  BY <1>1, SplitUnchanged DEF HawkInv
<1>3. TypeOK'
  <2>1. attempt' \in 0 .. CounterMod - 1
    BY <1>1, CounterType DEF HawkInv, TypeOK
  <2>2. QED
    BY <1>1, <2>1 DEF HawkInv, TypeOK
<1>4. KeyInv'
  BY <1>1 DEF HawkInv, KeyInv, F, G
<1>5. BufferInv'
  BY <1>1 DEF HawkInv, BufferInv
<1>6. SignatureVerifies'
  BY <1>1, SignatureKept DEF HawkInv
<1>7. QED
  BY <1>2, <1>3, <1>4, <1>5, <1>6 DEF HawkInv

\* The signer takes coordinates out of the buffer: no call runs.
LEMMA CoordinatesTaken ==
    ASSUME SplitInv, spc = "off", x' = [v \in Coordinates |-> x'[v]],
           UNCHANGED <<selectVars, callVars, workerVars, poolVars>>
    PROVE  SplitInv' /\ spc' = "off"
<1>1. UNCHANGED <<split, threads, spc, target, u, sn, ok, xsn, wpc, cursor,
                  acc, wsn, wok, phase, size, taken, finished>>
  BY DEF selectVars, callVars, workerVars, poolVars
<1>2. SplitTypeOK' /\ PoolInv' /\ WorkerInv'
  BY <1>1 DEF SplitInv, SplitTypeOK, PoolInv, WorkerInv
<1>3. RangeInv' /\ SumInv'
  BY <1>1 DEF RangeInv, SumInv
<1>4. QED
  BY <1>1, <1>2, <1>3 DEF SplitInv

LEMMA StepTimesG ==
    ASSUME HawkInv, TimesG
    PROVE  HawkInv'
<1>1. /\ pc = "sampled" /\ pc' = "product" /\ xsn <= MaxNorm
      /\ h1buf' = mem["mod2"].h
      /\ mem' = [mem EXCEPT !["g"] = <<"w1", G, Restrict(x, X0)>>,
                            !["mod2"] = Junk, !["scratch"] = Junk]
      /\ x' = [v \in Coordinates |-> IF v \in X0 THEN Junk ELSE x[v]]
      /\ UNCHANGED <<key, decoded, use_shake, hm, attempt, salt, sig>>
      /\ UNCHANGED <<selectVars, callVars, workerVars, poolVars>>
  BY DEF TimesG, WithinNorm, argVars
<1>2. spc = "off"
  BY <1>1 DEF HawkInv, BufferInv
<1>3. SplitInv' /\ spc' = "off"
  <2>1. x' = [v \in Coordinates |-> x'[v]]
    BY <1>1
  <2>2. QED
    BY <1>1, <1>2, <2>1, CoordinatesTaken DEF HawkInv
<1>4. /\ mem' = [a \in Areas |-> mem'[a]] /\ mem'["f"] = mem["f"]
      /\ mem'["g"] = <<"w1", G, Restrict(x, X0)>>
  <2>1. mem = [a \in Areas |-> mem[a]]
    BY DEF HawkInv, TypeOK
  <2>2. QED
    BY <1>1, <2>1 DEF Areas
<1>5. F = PolyF(key) /\ G = PolyG(key) /\ F' = F
  BY <1>1, <1>4 DEF HawkInv, KeyInv, F, G
<1>6. TypeOK' /\ KeyInv'
  BY <1>1, <1>4, <1>5 DEF HawkInv, TypeOK, KeyInv
<1>7. x \in ShortVectors(TargetOf(salt)) /\ h1buf' = HashChallenge(hm, salt)
  <2>1. xsn # NormTop
    BY <1>1, MaxNormAssumption, CoordNormsAssumption
    DEF HawkInv, SplitInv, SplitTypeOK
  <2>2. /\ x \in Vectors(TargetOf(salt)) /\ xsn = SquareSum(x)
        /\ mem["mod2"] = [h |-> HashChallenge(hm, salt), t |-> TargetOf(salt)]
    BY <1>1, <2>1 DEF HawkInv, BufferInv
  <2>3. QED
    BY <1>1, <2>2 DEF ShortVectors
<1>8. Restrict(x', X1) = Restrict(x, X1)
  <2>1. \A v \in X1 : v \in Coordinates /\ v \notin X0
    BY DegreeAssumption DEF X0, X1, Coordinates
  <2>2. \A v \in X1 : x'[v] = x[v]
    BY <1>1, <2>1
  <2>3. QED
    BY <2>2 DEF Restrict
<1>9. BufferInv'
  <2> DEFINE t == TargetOf(salt)
  <2>1. TargetOf(salt)' = t /\ HashChallenge(hm, salt)' = HashChallenge(hm, salt)
    BY <1>1 DEF TargetOf
  <2>2. x \in ShortVectors(t)'
    BY <1>7, <2>1 DEF ShortVectors, Vectors, SquareSum
  <2>3. mem'["g"] = <<"w1", PolyG(key)', Restrict(x, X0)>>
    BY <1>1, <1>4, <1>5 DEF PolyG
  <2>4. \E y \in ShortVectors(t)' :
           /\ mem'["g"] = <<"w1", PolyG(key)', Restrict(y, X0)>>
           /\ Restrict(x', X1) = Restrict(y, X1)
    BY <1>8, <2>2, <2>3
  <2>5. h1buf' = HashChallenge(hm, salt)'
    BY <1>7, <2>1
  <2> HIDE DEF t
  <2>6. (\E y \in ShortVectors(TargetOf(salt)) :
            /\ mem["g"] = <<"w1", PolyG(key), Restrict(y, X0)>>
            /\ Restrict(x, X1) = Restrict(y, X1))'
    BY <2>4 DEF t
  <2>7. QED
    BY <1>1, <1>3, <2>5, <2>6 DEF BufferInv
<1>10. SignatureVerifies'
  BY <1>1, SignatureKept DEF HawkInv
<1>11. QED
  BY <1>3, <1>6, <1>9, <1>10 DEF HawkInv

LEMMA StepTimesF ==
    ASSUME HawkInv, TimesF
    PROVE  HawkInv'
<1>1. /\ pc = "product" /\ pc' = "encode"
      /\ mem' = [mem EXCEPT !["f"] = <<"w3", F, X1First, mem["g"]>>,
                            !["scratch"] = Junk]
      /\ x' = [v \in Coordinates |-> Junk]
      /\ UNCHANGED <<key, decoded, use_shake, hm, attempt, salt, h1buf, sig>>
      /\ UNCHANGED <<selectVars, callVars, workerVars, poolVars>>
  BY DEF TimesF, argVars, localVars
<1>2. spc = "off"
  BY <1>1 DEF HawkInv, BufferInv
<1>3. SplitInv' /\ spc' = "off"
  <2>1. x' = [v \in Coordinates |-> x'[v]]
    BY <1>1
  <2>2. QED
    BY <1>1, <1>2, <2>1, CoordinatesTaken DEF HawkInv
<1>4. /\ mem' = [a \in Areas |-> mem'[a]]
      /\ mem'["f"] = <<"w3", PolyF(key), Restrict(x, X1), mem["g"]>>
  <2>1. mem = [a \in Areas |-> mem[a]] /\ F = PolyF(key)
    BY <1>1 DEF HawkInv, TypeOK, KeyInv
  <2>2. QED
    BY <1>1, <2>1 DEF Areas, X1First
<1>5. TypeOK' /\ KeyInv'
  BY <1>1, <1>4 DEF HawkInv, TypeOK, KeyInv
<1>6. /\ h1buf = HashChallenge(hm, salt)
      /\ \E y \in ShortVectors(TargetOf(salt)) :
            /\ mem["g"] = <<"w1", PolyG(key), Restrict(y, X0)>>
            /\ Restrict(x, X1) = Restrict(y, X1)
  BY <1>1 DEF HawkInv, BufferInv
<1>7. PICK y \in ShortVectors(TargetOf(salt)) :
         mem'["f"] = <<"w3", PolyF(key), Restrict(y, X1),
                       <<"w1", PolyG(key), Restrict(y, X0)>>>>
  BY <1>4, <1>6
<1>8. BufferInv'
  <2>1. y \in ShortVectors(TargetOf(salt))'
    BY <1>1 DEF TargetOf, ShortVectors, Vectors, SquareSum
  <2>2. PolyF(key)' = PolyF(key) /\ PolyG(key)' = PolyG(key)
    BY <1>1
  <2>3. QED
    BY <1>1, <1>3, <1>6, <1>7, <2>1, <2>2 DEF BufferInv
<1>9. SignatureVerifies'
  BY <1>1, SignatureKept DEF HawkInv
<1>10. QED
  BY <1>3, <1>5, <1>8, <1>9 DEF HawkInv

\* An attempt that is given up with the buffer spent.
LEMMA StepReject ==
    ASSUME HawkInv, RejectLimit \/ RejectSize
    PROVE  HawkInv'
<1>1. /\ pc = "encode" /\ pc' = "attempt"
      /\ attempt' = (attempt + 2) % CounterMod
      /\ mem' = Regen(Spent, key, decoded)
      /\ UNCHANGED <<key, decoded, use_shake, hm, salt, h1buf, sig, spc>>
      /\ UNCHANGED splitVars
  BY DEF RejectLimit, RejectSize, AfterLimit, AfterSize, Again, argVars,
     splitVars, callVars
<1>2. SplitInv'
  BY <1>1, SplitUnchanged DEF HawkInv
<1>3. Spent = [a \in Areas |-> Spent[a]]
  BY DEF Spent
<1>4. TypeOK'
  <2>1. attempt' \in 0 .. CounterMod - 1
    BY <1>1, CounterType DEF HawkInv, TypeOK
  <2>2. mem' = [a \in Areas |-> mem'[a]]
    BY <1>1, <1>3, RegenFacts
  <2>3. QED
    BY <1>1, <2>1, <2>2 DEF HawkInv, TypeOK
<1>5. KeyInv'
  BY <1>1, <1>3, RegenFacts DEF HawkInv, TypeOK, KeyInv, F, G
<1>6. BufferInv'
  BY <1>1 DEF HawkInv, BufferInv
<1>7. SignatureVerifies'
  BY <1>1, SignatureKept DEF HawkInv
<1>8. QED
  BY <1>2, <1>4, <1>5, <1>6, <1>7 DEF HawkInv

LEMMA StepEncode ==
    ASSUME HawkInv, Encode
    PROVE  HawkInv'
<1>1. /\ pc = "encode" /\ pc' = "idle" /\ mem' = Spent
      /\ sig' = [salt |-> salt, h1 |-> h1buf, s1 |-> mem["f"]]
      /\ UNCHANGED <<key, decoded, use_shake, hm, attempt, salt, h1buf, spc>>
      /\ UNCHANGED splitVars
  BY DEF Encode, argVars, localVars, splitVars, callVars
<1>2. SplitInv'
  BY <1>1, SplitUnchanged DEF HawkInv
<1>3. TypeOK' /\ KeyInv'
  BY <1>1 DEF HawkInv, TypeOK, KeyInv, Spent
<1>4. BufferInv'
  BY <1>1 DEF HawkInv, BufferInv
<1>5. SignatureVerifies'
  <2>1. /\ h1buf = HashChallenge(hm, salt)
        /\ \E y \in ShortVectors(TargetOf(salt)) :
              mem["f"] = <<"w3", PolyF(key), Restrict(y, X1),
                           <<"w1", PolyG(key), Restrict(y, X0)>>>>
    BY <1>1 DEF HawkInv, BufferInv
  <2>2. sig'.salt = salt /\ sig'.h1 = h1buf /\ sig'.s1 = mem["f"]
    BY <1>1
  <2>3. TargetOf(sig.salt)' = TargetOf(salt)
    BY <1>1, <2>2 DEF TargetOf
  <2>4. ShortVectors(TargetOf(sig.salt))' = ShortVectors(TargetOf(salt))
    BY <2>3 DEF ShortVectors, Vectors, SquareSum
  <2>5. PolyF(key)' = PolyF(key) /\ PolyG(key)' = PolyG(key)
    BY <1>1
  <2>6. QED
    BY <1>1, <2>1, <2>2, <2>4, <2>5 DEF SignatureVerifies
<1>6. QED
  BY <1>2, <1>3, <1>4, <1>5 DEF HawkInv

LEMMA HawkStep == HawkInv /\ [Next]_vars => HawkInv'
<1> SUFFICES ASSUME HawkInv, [Next]_vars PROVE HawkInv'
  OBVIOUS
<1>1. CASE SignStep
  BY <1>1, StepMakeTarget, StepCallSampler, StepRejectNorm, StepTimesG,
     StepTimesF, StepReject, StepEncode DEF SignStep
<1>2. CASE \/ Sampling(CallStep)
           \/ \E w \in Workers : Sampling(WorkerStep(w))
           \/ \E s \in 0 .. MaxThreads - 2 : Sampling(PoolStep(s))
  <2>1. Sampling(SplitStep)
    BY <1>2 DEF Sampling, SplitStep
  <2>2. QED
    BY <2>1, StepSampling
<1>3. CASE UNCHANGED vars
  <2>1. UNCHANGED splitVars /\ UNCHANGED <<spc, target, xsn, x>>
        /\ UNCHANGED <<pc, key, decoded, use_shake, hm, attempt, salt, h1buf,
                       mem, sig>>
    BY <1>3 DEF vars, signVars, argVars, localVars, splitVars, callVars
  <2>2. SplitInv'
    BY <2>1, SplitUnchanged DEF HawkInv
  <2>3. TypeOK' /\ KeyInv'
    BY <2>1 DEF HawkInv, TypeOK, KeyInv, F, G
  <2>4. BufferInv'
    BY <2>1 DEF HawkInv, BufferInv, TargetOf, ShortVectors, Vectors, SquareSum
  <2>5. SignatureVerifies'
    BY <2>1, SignatureKept DEF HawkInv
  <2>6. QED
    BY <2>2, <2>3, <2>4, <2>5 DEF HawkInv
<1>4. QED
  BY <1>1, <1>2, <1>3, StepSelectVariant, StepStart DEF Next

\* The inductive invariant of the signer and its split sampler holds in
\* every reachable state.
THEOREM HawkInvariance == Spec => []HawkInv
<1>1. QED
  BY HawkStart, HawkStep, PTL DEF Spec

\* Every signature that goes out verifies: it is made of the challenge of
\* its own salt, its own key, and one vector that was sampled, whole, for
\* that challenge and is within the bound.
THEOREM SignaturesVerify == Spec => []SignatureVerifies
<1>1. HawkInv => SignatureVerifies
  BY DEF HawkInv
<1>2. QED
  BY <1>1, HawkInvariance, PTL

\* A norm that the split sampler returns is that of the vector it leaves,
\* sampled in full for the call's target, for every number of threads.
THEOREM SplitNormExact == Spec => SplitExact
<1> DEFINE A == spc # "off" /\ spc' = "off" /\ xsn' # NormTop =>
                   /\ \A v \in Coordinates :
                         x[v] \in {Sample(target, c) : c \in CoordNorms}
                   /\ xsn' = SquareSum(x)
<1>1. ASSUME HawkInv, [Next]_vars
      PROVE  A
  <2>1. SUFFICES ASSUME spc # "off", spc' = "off", xsn' # NormTop
                 PROVE  x \in Vectors(target) /\ xsn' = SquareSum(x)
    BY DEF Vectors
  <2>2. SplitStep
    <3>1. CASE UNCHANGED vars
      BY <2>1, <3>1 DEF vars, splitVars, callVars
    <3>2. CASE SignStep
      BY <2>1, <3>2 DEF SignStep, MakeTarget, CallSampler, SplitCall,
         SampleAll, RejectNorm, TimesG, TimesF, RejectLimit, RejectSize,
         Encode, splitVars, callVars
    <3>3. CASE \/ \E s \in BOOLEAN, t \in Threads : SelectVariant(s, t)
               \/ \E k \in Keys, d, s \in BOOLEAN, m \in Messages :
                     Start(k, d, s, m)
      BY <2>1, <3>3 DEF SelectVariant, Select, Start, splitVars, callVars
    <3>4. QED
      BY <1>1, <3>1, <3>2, <3>3 DEF Next, Sampling, SplitStep
  <2>3. QED
    BY <1>1, <2>1, <2>2, StepResult DEF HawkInv
<1>2. HawkInv /\ [Next]_vars => [A]_splitVars
  BY <1>1
<1>3. QED
  BY <1>2, HawkInvariance, PTL DEF Spec, SplitExact
=============================================================================
