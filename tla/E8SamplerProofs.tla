--------------------------- MODULE E8SamplerProofs ---------------------------
(***************************************************************************)
(* Proofs about E8Sampler, for every number of blocks and threads and      *)
(* every set of norms.                                                     *)
(***************************************************************************)
EXTENDS E8Sampler, DataTheorems

-----------------------------------------------------------------------------
(***************************************************************************)
(* The ranges tile the blocks.                                             *)
(***************************************************************************)
\* The ranges start at the first block, end at the last, and follow each
\* other.
LEMMA StartFacts ==
    ASSUME NEW t \in Nat \ {0}
    PROVE  /\ \A u \in Nat : Start(u, t) \in Nat
           /\ \A u, v \in Nat : u <= v => Start(u, t) <= Start(v, t)
           /\ Start(0, t) = 0
           /\ Start(t, t) = BlockCount
<1>1. \A w : Start(w, t) = Cut(BlockCount, t, w)
  BY DEF Start, Cut
<1>2. BlockCount \in Nat
  BY BlockCountAssumption
<1>3. QED
  BY <1>1, <1>2, CutFacts, SMTT(30)

\* Every block is in the range of a worker.
LEMMA OwnerExists ==
    ASSUME NEW t \in Nat \ {0}, NEW r \in Blocks
    PROVE  \E w \in 0 .. t - 1 : Start(w, t) <= r /\ r < Start(w + 1, t)
<1>1. \A w : Start(w, t) = Cut(BlockCount, t, w)
  BY DEF Start, Cut
<1>2. r \in 0 .. BlockCount - 1
  BY DEF Blocks
<1>3. QED
  BY <1>1, <1>2, CutOwner, BlockCountAssumption

\* The ranges of the call, by the name First.
LEMMA FirstFacts ==
    ASSUME TypeOK, thread_count > 0
    PROVE  /\ thread_count \in 1 .. MaxThreads
           /\ \A u \in Nat : First(u) \in Nat /\ First(u + 1) \in Nat
           /\ \A u, v \in Nat : u <= v => First(u) <= First(v)
           /\ First(0) = 0 /\ First(thread_count) = BlockCount
           /\ \A w \in Workers : w < thread_count =>
                 First(w) <= First(w + 1) /\ First(w + 1) <= BlockCount
           /\ \A w : EndOfRange(w) = First(w + 1)
<1>1. thread_count \in 1 .. MaxThreads
  BY MaxThreadsAssumption DEF TypeOK
<1>2. /\ \A u \in Nat : First(u) \in Nat
      /\ \A u, v \in Nat : u <= v => First(u) <= First(v)
      /\ First(0) = 0 /\ First(thread_count) = BlockCount
  BY <1>1, StartFacts, MaxThreadsAssumption DEF First
<1>3. \A u \in Nat : u + 1 \in Nat
  OBVIOUS
<1>4. ASSUME NEW w \in Workers, w < thread_count
      PROVE  First(w) <= First(w + 1) /\ First(w + 1) <= BlockCount
  <2>1. /\ w \in Nat /\ w + 1 \in Nat /\ w <= w + 1
        /\ w + 1 <= thread_count /\ thread_count \in Nat
    BY <1>1, <1>4, MaxThreadsAssumption DEF Workers
  <2>2. QED
    BY <1>2, <2>1
<1>5. \A w : EndOfRange(w) = First(w + 1)
  BY DEF EndOfRange, First
<1>6. QED
  BY <1>1, <1>2, <1>3, <1>4, <1>5

\* No block is in the range of two workers.
LEMMA OwnerUnique ==
    ASSUME TypeOK, thread_count > 0, NEW w \in Workers, NEW v \in Workers,
           NEW r \in Blocks, Owns(w, r), Owns(v, r)
    PROVE  w = v
<1>1. w \in Nat /\ v \in Nat /\ r \in Nat
  BY MaxThreadsAssumption, BlockCountAssumption DEF Workers, Blocks
<1>2. ~(w < v)
  <2>1. SUFFICES ASSUME w < v PROVE FALSE
    OBVIOUS
  <2>2. First(w + 1) <= First(v) /\ First(w + 1) \in Nat /\ First(v) \in Nat
    BY <1>1, <2>1, FirstFacts
  <2>3. QED
    BY <1>1, <2>2 DEF Owns
<1>3. ~(v < w)
  <2>1. SUFFICES ASSUME v < w PROVE FALSE
    OBVIOUS
  <2>2. First(v + 1) <= First(w) /\ First(v + 1) \in Nat /\ First(w) \in Nat
    BY <1>1, <2>1, FirstFacts
  <2>3. QED
    BY <1>1, <2>2 DEF Owns
<1>4. QED
  BY <1>1, <1>2, <1>3

-----------------------------------------------------------------------------
(***************************************************************************)
(* The cells of the blocks.                                                *)
(***************************************************************************)

\* Norms are natural numbers.
LEMMA NormsNatural == \A n \in Norms : n \in Nat
BY NormsAssumption

\* The sum over an interval in which nothing is drawn.
LEMMA DrawnSame ==
    ASSUME NEW a \in Int, NEW b \in Int,
           \A r \in a .. b - 1 : drawn[r] \in Nat /\ drawn[r] = drawn'[r]
    PROVE  SumFunctionOnSet(drawn, a .. b - 1) =
              SumFunctionOnSet(drawn', a .. b - 1)
BY SumSame

\* The cells of a block are cells of the caller's vectors.
LEMMA CellsOfBlock ==
    ASSUME NEW r \in Blocks, NEW i \in 0 .. 7
    PROVE  ZCell(r, i) \in Cells
<1>1. i \div 4 \in {0, 1} /\ i % 4 \in {0, 1, 2, 3}
  OBVIOUS
<1>2. r \in 0 .. BlockCount - 1 /\ BlockCount \in Nat
  BY BlockCountAssumption DEF Blocks
<1>3. r + (i % 4) * BlockCount \in 0 .. 4 * BlockCount - 1
  <2>1. /\ 0 * BlockCount = 0 /\ 1 * BlockCount = BlockCount
        /\ 2 * BlockCount = BlockCount + BlockCount
        /\ 3 * BlockCount = BlockCount + BlockCount + BlockCount
        /\ 4 * BlockCount = BlockCount + BlockCount + BlockCount + BlockCount
    BY <1>2
  <2>2. QED
    BY <1>1, <1>2, <2>1
<1>4. QED
  BY <1>1, <1>3 DEF ZCell, Cells

\* Every cell belongs to a block.
LEMMA BlockOfCell ==
    ASSUME NEW c \in Cells
    PROVE  \E r \in Blocks, i \in 0 .. 7 : c = ZCell(r, i)
<1>1. PICK h \in {0, 1}, p \in 0 .. 4 * BlockCount - 1 : c = <<h, p>>
  BY DEF Cells
<1>2. BlockCount \in Nat \ {0} /\ p \in Nat
  BY <1>1, BlockCountAssumption
<1> DEFINE q == p \div BlockCount
           r == p % BlockCount
<1>3. /\ q \in Nat /\ q < 4
  <2>1. p < BlockCount * 4
    BY <1>1, <1>2
  <2>2. QED
    BY <1>2, <2>1, DivBounds
<1>4. r \in Blocks /\ p = r + q * BlockCount
  BY <1>2 DEF Blocks
<1> HIDE DEF q, r
<1>5. q \in {0, 1, 2, 3}
  BY <1>3
<1>6. 4 * h + q \in 0 .. 7 /\ (4 * h + q) \div 4 = h /\ (4 * h + q) % 4 = q
  BY <1>1, <1>5
<1>7. c = ZCell(r, 4 * h + q)
  BY <1>1, <1>4, <1>6 DEF ZCell
<1>8. QED
  BY <1>4, <1>6, <1>7

\* Writing a block sets its cells to what they should be, and only them.
LEMMA WriteBlockFacts ==
    ASSUME NEW r \in Blocks, z' = WriteBlock(r),
           z \in [Cells -> Cells \cup {NoCell}]
    PROVE  /\ z' \in [Cells -> Cells \cup {NoCell}]
           /\ \A c \in Cells : z'[c] = c \/ z'[c] = z[c]
           /\ \A i \in 0 .. 7 : z'[ZCell(r, i)] = ZCell(r, i)
<1>1. \A s, i : TauCell(s, i) = ZCell(s, i)
  BY SMTT(30) DEF TauCell, ZCell
<1>2. ASSUME NEW c \in Cells, NEW i \in 0 .. 7, c = ZCell(r, i)
      PROVE  z'[c] = c
  <2> DEFINE j == CHOOSE j \in 0 .. 7 : c = ZCell(r, j)
  <2>1. j \in 0 .. 7 /\ c = ZCell(r, j)
    BY <1>2
  <2>2. z'[c] = TauCell(r, j)
    BY <1>2 DEF WriteBlock
  <2>3. QED
    BY <1>1, <2>1, <2>2, Zenon
<1>3. ASSUME NEW c \in Cells, ~ \E i \in 0 .. 7 : c = ZCell(r, i)
      PROVE  z'[c] = z[c]
  BY <1>3 DEF WriteBlock
<1>4. \A c \in Cells : z'[c] = c \/ z'[c] = z[c]
  BY <1>2, <1>3
<1>5. z' = [c \in Cells |-> z'[c]]
  BY DEF WriteBlock
<1>6. z' \in [Cells -> Cells \cup {NoCell}]
  BY <1>4, <1>5
<1>7. \A i \in 0 .. 7 : z'[ZCell(r, i)] = ZCell(r, i)
  BY <1>2, CellsOfBlock
<1>8. QED
  BY <1>4, <1>6, <1>7

-----------------------------------------------------------------------------
(***************************************************************************)
(* The inductive invariant.                                                *)
(***************************************************************************)
LEMMA SampleInit == Init => SampleInv
<1> SUFFICES ASSUME Init PROVE SampleInv
  OBVIOUS
<1>1. TypeOK
  BY BlockCountAssumption, MaxThreadsAssumption, NormsAssumption
  DEF Init, TypeOK
<1>2. PoolInv /\ WorkerInv
  BY DEF Init, Pool!Init, PoolInv, WorkerInv, Calling
<1>3. RangeInv /\ ReduceInv /\ CosetMatches
  BY DEF Init, RangeInv, ReduceInv, CosetMatches, Calling
<1>4. QED
  BY <1>1, <1>2, <1>3 DEF SampleInv

\* A step that starts workers of the call, and touches nothing they have
\* done, keeps what is known of the ranges.
LEMMA RangeKept ==
    ASSUME SampleInv, Calling, Calling',
           UNCHANGED <<thread_count, z, cursor, ok, norm2, streamed, drawn>>,
           wpc' \in [Workers -> {"off", "range", "done"}],
           \A w \in Workers :
              \/ wpc'[w] = wpc[w]
              \/ wpc[w] = "off" /\ wpc'[w] = "range" /\ w < thread_count
    PROVE  RangeInv'
<1>1. /\ \A w : First(w)' = First(w)
      /\ \A w, r : Owns(w, r)' <=> Owns(w, r)
      /\ \A r : Written(r)' <=> Written(r)
      /\ \A a, b : DrawnBetween(a, b)' = DrawnBetween(a, b)
      /\ \A w : GaveUp(w)' <=> GaveUp(w)
  BY DEF First, Owns, Written, DrawnBetween, GaveUp
<1>2. \A w \in Workers : /\ wpc[w] = "done" <=> wpc'[w] = "done"
                         /\ w >= thread_count => wpc'[w] = wpc[w]
  BY MaxThreadsAssumption DEF SampleInv, TypeOK, Workers
<1>3. \A w \in Workers : w < thread_count =>
         /\ cursor'[w] \in First(w)' .. First(w + 1)'
         /\ ok'[w] => cursor'[w] = First(w + 1)' /\ wpc'[w] = "done"
         /\ streamed'[w] <= First(w + 1)' - First(w)'
         /\ wpc'[w] # "done" => streamed'[w] = cursor'[w] - First(w)'
         /\ norm2'[w] = SumFunctionOnSet(drawn', First(w)' .. cursor'[w] - 1)
         /\ wpc'[w] = "done" /\ ~ok'[w] => GaveUp(w)'
  BY <1>1, <1>2 DEF SampleInv, RangeInv, DrawnBetween
<1>4. \A w \in Workers : w >= thread_count => wpc'[w] = "off"
  BY <1>2 DEF SampleInv, RangeInv
<1>5. \A w \in Workers, r \in Blocks :
         Owns(w, r)' /\ r < cursor'[w] => Written(r)' /\ drawn'[r] \in Norms
  BY <1>1 DEF SampleInv, RangeInv
<1>6. \A r \in Blocks : drawn'[r] # NotDrawn =>
         \E w \in Workers : Owns(w, r)' /\ (r < cursor'[w] \/ wpc'[w] = "done")
  BY <1>1, <1>2 DEF SampleInv, RangeInv
<1>7. QED
  BY <1>3, <1>4, <1>5, <1>6 DEF RangeInv, DrawnBetween

\* The reduction has seen nothing before it starts.
LEMMA ReduceKept ==
    ASSUME SampleInv, Calling, cpc # "reduce",
           UNCHANGED <<thread_count, acc, reduced, counted>>
    PROVE  ReduceInv'
<1>1. reduced = 0 /\ First(0) = 0 /\ First(0)' = 0
  BY FirstFacts DEF SampleInv, ReduceInv, PoolInv, First
<1>2. DrawnBetween(0, 0) = 0 /\ DrawnBetween(0, 0)' = 0
  BY SumEmpty DEF DrawnBetween
<1>3. acc' = DrawnBetween(0, First(reduced))'
  BY <1>1, <1>2 DEF SampleInv, ReduceInv, DrawnBetween
<1>4. counted' <= First(reduced)' /\ reduced' <= thread_count'
  BY <1>1 DEF SampleInv, ReduceInv
<1>5. \A w \in Workers : ~(w < 0)
  BY MaxThreadsAssumption DEF Workers
<1>6. QED
  BY <1>1, <1>3, <1>4, <1>5 DEF ReduceInv

LEMMA StepSetThreads ==
    ASSUME SampleInv, NEW t \in Settings, SetThreads(t)
    PROVE  SampleInv'
<1>1. cpc = "idle" /\ UNCHANGED <<callVars, z, workerVars, counted, poolVars,
                                  drawn>> /\ thread_override' = t
  BY DEF SetThreads
<1>2. TypeOK'
  BY <1>1 DEF SampleInv, TypeOK, callVars, planVars, sumVars, workerVars
<1>3. PoolInv' /\ WorkerInv'
  BY <1>1 DEF SampleInv, PoolInv, WorkerInv, callVars, planVars, workerVars,
     poolVars, Calling
<1>4. RangeInv' /\ ReduceInv'
  BY <1>1 DEF RangeInv, ReduceInv, callVars, Calling
<1>5. CosetMatches'
  BY <1>1 DEF SampleInv, CosetMatches, callVars
<1>6. QED
  BY <1>2, <1>3, <1>4, <1>5 DEF SampleInv

LEMMA ResolveFacts ==
    ASSUME NEW c \in Nat
    PROVE  ResolveThreads(c) \in 1 .. MaxThreads
BY CpusAssumption, MaxThreadsAssumption, BlockCountAssumption
DEF ResolveThreads, AtMost

LEMMA StepCall ==
    ASSUME SampleInv, NEW mode \in {"worker", "block"}, Call(mode)
    PROVE  SampleInv'
<1>1. thread_count' \in 1 .. MaxThreads
  <2>1. thread_override \in Nat
    BY SettingsAssumption DEF SampleInv, TypeOK
  <2>2. QED
    BY <2>1, ResolveFacts DEF Call
<1>2. /\ \A u \in Nat : Start(u, thread_count') \in Nat
      /\ \A u, v \in Nat :
            u <= v => Start(u, thread_count') <= Start(v, thread_count')
      /\ Start(0, thread_count') = 0
      /\ Start(thread_count', thread_count') = BlockCount
  BY <1>1, StartFacts, MaxThreadsAssumption
<1>3. \A w : First(w)' = Start(w, thread_count')
  BY DEF First
<1>4. ASSUME NEW w \in Workers, w < thread_count'
      PROVE  /\ Start(w, thread_count') \in Nat
             /\ Start(w + 1, thread_count') \in Nat
             /\ Start(w, thread_count') <= Start(w + 1, thread_count')
             /\ Start(w + 1, thread_count') <= BlockCount
  <2>1. /\ w \in Nat /\ w + 1 \in Nat /\ w <= w + 1
        /\ w + 1 <= thread_count' /\ thread_count' \in Nat
    BY <1>1, <1>4, MaxThreadsAssumption DEF Workers
  <2>2. QED
    BY <1>2, <2>1
<1>5. cursor' \in [Workers -> 0 .. BlockCount]
  <2>1. \A w \in Workers : w < thread_count' =>
           Start(w, thread_count') \in 0 .. BlockCount
    BY <1>4, BlockCountAssumption
  <2>2. 0 \in 0 .. BlockCount
    BY BlockCountAssumption
  <2>3. QED
    BY <2>1, <2>2 DEF Call
<1>6. TypeOK'
  <2>1. /\ cpc' \in {"dispatch", "own"} /\ rng_mode' \in {"worker", "block"}
        /\ z' \in [Cells -> Cells \cup {NoCell}]
        /\ wpc' \in [Workers -> {"off", "range", "done"}]
        /\ drawn' \in [Blocks -> Norms \cup {NotDrawn, Failed}]
    BY DEF Call, AutoMode
  <2>2. /\ acc' \in 0 .. NormMax /\ reduced' \in 0 .. MaxThreads
        /\ norm2' \in [Workers -> 0 .. NormMax]
        /\ streamed' \in [Workers -> 0 .. BlockCount]
        /\ ok' \in [Workers -> BOOLEAN] /\ counted' \in 0 .. BlockCount
    BY BlockCountAssumption, MaxThreadsAssumption, NormsAssumption DEF Call
  <2>3. /\ thread_override' \in Settings \cup {1}
        /\ pnorm_out' \in 0 .. NormMax /\ ret' \in {0, 1}
    BY DEF Call, SampleInv, TypeOK
  <2>4. thread_count' \in 0 .. MaxThreads
    BY <1>1
  <2>5. QED
    BY <1>5, <2>1, <2>2, <2>3, <2>4 DEF TypeOK
<1>7. phase = "idle" /\ taken = {} /\ finished = {}
      /\ UNCHANGED <<phase, size, taken, finished>>
  BY DEF Call, SampleInv, PoolInv, poolVars
<1>8. PoolInv'
  BY <1>1, <1>7 DEF Call, PoolInv, Calling
<1>9. WorkerInv'
  <2>1. \A w \in Workers : wpc'[w] =
           IF w = 0 /\ thread_count' = 1 THEN "range" ELSE "off"
    BY DEF Call
  <2>2. QED
    BY <1>7, <2>1 DEF Call, WorkerInv
<1>10. RangeInv'
  <2>1. ASSUME NEW w \in Workers, w < thread_count'
        PROVE  /\ cursor'[w] = First(w)' /\ ok'[w] = FALSE /\ streamed'[w] = 0
               /\ cursor'[w] \in First(w)' .. First(w + 1)'
               /\ streamed'[w] <= First(w + 1)' - First(w)'
               /\ streamed'[w] = cursor'[w] - First(w)'
               /\ norm2'[w] = SumFunctionOnSet(drawn', First(w)' .. cursor'[w] - 1)
               /\ wpc'[w] # "done"
    <3>1. /\ cursor'[w] = First(w)' /\ ok'[w] = FALSE /\ streamed'[w] = 0
          /\ norm2'[w] = 0 /\ wpc'[w] # "done"
      BY <1>3, <2>1 DEF Call
    <3>2. First(w)' = Start(w, thread_count')
          /\ First(w + 1)' = Start(w + 1, thread_count')
      BY <1>3
    <3>3. SumFunctionOnSet(drawn', First(w)' .. First(w)' - 1) = 0
      BY <1>4, <2>1, <3>2, SumEmpty
    <3>4. norm2'[w] = SumFunctionOnSet(drawn', First(w)' .. cursor'[w] - 1)
      BY <3>1, <3>3
    <3>5. QED
      BY <1>4, <2>1, <3>1, <3>2, <3>4
  <2>2. ASSUME NEW w \in Workers, w >= thread_count'
        PROVE  wpc'[w] = "off"
    BY <1>1, <2>2 DEF Call
  <2>3. ASSUME NEW w \in Workers, NEW r \in Blocks, Owns(w, r)'
        PROVE  ~(r < cursor'[w])
    <3>1. w < thread_count' /\ First(w)' <= r
      BY <2>3 DEF Owns
    <3>2. First(w)' \in Nat /\ r \in Int
      BY <1>3, <1>4, <3>1 DEF Blocks
    <3>3. cursor'[w] = First(w)'
      BY <2>1, <3>1
    <3>4. ~(r < First(w)')
      BY <3>1, <3>2
    <3>5. QED
      BY <3>3, <3>4
  <2>4. \A r \in Blocks : drawn'[r] = NotDrawn
    BY DEF Call
  <2>5. QED
    BY <2>1, <2>2, <2>3, <2>4 DEF RangeInv, DrawnBetween
<1>11. ReduceInv'
  <2>1. reduced' = 0 /\ counted' = 0 /\ First(0)' = 0 /\ acc' = 0
    BY <1>2, <1>3 DEF Call
  <2>2. \A w \in Workers : ~(w < 0)
    BY MaxThreadsAssumption DEF Workers
  <2>3. SumFunctionOnSet(drawn', 0 .. 0 - 1) = 0
    BY SumEmpty
  <2>4. QED
    BY <1>1, <2>1, <2>2, <2>3 DEF ReduceInv, DrawnBetween
<1>12. CosetMatches'
  BY DEF Call, CosetMatches
<1>13. QED
  BY <1>6, <1>8, <1>9, <1>10, <1>11, <1>12 DEF SampleInv

LEMMA StepDispatch ==
    ASSUME SampleInv, Dispatch
    PROVE  SampleInv'
<1>1. 0 \in Workers /\ thread_count \in 2 .. MaxThreads
  BY MaxThreadsAssumption DEF Dispatch, SampleInv, PoolInv, TypeOK, Workers
<1>2. /\ wpc' \in [Workers -> {"off", "range", "done"}]
      /\ wpc'[0] = "range" /\ \A w \in Workers : w # 0 => wpc'[w] = wpc[w]
      /\ wpc[0] # "range"
  BY <1>1 DEF Dispatch, SampleInv, TypeOK, WorkerInv
<1>3. TypeOK'
  BY <1>2 DEF Dispatch, SampleInv, TypeOK, planVars, sumVars
<1>4. PoolInv'
  BY <1>1 DEF Dispatch, Pool!Fork, SampleInv, PoolInv, planVars, Calling
<1>5. WorkerInv'
  BY <1>1, <1>2 DEF Dispatch, Pool!Fork, SampleInv, PoolInv, WorkerInv, planVars
<1>6. wpc[0] = "off"
  BY <1>1 DEF Dispatch, SampleInv, WorkerInv
<1>7. RangeInv'
  BY <1>1, <1>2, <1>6, RangeKept DEF Dispatch, planVars, Calling
<1>8. ReduceInv'
  BY ReduceKept DEF Dispatch, planVars, sumVars, Calling
<1>9. CosetMatches'
  BY DEF Dispatch, CosetMatches
<1>10. QED
  BY <1>3, <1>4, <1>5, <1>7, <1>8, <1>9 DEF SampleInv

LEMMA StepDispatchFails ==
    ASSUME SampleInv, DispatchFails
    PROVE  SampleInv'
<1>1. TypeOK'
  BY DEF DispatchFails, Return, SampleInv, TypeOK, planVars, sumVars,
     workerVars
<1>2. PoolInv' /\ WorkerInv'
  BY DEF DispatchFails, Return, SampleInv, PoolInv, WorkerInv, planVars,
     workerVars, poolVars, Calling
<1>3. RangeInv' /\ ReduceInv' /\ CosetMatches'
  BY DEF DispatchFails, Return, RangeInv, ReduceInv, CosetMatches, Calling
<1>4. QED
  BY <1>1, <1>2, <1>3 DEF SampleInv

\* A step of the call that leaves the workers alone.
LEMMA StepOwnDone ==
    ASSUME SampleInv, OwnDone
    PROVE  SampleInv'
<1>1. cpc = "own" /\ wpc[0] = "done" /\ Calling /\ Calling'
      /\ cpc' = IF thread_count = 1 THEN "reduce" ELSE "wait"
  BY DEF OwnDone, AfterOwn, Calling
<1>2. TypeOK'
  BY <1>1 DEF OwnDone, SampleInv, TypeOK, planVars, sumVars, workerVars
<1>3. thread_count \in 1 .. MaxThreads
  BY <1>1, FirstFacts DEF SampleInv, PoolInv
<1>4. PoolInv'
  BY <1>1, <1>3 DEF OwnDone, SampleInv, PoolInv, planVars, poolVars, Calling
<1>5. WorkerInv'
  <2>1. UNCHANGED <<thread_count, wpc, phase, taken, finished>>
    BY DEF OwnDone, planVars, workerVars, poolVars
  <2>2. \A w \in Workers : w = 0 \/ w > 0
    BY MaxThreadsAssumption DEF Workers
  <2>3. ASSUME cpc' = "reduce"
        PROVE  /\ \A w \in Workers : wpc[w] # "range"
               /\ \A w \in Workers : w < thread_count => wpc[w] = "done"
    <3>1. phase = "idle" /\ thread_count = 1
      BY <1>1, <2>3 DEF SampleInv, PoolInv
    <3>2. \A w \in Workers : w < 1 => w = 0
      BY MaxThreadsAssumption DEF Workers
    <3>3. QED
      BY <1>1, <2>2, <3>1, <3>2 DEF SampleInv, WorkerInv
  <2>4. QED
    BY <1>1, <2>1, <2>3 DEF SampleInv, WorkerInv
<1>6. RangeInv'
  BY <1>1, RangeKept DEF OwnDone, planVars, workerVars, SampleInv, TypeOK
<1>7. ReduceInv'
  BY <1>1, ReduceKept DEF OwnDone, planVars, sumVars, workerVars
<1>8. CosetMatches'
  BY <1>1 DEF CosetMatches
<1>9. QED
  BY <1>2, <1>4, <1>5, <1>6, <1>7, <1>8 DEF SampleInv

LEMMA StepWait ==
    ASSUME SampleInv, Wait
    PROVE  SampleInv'
<1>1. /\ cpc = "wait" /\ cpc' = "reduce" /\ Calling /\ Calling'
      /\ phase = "forked" /\ phase' = "idle" /\ taken' = {} /\ finished' = {}
      /\ finished = 0 .. size - 1
  BY DEF Wait, Pool!Join, Pool!Leave, Calling
<1>2. TypeOK'
  BY <1>1 DEF Wait, SampleInv, TypeOK, planVars, sumVars, workerVars
<1>3. PoolInv'
  BY <1>1 DEF Wait, SampleInv, PoolInv, planVars, Calling
<1>4. WorkerInv'
  <2>1. taken \ finished = {}
    BY <1>1 DEF SampleInv, PoolInv
  <2>2. \A w \in Workers : w = 0 \/ w > 0
    BY MaxThreadsAssumption DEF Workers
  <2>3. \A w \in Workers : wpc[w] # "range"
    BY <1>1, <2>1, <2>2 DEF SampleInv, WorkerInv
  <2>4. ASSUME NEW w \in Workers, w < thread_count
        PROVE  wpc[w] = "done"
    <3>1. w > 0 => w - 1 \in finished
      BY <1>1, <2>4, MaxThreadsAssumption
      DEF SampleInv, PoolInv, TypeOK, Workers
    <3>2. QED
      BY <1>1, <2>2, <3>1 DEF SampleInv, WorkerInv
  <2>5. QED
    BY <1>1, <2>3, <2>4 DEF Wait, WorkerInv, workerVars, planVars
<1>5. RangeInv'
  BY <1>1, RangeKept DEF Wait, planVars, workerVars, SampleInv, TypeOK
<1>6. ReduceInv'
  BY <1>1, ReduceKept DEF Wait, planVars, sumVars, workerVars
<1>7. CosetMatches'
  BY <1>1 DEF CosetMatches
<1>8. QED
  BY <1>2, <1>3, <1>4, <1>5, <1>6, <1>7 DEF SampleInv

LEMMA StepTakeJob ==
    ASSUME SampleInv, NEW u \in 0 .. MaxThreads - 2, TakeJob(u)
    PROVE  SampleInv'
<1>1. /\ u + 1 \in Workers /\ u \in Nat /\ phase = "forked" /\ u \notin taken
      /\ u \in 0 .. size - 1 /\ size = thread_count - 1
      /\ cpc \in {"own", "wait"} /\ Calling
      /\ UNCHANGED <<callVars, z, cursor, ok, norm2, streamed, counted,
                     drawn, phase, size, finished>>
      /\ taken' = taken \cup {u}
  BY MaxThreadsAssumption DEF TakeJob, Pool!Take, SampleInv, PoolInv, Workers,
     Calling, TypeOK
<1>2. wpc[u + 1] = "off"
  BY <1>1 DEF SampleInv, WorkerInv
<1>3. /\ wpc' \in [Workers -> {"off", "range", "done"}]
      /\ wpc'[u + 1] = "range"
      /\ \A w \in Workers : w # u + 1 => wpc'[w] = wpc[w]
  BY <1>1 DEF TakeJob, SampleInv, TypeOK
<1>4. TypeOK'
  BY <1>1, <1>3 DEF TakeJob, SampleInv, TypeOK, callVars, planVars, sumVars
<1>5. PoolInv'
  BY <1>1 DEF SampleInv, PoolInv, callVars, planVars, Calling
<1>6. WorkerInv'
  <2>1. wpc'[0] = wpc[0]
    BY <1>1, <1>3, MaxThreadsAssumption DEF Workers
  <2>2. cpc' = cpc /\ u \notin finished
    BY <1>1 DEF callVars, SampleInv, PoolInv
  <2>3. \A w \in Workers : w > 0 /\ wpc'[w] = "range" =>
           phase' = "forked" /\ w - 1 \in taken' \ finished'
    BY <1>1, <1>3, <2>2 DEF SampleInv, WorkerInv, Workers
  <2>4. \A w \in Workers : w > 0 /\ w - 1 \notin taken' => wpc'[w] = "off"
    BY <1>1, <1>3 DEF SampleInv, WorkerInv, Workers
  <2>5. \A w \in Workers : w > 0 /\ w - 1 \in finished' => wpc'[w] = "done"
    BY <1>1, <1>3, <2>2 DEF SampleInv, WorkerInv, Workers
  <2>6. QED
    BY <1>1, <2>1, <2>2, <2>3, <2>4, <2>5 DEF SampleInv, WorkerInv
<1>7. RangeInv'
  <2>1. u + 1 < thread_count
    BY <1>1 DEF SampleInv, TypeOK
  <2>2. Calling' /\ thread_count' = thread_count
    BY <1>1 DEF callVars, planVars, Calling
  <2>3. QED
    BY <1>1, <1>2, <1>3, <2>1, <2>2, RangeKept
<1>8. ReduceInv'
  BY <1>1, ReduceKept DEF callVars, planVars, sumVars
<1>9. CosetMatches'
  BY <1>1 DEF SampleInv, CosetMatches, callVars
<1>10. QED
  BY <1>4, <1>5, <1>6, <1>7, <1>8, <1>9 DEF SampleInv

LEMMA StepFinishJob ==
    ASSUME SampleInv, NEW u \in 0 .. MaxThreads - 2, FinishJob(u)
    PROVE  SampleInv'
<1>1. /\ wpc[u + 1] = "done" /\ phase = "forked" /\ u \in taken \ finished
      /\ finished' = finished \cup {u}
      /\ UNCHANGED <<thread_override, callVars, z, workerVars, counted, drawn,
                     phase, size, taken>>
  BY DEF FinishJob, JobOver, Pool!Finish
<1>2. Calling /\ Calling'
  BY <1>1 DEF SampleInv, PoolInv, Calling, callVars
<1>3. TypeOK'
  BY <1>1 DEF SampleInv, TypeOK, callVars, planVars, sumVars, workerVars
<1>4. PoolInv'
  BY <1>1 DEF SampleInv, PoolInv, callVars, planVars, Calling
<1>5. WorkerInv'
  <2>1. UNCHANGED <<cpc, thread_count, wpc>>
    BY <1>1 DEF callVars, planVars, workerVars
  <2>2. \A w \in Workers : w > 0 /\ w - 1 \in finished' => wpc[w] = "done"
    BY <1>1 DEF SampleInv, WorkerInv, Workers
  <2>3. cpc \notin {"idle", "dispatch", "reduce"}
    BY <1>1 DEF SampleInv, PoolInv
  <2>4. QED
    BY <1>1, <2>1, <2>2, <2>3 DEF SampleInv, WorkerInv, Workers
<1>6. RangeInv'
  BY <1>1, <1>2, RangeKept DEF callVars, planVars, workerVars, SampleInv,
     TypeOK
<1>7. ReduceInv'
  <2>1. cpc # "reduce"
    BY <1>1 DEF SampleInv, PoolInv
  <2>2. QED
    BY <1>1, <1>2, <2>1, ReduceKept DEF callVars, planVars, sumVars
<1>8. CosetMatches'
  BY <1>1 DEF SampleInv, CosetMatches, callVars
<1>9. QED
  BY <1>3, <1>4, <1>5, <1>6, <1>7, <1>8 DEF SampleInv

\* What the workers that are done have drawn.
LEMMA DrawnBelow ==
    ASSUME SampleInv, Calling, NEW k \in Nat, k <= thread_count,
           \A w \in Workers : w < k => ok[w],
           NEW r \in Blocks, r < First(k)
    PROVE  \E w \in Workers : w < k /\ Owns(w, r) /\ r < cursor[w]
<1>1. /\ thread_count \in Nat \ {0} /\ thread_count <= MaxThreads
      /\ thread_count > 0 /\ TypeOK /\ r \in Nat
  BY BlockCountAssumption DEF SampleInv, PoolInv, TypeOK, Blocks
<1>2. PICK w \in 0 .. thread_count - 1 :
         Start(w, thread_count) <= r /\ r < Start(w + 1, thread_count)
  BY <1>1, OwnerExists
<1>3. w \in Workers /\ w \in Nat /\ w < thread_count /\ Owns(w, r)
  BY <1>1, <1>2, MaxThreadsAssumption DEF Workers, Owns, First
<1>4. w < k
  <2>1. SUFFICES ASSUME k <= w PROVE FALSE
    BY <1>3
  <2>2. First(k) <= First(w) /\ First(k) \in Nat /\ First(w) \in Nat
    BY <1>1, <1>3, <2>1, FirstFacts
  <2>3. QED
    BY <1>1, <1>3, <2>2 DEF Owns
<1>5. cursor[w] = First(w + 1)
  BY <1>3, <1>4 DEF SampleInv, RangeInv
<1>6. QED
  BY <1>3, <1>4, <1>5 DEF Owns

\* The norms they have drawn.
LEMMA NormsBelow ==
    ASSUME SampleInv, Calling, NEW k \in Nat, k <= thread_count,
           \A w \in Workers : w < k => ok[w]
    PROVE  \A r \in 0 .. First(k) - 1 : drawn[r] \in Norms /\ drawn[r] \in Nat
<1>1. ASSUME NEW r \in 0 .. First(k) - 1
      PROVE  drawn[r] \in Norms /\ drawn[r] \in Nat
  <2>1. First(k) \in Nat /\ First(k) <= BlockCount
    <3>1. /\ thread_count \in Nat /\ thread_count > 0 /\ TypeOK
      BY DEF SampleInv, PoolInv, TypeOK
    <3>2. /\ First(k) \in Nat /\ First(k) <= First(thread_count)
          /\ First(thread_count) = BlockCount
      BY <3>1, FirstFacts
    <3>3. QED
      BY <3>2
  <2>2. r \in Blocks /\ r < First(k)
    BY <2>1, BlockCountAssumption DEF Blocks
  <2>3. PICK w \in Workers : w < k /\ Owns(w, r) /\ r < cursor[w]
    BY <2>2, DrawnBelow
  <2>4. drawn[r] \in Norms
    BY <2>2, <2>3 DEF SampleInv, RangeInv
  <2>5. QED
    BY <2>4, NormsNatural
<1>2. QED
  BY <1>1

\* The record of the worker being reduced.
LEMMA ReducedWorker ==
    ASSUME SampleInv, cpc = "reduce", reduced < thread_count
    PROVE  /\ reduced \in Workers /\ reduced + 1 \in 1 .. MaxThreads
           /\ First(reduced) \in Nat /\ First(reduced + 1) \in Nat
           /\ First(reduced + 1) <= BlockCount
           /\ counted + streamed[reduced] \in 0 .. BlockCount
           /\ counted + streamed[reduced] <= First(reduced + 1)
<1>1. /\ reduced \in Workers /\ reduced + 1 \in 1 .. MaxThreads
      /\ reduced \in Nat /\ thread_count > 0 /\ TypeOK /\ Calling
  BY MaxThreadsAssumption, SMTT(30) DEF SampleInv, TypeOK, PoolInv, Workers, Calling
<1>2. /\ First(reduced) \in Nat /\ First(reduced + 1) \in Nat
      /\ First(reduced + 1) <= BlockCount
  BY <1>1, FirstFacts
<1>3. /\ streamed[reduced] <= First(reduced + 1) - First(reduced)
      /\ counted <= First(reduced)
      /\ streamed[reduced] \in 0 .. BlockCount /\ counted \in 0 .. BlockCount
  BY <1>1 DEF SampleInv, RangeInv, ReduceInv, TypeOK
<1>4. QED
  BY <1>1, <1>2, <1>3, BlockCountAssumption

LEMMA StepReduce ==
    ASSUME SampleInv, Reduce
    PROVE  SampleInv'
<1>1. /\ cpc = "reduce" /\ reduced < thread_count /\ Calling
      /\ counted' = counted + streamed[reduced]
      /\ UNCHANGED <<thread_override, thread_count, rng_mode, pnorm_out, z, wpc,
                     cursor, ok, norm2, streamed, phase, size, taken,
                     finished, drawn>>
  BY DEF Reduce, planVars, workerVars, poolVars, Calling
<1>2. CASE Return(0) /\ UNCHANGED sumVars
  <2>1. TypeOK'
    BY <1>1, <1>2, ReducedWorker DEF Return, sumVars, SampleInv, TypeOK
  <2>2. PoolInv' /\ WorkerInv'
    BY <1>1, <1>2 DEF Return, SampleInv, PoolInv, WorkerInv, Calling
  <2>3. RangeInv' /\ ReduceInv' /\ CosetMatches'
    BY <1>2 DEF Return, RangeInv, ReduceInv, CosetMatches, Calling
  <2>4. QED
    BY <2>1, <2>2, <2>3 DEF SampleInv
<1>3. CASE /\ ~BadWorker(reduced)
           /\ acc' = acc + norm2[reduced] /\ reduced' = reduced + 1
           /\ UNCHANGED <<cpc, ret>>
  <2>1. /\ reduced \in Workers /\ ok[reduced]
        /\ acc' \in 0 .. NormMax
    BY <1>3, ReducedWorker, <1>1, NormsAssumption
    DEF BadWorker, SampleInv, TypeOK
  <2>2. TypeOK'
    BY <1>1, <1>3, <2>1, ReducedWorker DEF SampleInv, TypeOK
  <2>3. PoolInv' /\ WorkerInv'
    BY <1>1, <1>3 DEF SampleInv, PoolInv, WorkerInv, Calling
  <2>4. RangeInv'
    BY <1>1, <1>3, RangeKept DEF SampleInv, TypeOK, Calling
  <2>5. ReduceInv'
    <3>1. reduced' <= thread_count' /\ counted' <= First(reduced + 1)
      BY <1>1, <1>3, ReducedWorker DEF SampleInv, TypeOK
    <3>2. \A w \in Workers : w < reduced' => ok'[w]
      BY <1>1, <1>3, <2>1 DEF SampleInv, ReduceInv, TypeOK, Workers
    <3>3. First(reduced)' = First(reduced + 1)
      BY <1>1, <1>3 DEF First
    <3>4. \A w \in Workers : w < reduced + 1 => ok[w]
      BY <1>1, <1>3, <3>2
    <3>5. /\ reduced \in Nat /\ reduced + 1 \in Nat
          /\ reduced + 1 <= thread_count
          /\ First(reduced) \in Nat /\ First(reduced + 1) \in Nat
          /\ First(reduced) <= First(reduced + 1)
          /\ reduced < thread_count
      BY <1>1, <2>1, ReducedWorker, FirstFacts
      DEF SampleInv, TypeOK, PoolInv
    <3>6. \A r \in 0 .. First(reduced + 1) - 1 : drawn[r] \in Nat
      BY <1>1, <3>4, <3>5, NormsBelow
    <3>7. DrawnBetween(0, First(reduced + 1)) =
             DrawnBetween(0, First(reduced))
             + DrawnBetween(First(reduced), First(reduced + 1))
      BY <3>5, <3>6, SumJoin DEF DrawnBetween
    <3>8. /\ acc = DrawnBetween(0, First(reduced))
          /\ norm2[reduced] = DrawnBetween(First(reduced), First(reduced + 1))
      BY <1>1, <2>1 DEF SampleInv, ReduceInv, RangeInv
    <3>9. acc' = SumFunctionOnSet(drawn', 0 .. First(reduced)' - 1)
      BY <1>1, <1>3, <3>3, <3>7, <3>8 DEF DrawnBetween
    <3>10. QED
      BY <1>1, <1>3, <3>1, <3>2, <3>3, <3>9 DEF ReduceInv, DrawnBetween
  <2>6. CosetMatches'
    BY <1>1, <1>3 DEF CosetMatches
  <2>7. QED
    BY <2>2, <2>3, <2>4, <2>5, <2>6 DEF SampleInv
<1>4. QED
  BY <1>2, <1>3 DEF Reduce

LEMMA StepSucceed ==
    ASSUME SampleInv, Succeed
    PROVE  SampleInv'
<1>1. /\ cpc = "reduce" /\ reduced = thread_count /\ Calling
      /\ cpc' = "idle" /\ ret' = 1 /\ pnorm_out' = acc
      /\ UNCHANGED <<thread_override, thread_count, rng_mode, acc, reduced,
                     z, wpc, cursor, ok, norm2, streamed, counted, phase,
                     size, taken, finished, drawn>>
  BY DEF Succeed, Return, planVars, sumVars, workerVars, poolVars, Calling
<1>2. TypeOK'
  BY <1>1 DEF SampleInv, TypeOK
<1>3. PoolInv' /\ WorkerInv'
  BY <1>1 DEF SampleInv, PoolInv, WorkerInv, Calling
<1>4. RangeInv' /\ ReduceInv'
  BY <1>1 DEF RangeInv, ReduceInv, Calling
<1>5. CosetMatches'
  <2>1. ASSUME NEW c \in Cells PROVE z[c] = c
    <3>1. PICK r \in Blocks, i \in 0 .. 7 : c = ZCell(r, i)
      BY BlockOfCell
    <3>2. thread_count \in Nat \ {0} /\ thread_count <= MaxThreads
      BY <1>1 DEF SampleInv, PoolInv, TypeOK
    <3>3. PICK w \in 0 .. thread_count - 1 :
             Start(w, thread_count) <= r /\ r < Start(w + 1, thread_count)
      BY <3>2, OwnerExists
    <3>4. w \in Workers /\ w < thread_count /\ Owns(w, r)
      BY <3>2, <3>3, MaxThreadsAssumption DEF Workers, Owns, First
    <3>5. ok[w]
      BY <1>1, <3>4 DEF SampleInv, ReduceInv
    <3>6. r < cursor[w]
      BY <1>1, <3>4, <3>5 DEF SampleInv, RangeInv, Owns
    <3>7. z[ZCell(r, i)] = TauCell(r, i)
      BY <1>1, <3>4, <3>6 DEF SampleInv, RangeInv, Written
    <3>8. QED
      BY <3>1, <3>7 DEF ZCell, TauCell
  <2>2. QED
    BY <1>1, <2>1 DEF CosetMatches
<1>6. QED
  BY <1>2, <1>3, <1>4, <1>5 DEF SampleInv

\* Where a worker in its range is.
LEMMA RunningWorker ==
    ASSUME SampleInv, NEW w \in Workers, wpc[w] = "range"
    PROVE  /\ cpc \in {"own", "wait"} /\ Calling
           /\ w < thread_count /\ thread_count > 0
           /\ w = 0 => cpc = "own"
           /\ First(w) \in Nat /\ First(w + 1) \in Nat
           /\ First(w + 1) <= BlockCount
           /\ cursor[w] \in First(w) .. First(w + 1)
           /\ streamed[w] = cursor[w] - First(w)
           /\ EndOfRange(w) = First(w + 1)
           /\ cursor[w] < EndOfRange(w) =>
                 cursor[w] \in Blocks /\ Owns(w, cursor[w])
<1>1. cpc \in {"own", "wait"} /\ Calling /\ (w = 0 => cpc = "own")
  BY DEF SampleInv, TypeOK, WorkerInv, Calling
<1>2. w < thread_count /\ thread_count > 0 /\ w \in Nat
  BY <1>1, MaxThreadsAssumption DEF SampleInv, RangeInv, PoolInv, TypeOK,
     Workers
<1>3. /\ First(w) \in Nat /\ First(w + 1) \in Nat
      /\ First(w + 1) <= BlockCount /\ EndOfRange(w) = First(w + 1)
  BY <1>2, FirstFacts DEF SampleInv
<1>4. /\ cursor[w] \in First(w) .. First(w + 1)
      /\ streamed[w] = cursor[w] - First(w)
  BY <1>1, <1>2 DEF SampleInv, RangeInv
<1>5. cursor[w] < EndOfRange(w) =>
         cursor[w] \in Blocks /\ Owns(w, cursor[w])
  BY <1>2, <1>3, <1>4, BlockCountAssumption DEF Owns, Blocks
<1>6. QED
  BY <1>1, <1>2, <1>3, <1>4, <1>5

\* A worker that goes on or ends disturbs neither the pool nor the call.
LEMMA WorkerMoves ==
    ASSUME SampleInv, NEW w \in Workers, wpc[w] = "range",
           wpc' = wpc \/ wpc' = [wpc EXCEPT ![w] = "done"],
           UNCHANGED <<callVars, poolVars>>
    PROVE  /\ wpc' \in [Workers -> {"off", "range", "done"}]
           /\ wpc'[w] \in {"range", "done"}
           /\ \A v \in Workers : v # w => wpc'[v] = wpc[v]
           /\ PoolInv' /\ WorkerInv'
<1>1. /\ wpc' \in [Workers -> {"off", "range", "done"}]
      /\ wpc'[w] \in {"range", "done"}
      /\ \A v \in Workers : v # w => wpc'[v] = wpc[v]
  BY DEF SampleInv, TypeOK
<1>2. PoolInv'
  BY DEF SampleInv, PoolInv, callVars, planVars, poolVars, Calling
<1>3. \A v \in Workers : /\ wpc'[v] = "range" => wpc[v] = "range"
                         /\ wpc[v] = "off" => wpc'[v] = "off"
                         /\ wpc[v] = "done" => wpc'[v] = "done"
  BY <1>1
<1>4. UNCHANGED <<cpc, phase, taken, finished>>
  BY DEF callVars, poolVars
<1>5. 0 \in Workers
  BY MaxThreadsAssumption DEF Workers
<1>6. WorkerInv'
  BY <1>3, <1>4, <1>5 DEF SampleInv, WorkerInv
<1>7. QED
  BY <1>1, <1>2, <1>6

\* The range of the worker that moves is the only one to prove again.
LEMMA RangeMoves ==
    ASSUME SampleInv, NEW w \in Workers, wpc[w] = "range",
           wpc' = wpc \/ wpc' = [wpc EXCEPT ![w] = "done"],
           UNCHANGED <<callVars, poolVars>>,
           \A v \in Workers : v # w => /\ cursor'[v] = cursor[v]
                                       /\ ok'[v] = ok[v]
                                       /\ norm2'[v] = norm2[v]
                                       /\ streamed'[v] = streamed[v],
           \A r \in Blocks : drawn'[r] # drawn[r] =>
              r = cursor[w] /\ cursor[w] < EndOfRange(w),
           norm2'[w] = SumFunctionOnSet(drawn', First(w) .. cursor'[w] - 1),
           wpc'[w] = "done" /\ ~ok'[w] => GaveUp(w)',
           cursor'[w] \in First(w) .. First(w + 1),
           ok'[w] => cursor'[w] = First(w + 1) /\ wpc'[w] = "done",
           streamed'[w] <= First(w + 1) - First(w),
           wpc'[w] # "done" => streamed'[w] = cursor'[w] - First(w),
           \A v \in Workers, r \in Blocks :
              Owns(v, r) /\ r < cursor'[v] =>
                 /\ \A i \in 0 .. 7 : z'[ZCell(r, i)] = TauCell(r, i)
                 /\ drawn'[r] \in Norms,
           \A r \in Blocks : drawn'[r] # NotDrawn =>
              \E v \in Workers :
                 Owns(v, r) /\ (r < cursor'[v] \/ wpc'[v] = "done")
    PROVE  RangeInv'
<1>1. /\ \A v : First(v)' = First(v)
      /\ \A v, r : Owns(v, r)' <=> Owns(v, r)
      /\ thread_count' = thread_count /\ Calling
  BY RunningWorker DEF First, Owns, callVars, planVars
<1>2. \A v \in Workers : v # w => wpc'[v] = wpc[v]
  BY DEF SampleInv, TypeOK
<1>3. \A v \in Workers : v < thread_count =>
         /\ cursor'[v] \in First(v) .. First(v + 1)
         /\ ok'[v] => cursor'[v] = First(v + 1) /\ wpc'[v] = "done"
         /\ streamed'[v] <= First(v + 1) - First(v)
         /\ wpc'[v] # "done" => streamed'[v] = cursor'[v] - First(v)
  BY <1>1, <1>2 DEF SampleInv, RangeInv
<1>4. \A v \in Workers : v >= thread_count => wpc'[v] = "off"
  <2>1. ~(w >= thread_count)
    BY <1>1 DEF SampleInv, RangeInv
  <2>2. QED
    BY <1>1, <1>2, <2>1 DEF SampleInv, RangeInv
<1>5. ASSUME NEW v \in Workers, v # w, NEW r \in Blocks, Owns(v, r)
      PROVE  drawn'[r] = drawn[r]
  <2>1. SUFFICES ASSUME r = cursor[w], cursor[w] < EndOfRange(w) PROVE FALSE
    OBVIOUS
  <2>2. Owns(w, r) /\ thread_count > 0
    BY <2>1, RunningWorker
  <2>3. QED
    BY <1>5, <2>2, OwnerUnique DEF SampleInv
<1>6. ASSUME NEW v \in Workers, v < thread_count
      PROVE  norm2'[v] = SumFunctionOnSet(drawn', First(v) .. cursor'[v] - 1)
  <2>1. CASE v = w
    BY <2>1
  <2>2. CASE v # w
    <3>1. /\ First(v) \in Nat /\ First(v + 1) \in Nat
          /\ First(v + 1) <= BlockCount
          /\ cursor[v] \in First(v) .. First(v + 1)
          /\ norm2[v] = SumFunctionOnSet(drawn, First(v) .. cursor[v] - 1)
      <4>1. v \in Nat /\ thread_count > 0
        BY RunningWorker, MaxThreadsAssumption DEF Workers
      <4>2. QED
        BY <1>1, <1>6, <4>1, FirstFacts DEF SampleInv, RangeInv, DrawnBetween
    <3>2. ASSUME NEW r \in First(v) .. cursor[v] - 1
          PROVE  drawn[r] \in Nat /\ drawn[r] = drawn'[r]
      <4>1. r \in Blocks /\ Owns(v, r) /\ r < cursor[v]
        BY <1>6, <3>1, BlockCountAssumption DEF Blocks, Owns
      <4>2. drawn[r] \in Norms
        BY <1>1, <4>1 DEF SampleInv, RangeInv
      <4>3. QED
        BY <1>5, <2>2, <4>1, <4>2, NormsNatural
    <3>3. First(v) \in Int /\ cursor[v] \in Int
      BY <3>1
    <3>4. SumFunctionOnSet(drawn, First(v) .. cursor[v] - 1) =
             SumFunctionOnSet(drawn', First(v) .. cursor[v] - 1)
      BY <3>2, <3>3, DrawnSame
    <3>5. QED
      BY <2>2, <3>1, <3>4
  <2>3. QED
    BY <2>1, <2>2
<1>7. ASSUME NEW v \in Workers, v < thread_count, wpc'[v] = "done", ~ok'[v]
      PROVE  GaveUp(v)'
  <2>1. CASE v = w
    BY <1>7, <2>1
  <2>2. CASE v # w
    <3>1. GaveUp(v)
      BY <1>1, <1>2, <1>7, <2>2 DEF SampleInv, RangeInv
    <3>2. /\ First(v) \in Nat /\ First(v + 1) \in Nat
          /\ First(v + 1) <= BlockCount
          /\ cursor[v] \in First(v) .. First(v + 1)
      <4>1. v \in Nat /\ thread_count > 0
        BY RunningWorker, MaxThreadsAssumption DEF Workers
      <4>2. QED
        BY <1>1, <1>7, <4>1, FirstFacts DEF SampleInv, RangeInv
    <3>3. cursor[v] \in Blocks /\ Owns(v, cursor[v])
      BY <1>7, <3>1, <3>2, BlockCountAssumption DEF GaveUp, Blocks, Owns
    <3>4. drawn'[cursor[v]] = drawn[cursor[v]]
      BY <1>5, <2>2, <3>3
    <3>5. QED
      BY <1>1, <2>2, <3>1, <3>4 DEF GaveUp
  <2>3. QED
    BY <2>1, <2>2
<1>8. QED
  BY <1>1, <1>3, <1>4, <1>6, <1>7 DEF RangeInv, Written, DrawnBetween

LEMMA StepSampleBlock ==
    ASSUME SampleInv, NEW w \in Workers, NEW n2 \in Norms, SampleBlock(w, n2)
    PROVE  SampleInv'
<1> DEFINE b == cursor[w]
<1>1. /\ wpc[w] = "range" /\ b < EndOfRange(w)
      /\ streamed' = [streamed EXCEPT ![w] = @ + 1]
      /\ z' = WriteBlock(b) /\ drawn' = [drawn EXCEPT ![b] = n2]
      /\ UNCHANGED <<thread_override, callVars, ok, counted, poolVars>>
  BY DEF SampleBlock
<1>2. /\ cpc \in {"own", "wait"} /\ Calling /\ w < thread_count
      /\ First(w) \in Nat /\ First(w + 1) \in Nat
      /\ First(w + 1) <= BlockCount /\ b \in First(w) .. First(w + 1)
      /\ streamed[w] = b - First(w) /\ b < First(w + 1)
      /\ b \in Blocks /\ Owns(w, b)
  BY <1>1, RunningWorker
<1> HIDE DEF b
<1>3. \/ /\ wpc' = [wpc EXCEPT ![w] = "done"] /\ cursor' = cursor
         /\ norm2' = norm2
      \/ /\ wpc' = wpc /\ cursor' = [cursor EXCEPT ![w] = b + 1]
         /\ norm2' = [norm2 EXCEPT ![w] = @ + n2]
         /\ ~(NormMax - norm2[w] < n2)
  BY DEF SampleBlock, b
<1>4. /\ wpc' \in [Workers -> {"off", "range", "done"}]
      /\ PoolInv' /\ WorkerInv'
  BY <1>1, <1>3, WorkerMoves
<1>5. /\ z' \in [Cells -> Cells \cup {NoCell}]
      /\ \A c \in Cells : z'[c] = c \/ z'[c] = z[c]
      /\ \A i \in 0 .. 7 : z'[ZCell(b, i)] = ZCell(b, i)
  BY <1>1, <1>2, WriteBlockFacts DEF SampleInv, TypeOK
<1>6. streamed'[w] = b - First(w) + 1 /\ streamed'[w] \in 0 .. BlockCount
  <2>1. b - First(w) + 1 \in 0 .. BlockCount
    BY <1>2, BlockCountAssumption
  <2>2. streamed'[w] = streamed[w] + 1
    BY <1>1 DEF SampleInv, TypeOK
  <2>3. QED
    BY <1>2, <2>1, <2>2
<1>7. TypeOK'
  <2>1. streamed' \in [Workers -> 0 .. BlockCount]
    BY <1>1, <1>6 DEF SampleInv, TypeOK
  <2>2. cursor' \in [Workers -> 0 .. BlockCount]
    <3>1. b + 1 \in 0 .. BlockCount
      BY <1>2, BlockCountAssumption
    <3>2. QED
      BY <1>3, <3>1 DEF SampleInv, TypeOK
  <2>3. norm2' \in [Workers -> 0 .. NormMax]
    <3>1. ~(NormMax - norm2[w] < n2) => norm2[w] + n2 \in 0 .. NormMax
      BY NormsAssumption DEF SampleInv, TypeOK
    <3>2. QED
      BY <1>3, <3>1 DEF SampleInv, TypeOK
  <2>4. drawn' \in [Blocks -> Norms \cup {NotDrawn, Failed}]
    BY <1>1, <1>2 DEF SampleInv, TypeOK
  <2>5. QED
    BY <1>1, <1>4, <1>5, <2>1, <2>2, <2>3, <2>4
    DEF SampleInv, TypeOK, callVars, planVars, sumVars
<1>8. RangeInv'
  <2>9. /\ drawn'[b] = n2 /\ n2 \in Nat
        /\ \A r \in Blocks : r # b => drawn'[r] = drawn[r]
    BY <1>1, <1>2, NormsAssumption DEF SampleInv, TypeOK
  <2>1. \A v \in Workers : v # w => /\ cursor'[v] = cursor[v]
                                    /\ ok'[v] = ok[v]
                                    /\ norm2'[v] = norm2[v]
                                    /\ streamed'[v] = streamed[v]
    BY <1>1, <1>3 DEF SampleInv, TypeOK
  <2>2. cursor'[w] \in {b, b + 1} /\ (cursor'[w] = b => wpc'[w] = "done")
        /\ (wpc'[w] # "done" => cursor'[w] = b + 1)
    BY <1>2, <1>3 DEF SampleInv, TypeOK, b
  <2>3. ~ok'[w]
    <3>1. ~ok[w]
      BY <1>1, <1>2 DEF SampleInv, RangeInv
    <3>2. QED
      BY <1>1, <3>1
  <2>4. ASSUME NEW v \in Workers, NEW r \in Blocks,
               Owns(v, r), r < cursor'[v]
        PROVE  /\ \A i \in 0 .. 7 : z'[ZCell(r, i)] = TauCell(r, i)
               /\ drawn'[r] \in Norms
    <3>1. \A i \in 0 .. 7 : TauCell(r, i) = ZCell(r, i) /\ ZCell(r, i) \in Cells
      BY CellsOfBlock DEF TauCell, ZCell
    <3>2. CASE r = b
      BY <1>5, <2>9, <3>1, <3>2
    <3>3. CASE r # b
      <4>1. r < cursor[v]
        BY <1>2, <2>1, <2>2, <2>4, <3>3 DEF b, Blocks
      <4>2. /\ \A i \in 0 .. 7 : z[ZCell(r, i)] = TauCell(r, i)
            /\ drawn[r] \in Norms
        BY <1>2, <2>4, <4>1 DEF SampleInv, RangeInv, Written
      <4>3. QED
        BY <1>5, <2>9, <3>1, <3>3, <4>2
    <3>4. QED
      BY <3>2, <3>3
  <2>5. ASSUME NEW r \in Blocks, drawn'[r] # NotDrawn
        PROVE  \E v \in Workers :
                  Owns(v, r) /\ (r < cursor'[v] \/ wpc'[v] = "done")
    <3>1. CASE r = b
      BY <1>2, <2>2, <3>1
    <3>2. CASE r # b
      <4>1. drawn[r] # NotDrawn
        BY <1>1, <1>2, <2>5, <3>2 DEF SampleInv, TypeOK
      <4>2. PICK v \in Workers :
               Owns(v, r) /\ (r < cursor[v] \/ wpc[v] = "done")
        BY <1>2, <4>1 DEF SampleInv, RangeInv
      <4>3. r < cursor[v] => r < cursor'[v]
        BY <1>2, <2>1, <2>2 DEF b, Blocks
      <4>4. wpc[v] = "done" => wpc'[v] = "done"
        BY <1>3 DEF SampleInv, TypeOK
      <4>5. QED
        BY <4>2, <4>3, <4>4
    <3>3. QED
      BY <3>1, <3>2
  <2>6. /\ cursor'[w] \in First(w) .. First(w + 1)
        /\ streamed'[w] <= First(w + 1) - First(w)
        /\ wpc'[w] # "done" => streamed'[w] = cursor'[w] - First(w)
    BY <1>2, <1>6, <2>2
  <2>7. wpc' = wpc \/ wpc' = [wpc EXCEPT ![w] = "done"]
    BY <1>3
  <2>10. norm2[w] = SumFunctionOnSet(drawn', First(w) .. b - 1)
    <3>1. ASSUME NEW r \in First(w) .. b - 1
          PROVE  drawn[r] \in Nat /\ drawn[r] = drawn'[r]
      <4>1. r \in Blocks /\ Owns(w, r) /\ r < b /\ r # b
        BY <1>2, BlockCountAssumption DEF Blocks, Owns
      <4>2. drawn[r] \in Norms
        BY <1>2, <4>1 DEF SampleInv, RangeInv, b
      <4>3. QED
        BY <2>9, <4>1, <4>2, NormsNatural
    <3>2. First(w) \in Int /\ b \in Int
      BY <1>2
    <3>3. SumFunctionOnSet(drawn, First(w) .. b - 1) =
             SumFunctionOnSet(drawn', First(w) .. b - 1)
      BY <3>1, <3>2, DrawnSame
    <3>4. norm2[w] = SumFunctionOnSet(drawn, First(w) .. b - 1)
      BY <1>2 DEF SampleInv, RangeInv, DrawnBetween, b
    <3>5. QED
      BY <3>3, <3>4
  <2>11. norm2'[w] = SumFunctionOnSet(drawn', First(w) .. cursor'[w] - 1)
    <3>1. CASE cursor' = cursor /\ norm2' = norm2
      BY <2>10, <3>1 DEF b
    <3>2. CASE cursor' = [cursor EXCEPT ![w] = b + 1]
               /\ norm2' = [norm2 EXCEPT ![w] = @ + n2]
      <4>1. cursor'[w] - 1 = b /\ norm2'[w] = norm2[w] + n2
        BY <1>2, <3>2 DEF SampleInv, TypeOK
      <4>2. \A r \in First(w) .. b : drawn'[r] \in Nat
        <5>1. ASSUME NEW r \in First(w) .. b - 1
              PROVE  drawn'[r] \in Nat
          <6>1. r \in Blocks /\ Owns(w, r) /\ r < cursor'[w]
            <7>1. cursor'[w] = b + 1
              BY <1>2, <3>2 DEF SampleInv, TypeOK
            <7>2. QED
              BY <1>2, <7>1, BlockCountAssumption DEF Blocks, Owns
          <6>2. QED
            BY <2>4, <6>1, NormsNatural
        <5>2. QED
          BY <1>2, <2>9, <5>1
      <4>3. First(w) \in Int /\ b \in Int /\ First(w) <= b
        BY <1>2
      <4>4. SumFunctionOnSet(drawn', First(w) .. b) =
               SumFunctionOnSet(drawn', First(w) .. b - 1) + drawn'[b]
        BY <4>2, <4>3, SumNext
      <4>5. QED
        BY <2>9, <2>10, <4>1, <4>4
    <3>3. QED
      BY <1>3, <3>1, <3>2
  <2>12. wpc'[w] = "done" /\ ~ok'[w] => GaveUp(w)'
    <3>1. SUFFICES ASSUME wpc'[w] = "done" PROVE GaveUp(w)'
      OBVIOUS
    <3>2. /\ cursor'[w] = b /\ norm2'[w] = norm2[w]
          /\ NormMax - norm2[w] < n2
      BY <1>1, <3>1 DEF SampleBlock, SampleInv, TypeOK, b
    <3>3. First(w + 1)' = First(w + 1)
      BY <1>1 DEF First, callVars, planVars
    <3>4. QED
      BY <1>2, <2>9, <3>2, <3>3 DEF GaveUp
  <2>13. \A r \in Blocks : drawn'[r] # drawn[r] =>
            r = cursor[w] /\ cursor[w] < EndOfRange(w)
    BY <1>1, <2>9 DEF b
  <2>8. QED
    BY <1>1, <2>1, <2>3, <2>4, <2>5, <2>6, <2>7, <2>11, <2>12, <2>13, RangeMoves
<1>9. ReduceInv'
  BY <1>1, <1>2, ReduceKept DEF callVars, planVars, sumVars
<1>10. CosetMatches'
  BY <1>1, <1>2 DEF CosetMatches, callVars
<1>11. QED
  BY <1>4, <1>7, <1>8, <1>9, <1>10 DEF SampleInv

\* A worker that ends, its range done or not.
LEMMA WorkerEnds ==
    ASSUME SampleInv, NEW w \in Workers, wpc[w] = "range",
           wpc' = [wpc EXCEPT ![w] = "done"],
           UNCHANGED <<thread_override, callVars, z, cursor, norm2, counted,
                       poolVars>>,
           ok' \in [Workers -> BOOLEAN],
           \A v \in Workers : ok'[v] => ok[v] \/ v = w,
           \A v \in Workers : ok[v] => ok'[v],
           ok'[w] => cursor[w] = First(w + 1),
           \/ streamed' = streamed /\ drawn' = drawn /\ ok'[w]
           \/ /\ cursor[w] < EndOfRange(w)
              /\ streamed' = [streamed EXCEPT ![w] = @ + 1]
              /\ drawn' = [drawn EXCEPT ![cursor[w]] = Failed]
    PROVE  SampleInv'
<1> DEFINE b == cursor[w]
<1>1. /\ cpc \in {"own", "wait"} /\ Calling /\ w < thread_count
      /\ First(w) \in Nat /\ First(w + 1) \in Nat
      /\ First(w + 1) <= BlockCount /\ b \in First(w) .. First(w + 1)
      /\ streamed[w] = b - First(w)
      /\ b < EndOfRange(w) => b < First(w + 1) /\ b \in Blocks /\ Owns(w, b)
  BY RunningWorker
<1>2. /\ wpc' \in [Workers -> {"off", "range", "done"}]
      /\ wpc'[w] = "done" /\ PoolInv' /\ WorkerInv'
  BY WorkerMoves DEF SampleInv, TypeOK
<1>3. /\ streamed' \in [Workers -> 0 .. BlockCount]
      /\ streamed'[w] <= First(w + 1) - First(w)
      /\ \A v \in Workers : v # w => streamed'[v] = streamed[v]
  <2>1. b < EndOfRange(w) =>
           streamed[w] + 1 \in 0 .. BlockCount
           /\ streamed[w] + 1 <= First(w + 1) - First(w)
    <3> HIDE DEF b
    <3>1. QED
      BY <1>1, BlockCountAssumption
  <2>2. QED
    BY <1>1, <2>1 DEF SampleInv, TypeOK
<1>4. TypeOK'
  <2>1. drawn' \in [Blocks -> Norms \cup {NotDrawn, Failed}]
    BY DEF SampleInv, TypeOK
  <2>2. QED
    BY <1>2, <1>3, <2>1 DEF SampleInv, TypeOK, callVars, planVars, sumVars
<1>5. RangeInv'
  <2>1. \A v \in Workers : v # w => ok'[v] = ok[v]
    BY DEF SampleInv, TypeOK
  <2>5. \A r \in Blocks : drawn'[r] # drawn[r] =>
           r = cursor[w] /\ cursor[w] < EndOfRange(w)
    BY DEF SampleInv, TypeOK
  <2>2. ASSUME NEW v \in Workers, NEW r \in Blocks, Owns(v, r), r < cursor'[v]
        PROVE  /\ \A i \in 0 .. 7 : z'[ZCell(r, i)] = TauCell(r, i)
               /\ drawn'[r] \in Norms
    <3>1. Written(r) /\ drawn[r] \in Norms
      BY <1>1, <2>2 DEF SampleInv, RangeInv
    <3>2. drawn'[r] = drawn[r]
      <4>1. SUFFICES ASSUME r = cursor[w], cursor[w] < EndOfRange(w) PROVE FALSE
        BY <2>5
      <4>2. Owns(w, r) /\ thread_count > 0
        BY <4>1, RunningWorker
      <4>3. v = w
        BY <2>2, <4>2, OwnerUnique DEF SampleInv
      <4>4. QED
        BY <1>1, <2>2, <4>1, <4>3
    <3>3. QED
      BY <3>1, <3>2 DEF Written
  <2>6. norm2'[w] = SumFunctionOnSet(drawn', First(w) .. cursor'[w] - 1)
    <3>1. ASSUME NEW r \in First(w) .. b - 1
          PROVE  drawn[r] \in Nat /\ drawn[r] = drawn'[r]
      <4>1. r \in Blocks /\ Owns(w, r) /\ r < b /\ r # b
        BY <1>1, BlockCountAssumption DEF Blocks, Owns
      <4>2. drawn[r] \in Norms
        BY <1>1, <4>1 DEF SampleInv, RangeInv
      <4>3. QED
        BY <2>5, <4>1, <4>2, NormsNatural
    <3>2. First(w) \in Int /\ b \in Int
      BY <1>1
    <3>3. SumFunctionOnSet(drawn, First(w) .. b - 1) =
             SumFunctionOnSet(drawn', First(w) .. b - 1)
      <4> HIDE DEF b
      <4>1. QED
        BY <3>1, <3>2, DrawnSame
    <3>4. norm2[w] = SumFunctionOnSet(drawn, First(w) .. b - 1)
      BY <1>1 DEF SampleInv, RangeInv, DrawnBetween
    <3>5. QED
      BY <3>3, <3>4
  <2>7. wpc'[w] = "done" /\ ~ok'[w] => GaveUp(w)'
    <3>1. SUFFICES ASSUME ~ok'[w] PROVE GaveUp(w)'
      OBVIOUS
    <3>2. b < First(w + 1) /\ b \in Blocks
          /\ drawn' = [drawn EXCEPT ![b] = Failed]
      BY <1>1, <3>1
    <3>3. drawn'[b] = Failed
      BY <3>2 DEF SampleInv, TypeOK
    <3>4. First(w + 1)' = First(w + 1)
      BY DEF First, callVars, planVars
    <3>5. QED
      BY <3>2, <3>3, <3>4 DEF GaveUp
  <2>3. ASSUME NEW r \in Blocks, drawn'[r] # NotDrawn
        PROVE  \E v \in Workers :
                  Owns(v, r) /\ (r < cursor'[v] \/ wpc'[v] = "done")
    <3>1. CASE drawn[r] # NotDrawn
      <4>1. PICK v \in Workers :
               Owns(v, r) /\ (r < cursor[v] \/ wpc[v] = "done")
        BY <1>1, <3>1 DEF SampleInv, RangeInv
      <4>2. wpc[v] = "done" => wpc'[v] = "done"
        BY DEF SampleInv, TypeOK
      <4>3. QED
        BY <4>1, <4>2
    <3>2. CASE drawn[r] = NotDrawn
      <4>1. r = b /\ b < EndOfRange(w)
        BY <2>3, <3>2 DEF SampleInv, TypeOK
      <4>2. QED
        BY <1>1, <1>2, <4>1
    <3>3. QED
      BY <3>1, <3>2
  <2>4. QED
    BY <1>1, <1>2, <1>3, <2>1, <2>2, <2>3, <2>5, <2>6, <2>7, RangeMoves
<1>6. ReduceInv'
  BY <1>1, ReduceKept DEF callVars, planVars, sumVars
<1>7. CosetMatches'
  BY <1>1 DEF CosetMatches, callVars
<1>8. QED
  BY <1>2, <1>4, <1>5, <1>6, <1>7 DEF SampleInv

LEMMA StepWorker ==
    ASSUME SampleInv, NEW w \in Workers, WorkerStep(w)
    PROVE  SampleInv'
<1>1. CASE BlockFails(w)
  <2>1. wpc[w] = "range" /\ ~ok[w]
    BY <1>1, RunningWorker DEF BlockFails, SampleInv, RangeInv
  <2>2. QED
    BY <1>1, <2>1, WorkerEnds DEF BlockFails, SampleInv, TypeOK
<1>2. CASE RangeDone(w)
  <2>1. wpc[w] = "range" /\ cursor[w] = First(w + 1)
    BY <1>2, RunningWorker DEF RangeDone
  <2>2. /\ ok' \in [Workers -> BOOLEAN]
        /\ \A v \in Workers : ok'[v] => ok[v] \/ v = w
        /\ \A v \in Workers : ok[v] => ok'[v]
    BY <1>2 DEF RangeDone, SampleInv, TypeOK
  <2>3. QED
    BY <1>2, <2>1, <2>2, WorkerEnds DEF RangeDone
<1>3. QED
  BY <1>1, <1>2, StepSampleBlock DEF WorkerStep

LEMMA SampleStep == SampleInv /\ [Next]_vars => SampleInv'
<1> SUFFICES ASSUME SampleInv, [Next]_vars PROVE SampleInv'
  OBVIOUS
<1>1. CASE CallStep
  BY <1>1, StepDispatch, StepDispatchFails, StepOwnDone, StepWait, StepReduce,
     StepSucceed DEF CallStep
<1>2. CASE \E u \in 0 .. MaxThreads - 2 : PoolStep(u)
  BY <1>2, StepTakeJob, StepFinishJob DEF PoolStep
<1>3. CASE UNCHANGED vars
  <2>1. UNCHANGED <<thread_override, cpc, thread_count, rng_mode, acc, reduced,
                    pnorm_out, ret, z, wpc, cursor, ok, norm2, streamed,
                    counted, phase, size, taken, finished, drawn>>
    BY <1>3 DEF vars, callVars, planVars, sumVars, workerVars, poolVars
  <2>2. TypeOK' /\ PoolInv' /\ WorkerInv' /\ CosetMatches'
    BY <2>1 DEF SampleInv, TypeOK, PoolInv, WorkerInv, CosetMatches, Calling
  <2>3. /\ \A w : First(w)' = First(w)
        /\ \A w, r : Owns(w, r)' <=> Owns(w, r)
        /\ \A r : Written(r)' <=> Written(r)
        /\ \A a, b : DrawnBetween(a, b)' = DrawnBetween(a, b)
        /\ \A w : GaveUp(w)' <=> GaveUp(w)
        /\ Calling' <=> Calling
    BY <2>1 DEF First, Owns, Written, DrawnBetween, GaveUp, Calling
  <2>4. RangeInv'
    BY <2>1, <2>3 DEF SampleInv, RangeInv
  <2>5. ReduceInv'
    BY <2>1, <2>3 DEF SampleInv, ReduceInv
  <2>6. QED
    BY <2>2, <2>4, <2>5 DEF SampleInv
<1>4. QED
  BY <1>1, <1>2, <1>3, StepSetThreads, StepCall, StepWorker DEF Next

\* The inductive invariant holds in every reachable state: the ranges of
\* the workers tile the blocks, and the workers stay inside the call.
THEOREM SampleInvariance == Spec => []SampleInv
<1>1. QED
  BY SampleInit, SampleStep, PTL DEF Spec

\* Every variable keeps its type; in particular no sum of squared norms
\* passes UINT64_MAX, and no worker goes past the last block.
THEOREM SampleTypes == Spec => []TypeOK
<1>1. SampleInv => TypeOK
  BY DEF SampleInv
<1>2. QED
  BY <1>1, SampleInvariance, PTL

\* The call that returns 1 has sampled every coefficient for its own target
\* bit, for every degree and every number of threads.
THEOREM SampledForTarget == Spec => []CosetMatches
<1>1. SampleInv => CosetMatches
  BY DEF SampleInv
<1>2. QED
  BY <1>1, SampleInvariance, PTL

\* No worker runs in the buffers of a call that is not there to wait for it.
THEOREM WorkersInsideCall == Spec => []NoStrayWorker
<1>1. SampleInv => NoStrayWorker
  <2>1. SUFFICES ASSUME SampleInv, cpc \in {"idle", "dispatch", "reduce"}
                 PROVE  \A w \in Workers : wpc[w] # "range" /\ phase = "idle"
    BY DEF NoStrayWorker
  <2>2. phase = "idle"
    BY <2>1 DEF SampleInv, PoolInv
  <2>3. \A w \in Workers : wpc[w] # "range"
    BY <2>1 DEF SampleInv, WorkerInv
  <2>4. QED
    BY <2>2, <2>3
<1>2. QED
  BY <1>1, SampleInvariance, PTL

\* No block is drawn twice in a call: no two threads write one coefficient.
THEOREM BlocksDrawnOnce == Spec => RangesDisjoint
<1>1. ASSUME SampleInv, [Next]_vars, NEW r \in Blocks,
             drawn[r] # NotDrawn, cpc # "idle"
      PROVE  drawn'[r] = drawn[r]
  <2>1. Calling
    BY <1>1 DEF Calling
  <2>2. PICK v \in Workers : Owns(v, r) /\ (r < cursor[v] \/ wpc[v] = "done")
    BY <1>1, <2>1 DEF SampleInv, RangeInv
  <2>3. ASSUME NEW w \in Workers, wpc[w] = "range",
               cursor[w] < EndOfRange(w)
        PROVE  cursor[w] # r
    <3>1. SUFFICES ASSUME cursor[w] = r PROVE FALSE
      OBVIOUS
    <3>2. Owns(w, r) /\ thread_count > 0
      BY <1>1, <2>3, <3>1, RunningWorker
    <3>3. v = w
      BY <1>1, <2>2, <3>2, OwnerUnique DEF SampleInv
    <3>4. QED
      BY <2>2, <2>3, <3>1, <3>3 DEF Blocks
  <2>4. ASSUME NEW w \in Workers, WorkerStep(w)
        PROVE  drawn'[r] = drawn[r]
    BY <1>1, <2>3, <2>4 DEF WorkerStep, SampleBlock, BlockFails, RangeDone,
       SampleInv, TypeOK
  <2>5. ASSUME NEW u \in 0 .. MaxThreads - 2, PoolStep(u)
        PROVE  drawn'[r] = drawn[r]
    BY <2>5 DEF PoolStep, TakeJob, FinishJob
  <2>6. CASE CallStep
    BY <2>6 DEF CallStep, Dispatch, DispatchFails, OwnDone, Wait, Reduce,
       Succeed
  <2>7. CASE \/ \E t \in Settings : SetThreads(t)
             \/ \E mode \in {"worker", "block"} : Call(mode)
    BY <1>1, <2>7 DEF SetThreads, Call
  <2>8. CASE UNCHANGED vars
    BY <2>8 DEF vars
  <2>9. QED
    BY <1>1, <2>4, <2>5, <2>6, <2>7, <2>8 DEF Next
<1>2. SampleInv /\ [Next]_vars =>
         [\A r \in Blocks :
            drawn[r] # NotDrawn /\ cpc # "idle" => drawn'[r] = drawn[r]]_vars
  BY <1>1
<1>3. QED
  BY <1>2, SampleInvariance, PTL DEF Spec, RangesDisjoint

\* The sum of all norms, when all are there.
LEMMA TotalFacts ==
    ASSUME TypeOK
    PROVE  /\ Total = SumFunctionOnSet(drawn, 0 .. BlockCount - 1)
           /\ \A r \in Blocks : drawn[r] >= 0 <=> drawn[r] \in Norms
           /\ (\A r \in Blocks : drawn[r] >= 0) =>
                 /\ Total \in Nat
                 /\ \A a, b \in Nat : b <= BlockCount =>
                       /\ DrawnBetween(a, b) \in Nat
                       /\ DrawnBetween(a, b) <= Total
<1>1. DOMAIN drawn = 0 .. BlockCount - 1
  BY DEF TypeOK, Blocks
<1>2. Total = SumFunctionOnSet(drawn, 0 .. BlockCount - 1)
  BY <1>1, Zenon DEF Total, SumFunction
<1>3. \A r \in Blocks : drawn[r] >= 0 <=> drawn[r] \in Norms
  <2>1. \A r \in Blocks : drawn[r] \in Norms \/ drawn[r] \in {-1, -2}
    BY DEF TypeOK, NotDrawn, Failed
  <2>2. \A n \in Norms : n >= 0
    BY NormsNatural
  <2>3. ~(-1 >= 0) /\ ~(-2 >= 0)
    OBVIOUS
  <2>4. QED
    BY <2>1, <2>2, <2>3
<1>4. ASSUME \A r \in Blocks : drawn[r] >= 0
      PROVE  /\ Total \in Nat
             /\ \A a, b \in Nat : b <= BlockCount =>
                   DrawnBetween(a, b) \in Nat /\ DrawnBetween(a, b) <= Total
  <2>1. \A r \in 0 .. BlockCount - 1 : drawn[r] \in Nat
    BY <1>3, <1>4, NormsNatural DEF Blocks
  <2>2. IsFiniteSet(0 .. BlockCount - 1)
    BY FS_Interval, BlockCountAssumption
  <2>3. ASSUME NEW a \in Nat, NEW b \in Nat, b <= BlockCount
        PROVE  DrawnBetween(a, b) \in Nat /\ DrawnBetween(a, b) <= Total
    <3>1. a .. b - 1 \in SUBSET (0 .. BlockCount - 1)
      BY <2>3, BlockCountAssumption
    <3>2. /\ IsFiniteSet(a .. b - 1)
          /\ \A r \in a .. b - 1 : drawn[r] \in Nat
      BY <2>1, <3>1, FS_Interval
    <3>3. SumFunctionOnSet(drawn, a .. b - 1) \in Nat
      BY <3>2, SumType
    <3>4. SumFunctionOnSet(drawn, a .. b - 1)
             <= SumFunctionOnSet(drawn, 0 .. BlockCount - 1)
      BY <2>1, <2>2, <3>1, SumPart
    <3>5. QED
      BY <1>2, <3>3, <3>4 DEF DrawnBetween
  <2>4. Total \in Nat
    BY <1>2, <2>1, <2>2, SumType
  <2>5. QED
    BY <2>3, <2>4
<1>5. QED
  BY <1>2, <1>3, <1>4

\* A worker that the reduction stops at shows a block that failed, or a sum
\* that does not fit.
LEMMA StopsForReason ==
    ASSUME SampleInv, cpc = "reduce", reduced < thread_count,
           BadWorker(reduced), \A r \in Blocks : drawn[r] >= 0
    PROVE  Total > NormMax
<1>1. /\ reduced \in Workers /\ reduced \in Nat /\ Calling /\ TypeOK
      /\ First(reduced) \in Nat /\ First(reduced + 1) \in Nat
      /\ First(reduced + 1) <= BlockCount
      /\ cursor[reduced] \in First(reduced) .. First(reduced + 1)
      /\ wpc[reduced] = "done"
      /\ norm2[reduced] = DrawnBetween(First(reduced), cursor[reduced])
  <2>1. reduced \in Workers /\ Calling /\ TypeOK
    BY ReducedWorker DEF Calling, SampleInv
  <2>2. QED
    BY <2>1, ReducedWorker
    DEF SampleInv, RangeInv, WorkerInv, TypeOK
<1>2. \A a, b \in Nat : b <= BlockCount =>
         DrawnBetween(a, b) \in Nat /\ DrawnBetween(a, b) <= Total
  BY <1>1, TotalFacts
<1>3. Total \in Nat /\ NormMax \in Nat /\ BlockCount \in Nat
  BY <1>1, TotalFacts, NormsAssumption, BlockCountAssumption
<1>4. \A r \in Blocks : drawn[r] \in Norms /\ drawn[r] \in Nat
  BY <1>1, TotalFacts, NormsNatural
<1>5. CASE ~ok[reduced]
  <2> DEFINE a == First(reduced)
             b == cursor[reduced]
  <2>1. GaveUp(reduced)
    BY <1>1, <1>5 DEF SampleInv, RangeInv
  <2>2. b < First(reduced + 1) /\ b \in Blocks /\ b \in Nat /\ b + 1 <= BlockCount
    BY <1>1, <1>3, <2>1 DEF GaveUp, Blocks
  <2>3. NormMax - norm2[reduced] < drawn[b]
    <3>1. drawn[b] # Failed
      BY <1>4, <2>2 DEF Failed
    <3>2. QED
      BY <2>1, <3>1 DEF GaveUp
  <2>4. a \in Nat /\ a <= b
    BY <1>1
  <2>5. DrawnBetween(a, b + 1) = DrawnBetween(a, b) + drawn[b]
    <3> HIDE DEF a, b
    <3>1. \A r \in a .. b : drawn[r] \in Nat
      BY <1>3, <1>4, <2>2, <2>4 DEF Blocks
    <3>2. SumFunctionOnSet(drawn, a .. b) =
             SumFunctionOnSet(drawn, a .. b - 1) + drawn[b]
      BY <2>2, <2>4, <3>1, SumNext
    <3>3. (b + 1) - 1 = b
      BY <2>2
    <3>4. QED
      BY <3>2, <3>3, Zenon DEF DrawnBetween
  <2>6. DrawnBetween(a, b + 1) <= Total
    BY <1>2, <2>2, <2>4
  <2>7. norm2[reduced] = DrawnBetween(a, b)
    BY <1>1
  <2>8. DrawnBetween(a, b) \in Nat /\ drawn[b] \in Nat
    <3> HIDE DEF a, b
    <3>1. b \in Nat /\ b <= BlockCount
      BY <1>3, <2>2
    <3>2. DrawnBetween(a, b) \in Nat
      BY <1>2, <2>4, <3>1, Zenon
    <3>3. QED
      BY <1>4, <2>2, <3>2
  <2> HIDE DEF a, b
  <2>9. QED
    BY <1>3, <2>3, <2>5, <2>6, <2>7, <2>8
<1>6. CASE ok[reduced]
  <2> DEFINE a == First(reduced)
             c == First(reduced + 1)
  <2>1. NormMax - acc < norm2[reduced]
    BY <1>6 DEF BadWorker
  <2>2. /\ acc = DrawnBetween(0, a)
        /\ norm2[reduced] = DrawnBetween(a, c)
    BY <1>1, <1>6 DEF SampleInv, ReduceInv, RangeInv
  <2>3. a \in Nat /\ c \in Nat /\ a <= c /\ c <= BlockCount /\ a <= BlockCount
    BY <1>1, <1>3
  <2> HIDE DEF a, c
  <2>4. \A r \in 0 .. c - 1 : drawn[r] \in Nat
    BY <1>3, <1>4, <2>3 DEF Blocks
  <2>5. DrawnBetween(0, c) = DrawnBetween(0, a) + DrawnBetween(a, c)
    BY <2>3, <2>4, SumJoin DEF DrawnBetween
  <2>6. /\ DrawnBetween(0, c) <= Total /\ DrawnBetween(0, a) \in Nat
        /\ DrawnBetween(a, c) \in Nat
    BY <1>2, <2>3
  <2>7. QED
    BY <1>3, <2>1, <2>2, <2>5, <2>6
<1>7. QED
  BY <1>5, <1>6

\* The call that reduces its workers returns 1 exactly when every block was
\* sampled and the sum of the norms fits, and then it returns that sum, for
\* every number of threads and every order in which they ran.
THEOREM ResultsExact == Spec => ResultExact
<1> DEFINE Stopped == cpc = "reduce" /\ cpc' = "idle"
           Exact == /\ ret' = 1 <=> /\ \A r \in Blocks : drawn[r] >= 0
                                    /\ Total <= NormMax
                    /\ ret' = 1 => pnorm_out' = Total
<1>1. ASSUME SampleInv, [Next]_vars, Stopped
      PROVE  Exact
  <2>1. TypeOK /\ Calling /\ NormMax \in Nat
    BY <1>1, NormsAssumption DEF SampleInv, Calling
  <2>2. CASE Reduce
    <3>1. ret' = 0 /\ BadWorker(reduced) /\ reduced < thread_count
      BY <1>1, <2>2 DEF Reduce, Return
    <3>2. (\A r \in Blocks : drawn[r] >= 0) => ~(Total <= NormMax)
      <4>1. SUFFICES ASSUME \A r \in Blocks : drawn[r] >= 0
                     PROVE  ~(Total <= NormMax)
        OBVIOUS
      <4>2. Total > NormMax
        BY <1>1, <3>1, <4>1, StopsForReason
      <4>3. Total \in Nat
        BY <2>1, <4>1, TotalFacts
      <4>4. QED
        BY <2>1, <4>2, <4>3
    <3>3. QED
      BY <3>1, <3>2
  <2>3. CASE Succeed
    <3>1. /\ ret' = 1 /\ pnorm_out' = acc /\ reduced = thread_count
          /\ thread_count \in Nat /\ thread_count > 0
      BY <1>1, <2>1, <2>3 DEF Succeed, Return, TypeOK, SampleInv, PoolInv
    <3>2. First(thread_count) = BlockCount
      BY <2>1, <3>1, FirstFacts
    <3>3. \A w \in Workers : w < thread_count => ok[w]
      BY <1>1, <2>1, <3>1 DEF SampleInv, ReduceInv
    <3>4. \A r \in Blocks : drawn[r] \in Norms
      BY <1>1, <2>1, <3>1, <3>2, <3>3, NormsBelow DEF Blocks
    <3>5. acc = Total /\ acc <= NormMax
      BY <1>1, <2>1, <3>1, <3>2, TotalFacts
      DEF SampleInv, ReduceInv, DrawnBetween, TypeOK
    <3>6. QED
      BY <2>1, <3>1, <3>4, <3>5, TotalFacts
  <2>4. CASE UNCHANGED vars
    BY <1>1, <2>4 DEF vars, callVars
  <2>5. CASE \/ \E t \in Settings : SetThreads(t)
             \/ \E mode \in {"worker", "block"} : Call(mode)
             \/ Dispatch \/ DispatchFails \/ OwnDone \/ Wait
    BY <1>1, <2>5 DEF SetThreads, Call, Dispatch, DispatchFails, OwnDone, Wait
  <2>6. CASE \/ \E w \in Workers : WorkerStep(w)
             \/ \E u \in 0 .. MaxThreads - 2 : PoolStep(u)
    <3>1. UNCHANGED callVars
      BY <2>6 DEF WorkerStep, SampleBlock, BlockFails, RangeDone, PoolStep,
         TakeJob, FinishJob
    <3>2. QED
      BY <1>1, <3>1 DEF callVars
  <2>7. QED
    BY <1>1, <2>2, <2>3, <2>4, <2>5, <2>6 DEF Next, CallStep
<1>2. SampleInv /\ [Next]_vars => [Stopped => Exact]_vars
  BY <1>1
<1>3. QED
  BY <1>2, SampleInvariance, PTL DEF Spec, ResultExact
=============================================================================
