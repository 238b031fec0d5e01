--------------------------- MODULE CmnPoolProofs ---------------------------
(***************************************************************************)
(* Proofs about CmnPool, for every number of threads, every width of the   *)
(* counters and every set of jobs: its invariants, that it implements the  *)
(* fork and join of its header, and that the way it is used is a case of   *)
(* SettledSpec.                                                            *)
(***************************************************************************)
EXTENDS CmnPool, FiniteSetTheorems, TLAPS

\* The groups of variables that the actions leave unchanged.
USE DEF jobVars, stateVars, acctVars, argVars

\* The counters stay in range, and a bump changes the generation.
LEMMA BumpFacts ==
    ASSUME NEW g \in Generations
    PROVE  Bump(g) \in Generations /\ Bump(g) # g
BY UintMaxAssumption, MaxThreadsAssumption DEF Bump, Generations

LEMMA DropFacts ==
    ASSUME NEW r \in 0 .. UintMax
    PROVE  Drop(r) \in 0 .. UintMax /\ (r # 0 => Drop(r) = r - 1)
BY UintMaxAssumption DEF Drop

-----------------------------------------------------------------------------
(***************************************************************************)
(* Type correctness: it is inductive by itself.                            *)
(***************************************************************************)
LEMMA TypeThread ==
    ASSUME TypeOK, NEW u \in Slots, Thread(u)
    PROVE  TypeOK'
<1> USE UintMaxAssumption, MaxThreadsAssumption
<1>1. CASE ThreadExit(u)
  BY <1>1 DEF TypeOK, ThreadExit, poolVars, slotVars, callVars, ThreadAt
<1>2. CASE TakeGeneration(u)
  BY <1>2 DEF TypeOK, TakeGeneration, poolVars, slotVars, callVars, ThreadAt
<1>3. CASE TestActive(u)
  BY <1>3 DEF TypeOK, TestActive, poolVars, slotVars, callVars, ThreadAt
<1>4. CASE LoadJob(u)
  BY <1>4 DEF TypeOK, LoadJob, poolVars, slotVars, callVars, ThreadAt, Once
<1>5. CASE FinishJob(u)
  BY <1>5 DEF TypeOK, FinishJob, poolVars, callVars, ThreadAt
<1>6. CASE CountDown(u)
  BY <1>6, DropFacts DEF TypeOK, CountDown, slotVars, callVars, ThreadAt
<1>7. QED
  BY <1>1, <1>2, <1>3, <1>4, <1>5, <1>6 DEF Thread

\* What cmn_pool_reset_state and cmn_pool_shutdown leave has its type.
LEMMA TypeClear ==
    ASSUME ClearPool
    PROVE  /\ job' = NoJob
           /\ generation' \in Generations
           /\ thread_count' = 0 /\ active_threads' = 0 /\ remaining' = 0
           /\ stopping' \in BOOLEAN
           /\ w_stopping' \in [Slots -> BOOLEAN]
<1>1. /\ job' = NoJob /\ thread_count' = 0
      /\ active_threads' = 0 /\ remaining' = 0
  BY Zenon DEF ClearPool
<1>2. generation' = 0
  BY Zenon DEF ClearPool
<1>3. stopping' \in BOOLEAN /\ w_stopping' \in [Slots -> BOOLEAN]
  BY Zenon DEF ClearPool
<1>4. QED
  BY <1>1, <1>2, <1>3, UintMaxAssumption DEF Generations

LEMMA TypeCaller ==
    ASSUME TypeOK, Caller
    PROVE  TypeOK'
<1> USE UintMaxAssumption, MaxThreadsAssumption
<1>1. CASE CreateThread
  BY <1>1 DEF TypeOK, CreateThread, callVars, ThreadAt, Slots,
     StartGeneration, StartsMore
<1>2. CASE CreateFails
  BY <1>2, BumpFacts DEF TypeOK, CreateFails, threadVars, CallerAt, StopFrom
<1>3. CASE GrowDone
  BY <1>3 DEF TypeOK, GrowDone, Return, poolVars, slotVars, threadVars,
     CallerAt
<1>4. CASE StoreJob
  BY <1>4 DEF TypeOK, StoreJob, slotVars, threadVars
<1>5. CASE StoreActive
  BY <1>5 DEF TypeOK, StoreActive, slotVars, threadVars
<1>6. CASE StoreRemaining
  BY <1>6 DEF TypeOK, StoreRemaining, slotVars, threadVars
<1>7. CASE PublishBump
  BY <1>7, BumpFacts DEF TypeOK, PublishBump, Return, slotVars, threadVars,
     CallerAt
<1>8. CASE WaitDone
  <2>1. Account \in {"unavailable", "exact", "stale"}
    BY Zenon DEF Account
  <2>2. cpu_fresh' \in [Slots -> BOOLEAN] /\ outstanding' \in BOOLEAN
    BY <1>8, Zenon DEF WaitDone
  <2>3. /\ ran' \in [Slots -> 0 .. 2]
        /\ cpc' \in CallerAt /\ ret' \in {0, 1}
    BY <1>8 DEF WaitDone, Return, CallerAt
  <2>4. /\ job' \in Jobs \cup {NoJob} /\ active_threads' \in 0 .. MaxThreads
        /\ last' \in {"none", "unavailable", "exact", "stale"}
    BY <1>8, <2>1 DEF TypeOK, WaitDone
  <2>5. UNCHANGED <<generation, thread_count, remaining, initialized,
                    stopping, accounting, dispatch_accounting,
                    atexit_registered, w_stopping, req_threads, req_job,
                    old_count, pending, pc, seen, arg, timed>>
    BY <1>8, Zenon DEF WaitDone, threadVars
  <2>6. QED
    BY <2>2, <2>3, <2>4, <2>5 DEF TypeOK
<1>9. CASE SurplusJoined
  BY <1>9 DEF TypeOK, SurplusJoined, JoinFrom, FreeSlotsFrom, Return, CallerAt,
              ThreadAt, Generations
<1>10. CASE FailedJoined
  BY <1>10 DEF TypeOK, FailedJoined, JoinFrom, FreeSlotsFrom, Return, CallerAt,
               ThreadAt, Generations
<1>11. CASE AllJoined
  <2>1. ClearPool /\ JoinFrom(0) /\ Return(1)
    BY <1>11, Zenon DEF AllJoined
  <2>2. initialized' \in BOOLEAN
    BY <1>11, Zenon DEF AllJoined
  <2>3. UNCHANGED <<accounting, dispatch_accounting, last, atexit_registered,
                    cpu_fresh, req_threads, req_job, old_count, pending,
                    outstanding, ran>>
    BY <1>11, Zenon DEF AllJoined
  <2>4. QED
    BY <2>1, <2>2, <2>3, TypeClear
    DEF TypeOK, JoinFrom, Return, CallerAt, ThreadAt, Generations
<1>12. QED
  BY <1>1, <1>2, <1>3, <1>4, <1>5, <1>6, <1>7, <1>8, <1>9, <1>10, <1>11
  DEF Caller

\* The head of cmn_pool_grow, common to the calls that may grow the pool.
LEMMA TypeEnterGrow ==
    ASSUME TypeOK, EnterGrow
    PROVE  /\ job' \in Jobs \cup {NoJob}
           /\ generation' \in Generations
           /\ thread_count' \in 0 .. MaxThreads
           /\ active_threads' \in 0 .. MaxThreads
           /\ remaining' \in 0 .. UintMax
           /\ initialized' \in BOOLEAN /\ stopping' \in BOOLEAN
           /\ atexit_registered' \in BOOLEAN
           /\ w_stopping' \in [Slots -> BOOLEAN]
           /\ old_count' \in 0 .. MaxThreads
<1> USE UintMaxAssumption, MaxThreadsAssumption
<1>1. CASE initialized
  BY <1>1 DEF TypeOK, EnterGrow
<1>2. CASE ~initialized
  <2>1. ClearPool /\ old_count' = thread_count
    BY <1>2, Zenon DEF EnterGrow
  <2>2. initialized' \in BOOLEAN /\ atexit_registered' \in BOOLEAN
    BY Zenon DEF EnterGrow
  <2>3. QED
    BY <2>1, <2>2, TypeClear DEF TypeOK
<1>3. QED
  BY <1>1, <1>2

LEMMA TypeDispatch ==
    ASSUME TypeOK, NEW j \in Jobs, NEW a \in 1 .. MaxThreads,
           CallDispatch(j, a)
    PROVE  TypeOK'
BY TypeEnterGrow DEF TypeOK, CallDispatch, threadVars, CallerAt

LEMMA TypeShrink ==
    ASSUME TypeOK, NEW t \in 0 .. MaxThreads, CallShrink(t)
    PROVE  TypeOK'
BY BumpFacts DEF TypeOK, CallShrink, threadVars, CallerAt,
   StopFrom

LEMMA TypeEnsure ==
    ASSUME TypeOK, NEW t \in 0 .. MaxThreads, CallEnsure(t)
    PROVE  TypeOK'
<1>1. CASE initialized /\ t < thread_count
  BY <1>1, TypeShrink DEF CallEnsure
<1>2. CASE ~(initialized /\ t < thread_count)
  BY <1>2, TypeEnterGrow DEF TypeOK, CallEnsure, threadVars, CallerAt
<1>3. QED
  BY <1>1, <1>2

LEMMA TypeRequests ==
    ASSUME TypeOK, Requests
    PROVE  TypeOK'
<1>1. ASSUME NEW j, NEW a, RefuseDispatch(j, a) PROVE TypeOK'
  BY <1>1 DEF TypeOK, RefuseDispatch, poolVars, slotVars, threadVars
<1>2. ASSUME NEW t, RefuseEnsure(t) PROVE TypeOK'
  BY <1>2 DEF TypeOK, RefuseEnsure, poolVars, slotVars, threadVars
<1>3. CASE RefuseAtexit
  BY <1>3 DEF TypeOK, RefuseAtexit, poolVars, slotVars, threadVars
<1>4. ASSUME NEW t \in 0 .. MaxThreads, Resize(t) PROVE TypeOK'
  BY <1>4, TypeShrink, TypeEnsure DEF Resize
<1>5. CASE CallWait
  BY <1>5 DEF TypeOK, CallWait, poolVars, slotVars, threadVars, CallerAt
<1>6. CASE CallShutdown
  BY <1>6, BumpFacts DEF TypeOK, CallShutdown, slotVars, threadVars, CallerAt
<1>7. ASSUME NEW b \in BOOLEAN, SetAccounting(b) PROVE TypeOK'
  BY <1>7 DEF TypeOK, SetAccounting, slotVars, threadVars
<1>8. QED
  BY <1>1, <1>2, <1>3, <1>4, <1>5, <1>6, <1>7 DEF Requests

LEMMA TypeInit == Init => TypeOK
<1> SUFFICES ASSUME Init PROVE TypeOK
  OBVIOUS
<1> USE UintMaxAssumption, MaxThreadsAssumption
<1>1. /\ w_stopping \in [Slots -> BOOLEAN] /\ cpu_fresh \in [Slots -> BOOLEAN]
      /\ timed \in [Slots -> BOOLEAN]
      /\ initialized \in BOOLEAN /\ stopping \in BOOLEAN
      /\ accounting \in BOOLEAN /\ dispatch_accounting \in BOOLEAN
      /\ atexit_registered \in BOOLEAN /\ outstanding \in BOOLEAN
  BY Zenon DEF Init
<1>2. /\ pc \in [Slots -> ThreadAt] /\ seen \in [Slots -> Generations]
      /\ arg \in [Slots -> Jobs \cup {NoJob}] /\ ran \in [Slots -> 0 .. 2]
  BY DEF Init, ThreadAt, Generations
<1>3. /\ job = NoJob /\ generation = 0 /\ thread_count = 0
      /\ active_threads = 0 /\ remaining = 0 /\ last = "none" /\ cpc = "idle"
      /\ req_threads = 0 /\ req_job = NoJob /\ old_count = 0
      /\ pending = {} /\ ret = 1
  BY Zenon DEF Init
<1>4. QED
  BY <1>1, <1>2, <1>3 DEF TypeOK, Generations, CallerAt

LEMMA TypeStep == TypeOK /\ [SettledNext]_vars => TypeOK'
<1> SUFFICES ASSUME TypeOK, [SettledNext]_vars PROVE TypeOK'
  OBVIOUS
<1>1. CASE Threads
  BY <1>1, TypeThread DEF Threads
<1>2. CASE Caller
  BY <1>2, TypeCaller
<1>3. CASE Requests
  BY <1>3, TypeRequests
<1>4. ASSUME NEW j \in Jobs, NEW a \in 1 .. MaxThreads, CallDispatch(j, a)
      PROVE  TypeOK'
  BY <1>4, TypeDispatch
<1>5. CASE UNCHANGED vars
  BY <1>5 DEF TypeOK, vars, poolVars, slotVars, callVars, threadVars
<1>6. QED
  BY <1>1, <1>2, <1>3, <1>4, <1>5 DEF SettledNext

\* Every variable of the pool keeps its type: in particular no counter
\* leaves the range of an unsigned.
THEOREM TypeCorrect == SettledSpec => []TypeOK
<1>1. QED
  BY TypeInit, TypeStep, PTL DEF SettledSpec

-----------------------------------------------------------------------------
(***************************************************************************)
(* The inductive invariant, one lemma per action.                          *)
(***************************************************************************)

\* The set that remaining counts is finite, and empty when the count is 0.
LEMMA UnfinishedFacts ==
    /\ IsFiniteSet(Unfinished)
    /\ Unfinished # {} <=> Cardinality(Unfinished) # 0
<1>1. IsFiniteSet(Slots)
  BY MaxThreadsAssumption, FS_Interval DEF Slots
<1>2. IsFiniteSet(Unfinished)
  BY <1>1, FS_Subset DEF Unfinished
<1>3. QED
  BY <1>2, FS_EmptySet

LEMMA StepThreadExit ==
    ASSUME IInv, TypeOK', NEW u \in Slots, ThreadExit(u)
    PROVE  IInv'
<1>1. SlotInv'
  BY DEF IInv, SlotInv, ThreadExit, poolVars, slotVars, callVars, Stopped
<1>2. CallInv'
  BY DEF IInv, CallInv, SlotInv, ThreadExit, poolVars, callVars, Stopped
<1>3. RestInv'
  BY DEF IInv, RestInv, Stored, InJob, ThreadExit, poolVars, slotVars,
     callVars
<1>4. ForkInv'
  BY DEF IInv, TypeOK, ForkInv, InJob, Forked, Before, Inside, After, Surplus,
     Unfinished, ThreadExit, poolVars, slotVars, callVars
<1>5. (ShutInv /\ AccountExact)'
  BY DEF IInv, ShutInv, AccountExact, ThreadExit, poolVars, callVars
<1>6. QED
  BY <1>1, <1>2, <1>3, <1>4, <1>5 DEF IInv

LEMMA StepTakeGeneration ==
    ASSUME IInv, TypeOK', NEW u \in Slots, TakeGeneration(u)
    PROVE  IInv'
<1>1. SlotInv'
  BY DEF IInv, SlotInv, TakeGeneration, poolVars, slotVars, callVars
<1>2. CallInv'
  BY DEF IInv, CallInv, Settled, Quiet, TakeGeneration, poolVars, callVars
<1>3. RestInv'
  BY DEF IInv, RestInv, Stored, InJob, TakeGeneration, poolVars, slotVars,
     callVars
<1>4. ForkInv'
  BY Zenon DEF IInv, TypeOK, ForkInv, SlotInv, InJob, Forked, Before, Inside,
     After, Surplus, Unfinished, TakeGeneration, poolVars, slotVars, callVars,
     Stopped
<1>5. (ShutInv /\ AccountExact)'
  BY DEF IInv, ShutInv, AccountExact, TakeGeneration, poolVars, callVars
<1>6. QED
  BY <1>1, <1>2, <1>3, <1>4, <1>5 DEF IInv

LEMMA StepTestActive ==
    ASSUME IInv, TypeOK', NEW u \in Slots, TestActive(u)
    PROVE  IInv'
<1>1. SlotInv'
  BY DEF IInv, SlotInv, TestActive, poolVars, slotVars, callVars
<1>2. CallInv'
  BY DEF IInv, CallInv, Settled, Quiet, TestActive, poolVars, callVars
<1>3. RestInv'
  BY DEF IInv, TypeOK, Slots, RestInv, CallInv, Stored, InJob, Settled, Quiet,
     TestActive, poolVars, slotVars, callVars, IsActive
<1>4. ForkInv'
  <2>1. UNCHANGED <<ran, active_threads, outstanding, initialized>>
    BY DEF TestActive, poolVars, callVars
  <2>2. SUFFICES ASSUME Forked PROVE ForkInv'
    BY <2>1 DEF ForkInv, Forked
  <2>3. Unfinished' = Unfinished
    BY <2>1, <2>2 DEF IInv, TestActive, Unfinished, InJob, ForkInv, Before,
       Inside, After
  <2>4. \A v \in Slots : IF v < active_threads
                         THEN (Before(v) \/ Inside(v) \/ After(v))'
                         ELSE Surplus(v)'
    BY <2>2 DEF IInv, TestActive, ForkInv, Before, Inside, After, Surplus,
       poolVars, slotVars, callVars, IsActive
  <2>5. QED
    BY <2>2, <2>3, <2>4 DEF IInv, ForkInv, TestActive, poolVars, callVars
<1>5. (ShutInv /\ AccountExact)'
  BY DEF IInv, ShutInv, AccountExact, TestActive, poolVars, callVars
<1>6. QED
  BY <1>1, <1>2, <1>3, <1>4, <1>5 DEF IInv

LEMMA StepLoadJob ==
    ASSUME IInv, TypeOK', NEW u \in Slots, LoadJob(u)
    PROVE  IInv'
<1>1. SlotInv'
  BY DEF IInv, SlotInv, LoadJob, poolVars, slotVars, callVars
<1>2. CallInv'
  BY DEF IInv, CallInv, Settled, Quiet, LoadJob, poolVars, callVars
<1>3. RestInv'
  BY DEF IInv, RestInv, InJob, LoadJob, callVars
<1>4. ForkInv'
  <2>1. SUFFICES ASSUME Forked PROVE ForkInv'
    BY DEF ForkInv, Forked, LoadJob, poolVars, callVars
  <2>2. u < active_threads /\ Before(u)
    BY <2>1 DEF IInv, ForkInv, LoadJob, Inside, After, Surplus
  <2>3. remaining # 0
    <3>1. u \in Unfinished
      BY <2>2 DEF Unfinished, Before
    <3>2. QED
      BY <2>1, <3>1, UnfinishedFacts DEF IInv, ForkInv
  <2>4. Unfinished' = Unfinished
    BY DEF LoadJob, Unfinished, InJob, poolVars
  <2>5. timed'[u] = dispatch_accounting
    BY <2>1, <2>3 DEF IInv, LoadJob, TypeOK, ForkInv
  <2>6. Inside(u)'
    BY <2>1, <2>2, <2>5, JobsAssumption DEF IInv, LoadJob, TypeOK, Once,
       Before, Inside, poolVars, callVars, ForkInv
  <2>7. \A v \in Slots : IF v < active_threads
                         THEN (Before(v) \/ Inside(v) \/ After(v))'
                         ELSE Surplus(v)'
    BY <2>1, <2>6 DEF IInv, LoadJob, TypeOK, ForkInv, Before, Inside, After,
       Surplus, poolVars, slotVars
  <2>8. QED
    BY <2>1, <2>4, <2>7 DEF IInv, ForkInv, LoadJob, poolVars, callVars
<1>5. (ShutInv /\ AccountExact)'
  <2>1. initialized
    BY DEF IInv, LoadJob, SlotInv, CallInv, Slots
  <2>2. QED
    BY <2>1 DEF IInv, LoadJob, ShutInv, AccountExact, poolVars
<1>6. QED
  BY <1>1, <1>2, <1>3, <1>4, <1>5 DEF IInv

LEMMA StepFinishJob ==
    ASSUME IInv, TypeOK', NEW u \in Slots, FinishJob(u)
    PROVE  IInv'
<1>1. SlotInv'
  BY DEF IInv, SlotInv, FinishJob, poolVars, callVars
<1>2. CallInv'
  BY DEF IInv, CallInv, Settled, Quiet, FinishJob, poolVars, callVars
<1>3. RestInv'
  BY DEF IInv, RestInv, InJob, FinishJob, callVars
<1>4. ForkInv'
  BY Zenon DEF IInv, TypeOK, ForkInv, InJob, Forked, Before, Inside, After, Surplus,
     Unfinished, FinishJob, poolVars, callVars
<1>5. (ShutInv /\ AccountExact)'
  BY DEF IInv, ShutInv, AccountExact, FinishJob, poolVars, callVars
<1>6. QED
  BY <1>1, <1>2, <1>3, <1>4, <1>5 DEF IInv

LEMMA StepCountDown ==
    ASSUME IInv, TypeOK', NEW u \in Slots, CountDown(u)
    PROVE  IInv'
<1>1. SlotInv'
  BY DEF IInv, SlotInv, CountDown, slotVars, callVars
<1>2. CallInv'
  <2>1. Forked
    BY DEF IInv, CountDown, RestInv, InJob, SlotInv, CallInv, Slots, Forked
  <2>2. QED
    BY <2>1 DEF IInv, CountDown, CallInv, Forked, callVars
<1>3. RestInv'
  BY DEF IInv, RestInv, InJob, CountDown, callVars
<1>4. ForkInv'
  <2>1. SUFFICES ASSUME Forked PROVE ForkInv'
    BY DEF ForkInv, Forked, CountDown, callVars
  <2>2. u < active_threads /\ Inside(u)
    BY <2>1 DEF IInv, ForkInv, CountDown, Before, After, Surplus
  <2>3. u \in Unfinished
    BY <2>2 DEF Unfinished, InJob, CountDown
  <2>4. Unfinished' = Unfinished \ {u}
    BY <2>2 DEF CountDown, TypeOK, Unfinished, InJob, Inside
  <2>5. Cardinality(Unfinished') = remaining - 1 /\ remaining # 0
    BY <2>1, <2>3, <2>4, UnfinishedFacts, FS_RemoveElement DEF IInv, ForkInv
  <2>6. remaining' = Cardinality(Unfinished')
    BY <2>5, DropFacts DEF IInv, CountDown, TypeOK
  <2>7. After(u)'
    BY <2>2 DEF CountDown, TypeOK, Inside, After, slotVars
  <2>8. \A v \in Slots : IF v < active_threads
                         THEN (Before(v) \/ Inside(v) \/ After(v))'
                         ELSE Surplus(v)'
    BY <2>1 DEF IInv, CountDown, TypeOK, ForkInv, Before, Inside, After,
       Surplus, slotVars, callVars
  <2>9. QED
    BY <2>1, <2>5, <2>6, <2>8 DEF IInv, ForkInv, CountDown, callVars
<1>5. (ShutInv /\ AccountExact)'
  BY DEF IInv, Slots, ShutInv, CallInv, SlotInv, AccountExact, CountDown
<1>6. QED
  BY <1>1, <1>2, <1>3, <1>4, <1>5 DEF IInv

LEMMA StepCreateThread ==
    ASSUME IInv, TypeOK', CreateThread
    PROVE  IInv'
<1>1. SlotInv'
  BY DEF IInv, TypeOK, Slots, SlotInv, CreateThread, callVars
<1>2. CallInv'
  BY DEF IInv, TypeOK, Slots, CallInv, Settled, Quiet, CreateThread, Growing,
     callVars, StartGeneration, StartsMore
<1>3. RestInv'
  BY DEF IInv, RestInv, Stored, InJob, CreateThread, callVars
<1>4. ForkInv'
  BY DEF IInv, TypeOK, ForkInv, Forked, CreateThread, callVars, StartsMore
<1>5. (ShutInv /\ AccountExact)'
  BY DEF IInv, ShutInv, AccountExact, CreateThread, callVars
<1>6. QED
  BY <1>1, <1>2, <1>3, <1>4, <1>5 DEF IInv

LEMMA StepCreateFails ==
    ASSUME IInv, TypeOK', CreateFails
    PROVE  IInv'
<1>1. SlotInv'
  BY DEF IInv, SlotInv, CreateFails, Growing, threadVars, StartsMore, StopFrom
<1>2. CallInv'
  BY DEF IInv, CallInv, CreateFails, Growing, StartsMore
<1>3. RestInv'
  BY DEF IInv, RestInv, Stored, InJob, CreateFails, Growing, threadVars,
     StartsMore
<1>4. ForkInv'
  BY DEF IInv, TypeOK, ForkInv, Forked, CreateFails, StartsMore
<1>5. (ShutInv /\ AccountExact)'
  BY DEF IInv, ShutInv, AccountExact, CreateFails
<1>6. QED
  BY <1>1, <1>2, <1>3, <1>4, <1>5 DEF IInv

LEMMA StepGrowDone ==
    ASSUME IInv, TypeOK', GrowDone
    PROVE  IInv'
<1>1. SlotInv'
  BY DEF IInv, SlotInv, GrowDone, Growing, Return, poolVars, slotVars,
     threadVars
<1>2. CallInv'
  BY DEF IInv, CallInv, Settled, Quiet, GrowDone, Return, poolVars, threadVars
<1>3. RestInv'
  BY DEF IInv, RestInv, Stored, InJob, GrowDone, Growing, Return, poolVars,
     slotVars, threadVars, Stores
<1>4. ForkInv'
  BY DEF IInv, ForkInv, CallInv, Forked, GrowDone, Growing
<1>5. (ShutInv /\ AccountExact)'
  BY DEF IInv, ShutInv, AccountExact, GrowDone, poolVars
<1>6. QED
  BY <1>1, <1>2, <1>3, <1>4, <1>5 DEF IInv

LEMMA StepStoreJob ==
    ASSUME IInv, TypeOK', StoreJob
    PROVE  IInv'
<1>1. SlotInv'
  BY DEF IInv, SlotInv, StoreJob, slotVars, threadVars
<1>2. CallInv'
  BY DEF IInv, CallInv, Settled, Quiet, StoreJob, threadVars
<1>3. RestInv'
  BY DEF IInv, RestInv, Stored, InJob, StoreJob, slotVars, threadVars
<1>4. ForkInv'
  BY DEF IInv, ForkInv, CallInv, Forked, StoreJob
<1>5. (ShutInv /\ AccountExact)'
  BY DEF IInv, ShutInv, AccountExact, StoreJob
<1>6. QED
  BY <1>1, <1>2, <1>3, <1>4, <1>5 DEF IInv

LEMMA StepStoreActive ==
    ASSUME IInv, TypeOK', StoreActive
    PROVE  IInv'
<1>1. SlotInv'
  BY DEF IInv, SlotInv, StoreActive, slotVars, threadVars
<1>2. CallInv'
  BY DEF IInv, CallInv, Settled, Quiet, StoreActive, threadVars
<1>3. RestInv'
  BY DEF IInv, RestInv, Stored, InJob, StoreActive, slotVars, threadVars
<1>4. ForkInv'
  BY DEF IInv, ForkInv, CallInv, Forked, StoreActive
<1>5. (ShutInv /\ AccountExact)'
  BY DEF IInv, ShutInv, AccountExact, StoreActive
<1>6. QED
  BY <1>1, <1>2, <1>3, <1>4, <1>5 DEF IInv

LEMMA StepStoreRemaining ==
    ASSUME IInv, TypeOK', StoreRemaining
    PROVE  IInv'
<1>1. SlotInv'
  BY DEF IInv, SlotInv, StoreRemaining, slotVars, threadVars
<1>2. CallInv'
  BY DEF IInv, CallInv, Settled, Quiet, StoreRemaining, threadVars
<1>3. RestInv'
  BY DEF IInv, RestInv, Stored, InJob, StoreRemaining, slotVars, threadVars
<1>4. ForkInv'
  BY DEF IInv, ForkInv, CallInv, Forked, StoreRemaining
<1>5. (ShutInv /\ AccountExact)'
  BY DEF IInv, ShutInv, AccountExact, StoreRemaining
<1>6. QED
  BY <1>1, <1>2, <1>3, <1>4, <1>5 DEF IInv

LEMMA StepPublishBump ==
    ASSUME IInv, TypeOK', PublishBump
    PROVE  IInv'
<1>1. SlotInv'
  BY DEF IInv, SlotInv, PublishBump, Return, slotVars, threadVars
<1>2. CallInv'
  BY DEF IInv, CallInv, PublishBump, Return
<1>3. RestInv'
  BY DEF RestInv, PublishBump
<1>4. ForkInv'
  <2>1. /\ active_threads = req_threads /\ remaining = req_threads
        /\ job = req_job /\ accounting = dispatch_accounting
        /\ req_threads \in 1 .. MaxThreads /\ req_threads <= thread_count
        /\ req_job \in Jobs
    BY DEF IInv, PublishBump, RestInv, CallInv, Stored, TypeOK
  <2>2. \A v \in Slots :
           /\ ran[v] = 0
           /\ v < thread_count => pc[v] = "spin" /\ seen[v] = generation
    BY DEF IInv, PublishBump, RestInv, CallInv, Settled, Quiet
  <2>3. Cardinality(Unfinished') = req_threads
    <3>1. Unfinished' = 0 .. req_threads - 1
      BY <2>1, <2>2, MaxThreadsAssumption DEF Unfinished, PublishBump, Slots
    <3>2. QED
      BY <2>1, <3>1, FS_Interval
  <2>4. generation' # generation
    BY BumpFacts DEF PublishBump, TypeOK
  <2>5. \A v \in Slots : IF v < active_threads THEN Before(v)' ELSE Surplus(v)'
    BY <2>1, <2>2, <2>4 DEF IInv, PublishBump, Before, Surplus, threadVars,
       SlotInv, Slots, TypeOK
  <2>6. QED
    BY <2>1, <2>3, <2>5 DEF ForkInv, PublishBump
<1>5. (ShutInv /\ AccountExact)'
  BY DEF IInv, ShutInv, RestInv, AccountExact, PublishBump
<1>6. QED
  BY <1>1, <1>2, <1>3, <1>4, <1>5 DEF IInv

LEMMA StepWaitDone ==
    ASSUME IInv, TypeOK', WaitDone
    PROVE  IInv'
<1>1. ~stopping /\ outstanding /\ remaining = 0
  BY DEF IInv, WaitDone, SlotInv, CallInv,
     WaitOver
<1>2. ASSUME Forked PROVE \A v \in Slots : v < active_threads => After(v)
  <2>1. Unfinished = {}
    BY <1>1, <1>2, UnfinishedFacts DEF IInv, ForkInv
  <2>2. QED
    BY <1>2, <2>1 DEF IInv, Unfinished, ForkInv, Before, Inside, InJob
<1>3. \A v \in Slots : ~InJob(v)
  <2>1. CASE Forked
    BY <1>2, <2>1 DEF IInv, InJob, ForkInv, After, Surplus
  <2>2. CASE ~Forked
    BY <1>1, <2>2 DEF IInv, InJob, Forked, SlotInv, CallInv, Slots
  <2>3. QED
    BY <2>1, <2>2
<1>4. SlotInv'
  BY DEF IInv, SlotInv, WaitDone, Return, threadVars
<1>5. CallInv'
  BY DEF IInv, CallInv, WaitDone, Return
<1>6. RestInv'
  <2>1. /\ cpc' = "idle" /\ job' = NoJob /\ active_threads' = 0
        /\ UNCHANGED <<remaining, pc>>
    BY <1>1, Zenon DEF WaitDone, Return, threadVars
  <2>2. \A v \in Slots : ran'[v] = 0 /\ ~cpu_fresh'[v]
    BY Zenon DEF WaitDone
  <2>3. QED
    BY <1>1, <1>3, <2>1, <2>2 DEF RestInv, Stored, InJob
<1>7. ForkInv'
  BY DEF ForkInv, Forked, WaitDone
<1>8. (ShutInv /\ AccountExact)'
  <2>1. last' = Account /\ ~outstanding'
    BY <1>1, Zenon DEF WaitDone
  <2>2. CASE Forked
    BY <1>2, <2>1, <2>2 DEF Account, After, ShutInv, AccountExact
  <2>3. CASE ~Forked
    BY <1>1, <2>1, <2>3 DEF IInv, Account, CallInv, Forked, Slots, ShutInv,
       AccountExact
  <2>4. QED
    BY <2>2, <2>3
<1>9. QED
  BY <1>4, <1>5, <1>6, <1>7, <1>8 DEF IInv

LEMMA StepSurplusJoined ==
    ASSUME IInv, TypeOK', SurplusJoined
    PROVE  IInv'
<1>1. SlotInv'
  BY DEF IInv, TypeOK, Slots, SlotInv, CallInv, SurplusJoined, JoinFrom,
     FreeSlotsFrom, Return
<1>2. CallInv'
  BY DEF IInv, CallInv, SurplusJoined, Return
<1>3. RestInv'
  BY DEF IInv, RestInv, Stored, InJob, SurplusJoined, JoinFrom, Return
<1>4. ForkInv'
  BY DEF IInv, ForkInv, CallInv, Forked, SurplusJoined
<1>5. (ShutInv /\ AccountExact)'
  BY DEF IInv, ShutInv, AccountExact, SurplusJoined
<1>6. QED
  BY <1>1, <1>2, <1>3, <1>4, <1>5 DEF IInv

LEMMA StepFailedJoined ==
    ASSUME IInv, TypeOK', FailedJoined
    PROVE  IInv'
<1>1. SlotInv'
  BY DEF IInv, TypeOK, Slots, SlotInv, CallInv, FailedJoined, JoinFrom,
     FreeSlotsFrom, Return
<1>2. CallInv'
  BY DEF IInv, CallInv, FailedJoined, Return
<1>3. RestInv'
  BY DEF IInv, RestInv, Stored, InJob, FailedJoined, JoinFrom, Return
<1>4. ForkInv'
  BY DEF IInv, ForkInv, CallInv, Forked, FailedJoined
<1>5. (ShutInv /\ AccountExact)'
  BY DEF IInv, ShutInv, AccountExact, FailedJoined
<1>6. QED
  BY <1>1, <1>2, <1>3, <1>4, <1>5 DEF IInv

LEMMA StepAllJoined ==
    ASSUME IInv, TypeOK', AllJoined
    PROVE  IInv'
<1>1. SlotInv'
  BY DEF IInv, TypeOK, Slots, SlotInv, AllJoined, JoinFrom, ClearPool, Return
<1>2. CallInv'
  BY DEF CallInv, AllJoined, ClearPool, Return
<1>3. RestInv'
  BY DEF IInv, RestInv, Stored, InJob, AllJoined, JoinFrom, ClearPool, Return
<1>4. ForkInv'
  BY DEF ForkInv, Forked, AllJoined
<1>5. (ShutInv /\ AccountExact)'
  <2>1. UNCHANGED <<ran, outstanding, last>> /\ initialized
    BY Zenon DEF IInv, AllJoined, CallInv
  <2>2. QED
    BY <2>1 DEF IInv, ShutInv, ForkInv, Forked, Before, Inside, After,
       Surplus, AccountExact
<1>6. QED
  BY <1>1, <1>2, <1>3, <1>4, <1>5 DEF IInv

LEMMA StepCallDispatch ==
    ASSUME IInv, TypeOK', NEW j \in Jobs, NEW a \in 1 .. MaxThreads,
           ~outstanding, Settled, CallDispatch(j, a)
    PROVE  IInv'
<1>1. SlotInv'
  BY DEF IInv, SlotInv, CallInv, CallDispatch, EnterGrow, ClearPool,
     threadVars
<1>2. CallInv'
  BY DEF IInv, TypeOK, Slots, CallInv, Settled, Quiet, CallDispatch,
     EnterGrow, ClearPool, threadVars
<1>3. RestInv'
  BY DEF IInv, RestInv, Stored, InJob, CallDispatch, EnterGrow, ClearPool,
     threadVars
<1>4. ForkInv'
  BY DEF ForkInv, Forked, CallDispatch
<1>5. (ShutInv /\ AccountExact)'
  BY DEF IInv, ShutInv, AccountExact, CallDispatch
<1>6. QED
  BY <1>1, <1>2, <1>3, <1>4, <1>5 DEF IInv

LEMMA StepCallShrink ==
    ASSUME IInv, TypeOK', NEW t \in 0 .. MaxThreads, ~outstanding,
           CallShrink(t)
    PROVE  IInv'
<1>1. SlotInv'
  BY DEF IInv, SlotInv, CallShrink, threadVars, StopFrom
<1>2. CallInv'
  BY DEF CallInv, CallShrink
<1>3. RestInv'
  BY DEF IInv, RestInv, Stored, InJob, CallShrink, threadVars
<1>4. ForkInv'
  BY DEF ForkInv, Forked, CallShrink
<1>5. (ShutInv /\ AccountExact)'
  BY DEF IInv, ShutInv, AccountExact, CallShrink
<1>6. QED
  BY <1>1, <1>2, <1>3, <1>4, <1>5 DEF IInv

LEMMA StepGrowEnsure ==
    ASSUME IInv, TypeOK', NEW t \in 0 .. MaxThreads, ~outstanding,
           CallEnsure(t), ~(initialized /\ t < thread_count)
    PROVE  IInv'
<1>1. SlotInv'
  <2>1. EnterGrow /\ UNCHANGED pc /\ cpc = "idle" /\ cpc' = "grow_ensure"
    BY DEF CallEnsure, threadVars
  <2>2. /\ thread_count' = thread_count
        /\ \A u \in Slots : w_stopping'[u] => w_stopping[u]
        /\ stopping' => stopping
    BY <2>1 DEF IInv, EnterGrow, ClearPool, CallInv
  <2>3. QED
    BY <2>1, <2>2 DEF IInv, SlotInv
<1>2. CallInv'
  BY DEF IInv, TypeOK, CallInv, CallEnsure, EnterGrow
<1>3. RestInv'
  BY DEF IInv, RestInv, Stored, InJob, CallEnsure, EnterGrow, ClearPool,
     threadVars
<1>4. ForkInv'
  BY DEF ForkInv, Forked, CallEnsure
<1>5. (ShutInv /\ AccountExact)'
  BY DEF IInv, ShutInv, AccountExact, CallEnsure
<1>6. QED
  BY <1>1, <1>2, <1>3, <1>4, <1>5 DEF IInv

LEMMA StepCallWait ==
    ASSUME IInv, TypeOK', CallWait
    PROVE  IInv'
<1>1. SlotInv'
  BY DEF IInv, SlotInv, CallWait, poolVars, slotVars, threadVars
<1>2. CallInv'
  BY DEF IInv, CallInv, CallWait, poolVars
<1>3. RestInv'
  BY DEF RestInv, CallWait
<1>4. ForkInv'
  BY DEF IInv, ForkInv, InJob, Forked, Before, Inside, After, Surplus,
     Unfinished, CallWait, poolVars, slotVars, threadVars
<1>5. (ShutInv /\ AccountExact)'
  BY DEF IInv, ShutInv, AccountExact, CallWait, poolVars
<1>6. QED
  BY <1>1, <1>2, <1>3, <1>4, <1>5 DEF IInv

LEMMA StepCallShutdown ==
    ASSUME IInv, TypeOK', CallShutdown
    PROVE  IInv'
<1>1. SlotInv'
  BY DEF IInv, SlotInv, CallShutdown, slotVars, threadVars
<1>2. CallInv'
  BY DEF CallInv, CallShutdown
<1>3. RestInv'
  BY DEF IInv, RestInv, Stored, InJob, CallShutdown, slotVars, threadVars
<1>4. ForkInv'
  BY DEF IInv, ForkInv, InJob, Forked, Before, Inside, After, Surplus,
     Unfinished, CallShutdown, slotVars, threadVars
<1>5. (ShutInv /\ AccountExact)'
  BY DEF IInv, ShutInv, AccountExact, CallShutdown
<1>6. QED
  BY <1>1, <1>2, <1>3, <1>4, <1>5 DEF IInv

LEMMA StepSetAccounting ==
    ASSUME IInv, TypeOK', NEW b \in BOOLEAN, SetAccounting(b)
    PROVE  IInv'
<1>1. SlotInv'
  BY DEF IInv, SlotInv, SetAccounting, slotVars, threadVars
<1>2. CallInv'
  BY DEF IInv, CallInv, SetAccounting
<1>3. RestInv'
  BY DEF IInv, RestInv, Stored, InJob, SetAccounting, slotVars, threadVars
<1>4. ForkInv'
  BY DEF IInv, ForkInv, InJob, Forked, Before, Inside, After, Surplus,
     Unfinished, SetAccounting, slotVars, threadVars
<1>5. (ShutInv /\ AccountExact)'
  BY DEF IInv, ShutInv, AccountExact, SetAccounting
<1>6. QED
  BY <1>1, <1>2, <1>3, <1>4, <1>5 DEF IInv

LEMMA StepRequests ==
    ASSUME IInv, TypeOK', Requests
    PROVE  IInv'
<1>1. ASSUME NEW j, NEW a, RefuseDispatch(j, a) PROVE IInv'
  BY <1>1 DEF IInv, SlotInv, CallInv, RestInv, ForkInv, ShutInv, AccountExact,
     RefuseDispatch, poolVars, slotVars, threadVars, Stored, InJob, Forked,
     Before, Inside, After, Surplus, Unfinished
<1>2. ASSUME NEW t, RefuseEnsure(t) PROVE IInv'
  BY <1>2 DEF IInv, SlotInv, CallInv, RestInv, ForkInv, ShutInv, AccountExact,
     RefuseEnsure, poolVars, slotVars, threadVars, Stored, InJob, Forked,
     Before, Inside, After, Surplus, Unfinished
<1>3. CASE RefuseAtexit
  BY <1>3 DEF IInv, SlotInv, CallInv, RestInv, ForkInv, ShutInv, AccountExact,
     RefuseAtexit, poolVars, slotVars, threadVars, Stored, InJob, Forked
<1>4. ASSUME NEW t \in 0 .. MaxThreads, ~outstanding, Resize(t) PROVE IInv'
  BY <1>4, StepCallShrink, StepGrowEnsure DEF Resize, CallEnsure
<1>5. CASE CallWait
  BY <1>5, StepCallWait
<1>6. CASE CallShutdown
  BY <1>6, StepCallShutdown
<1>7. ASSUME NEW b \in BOOLEAN, SetAccounting(b) PROVE IInv'
  BY <1>7, StepSetAccounting
<1>8. QED
  BY <1>1, <1>2, <1>3, <1>4, <1>5, <1>6, <1>7 DEF Requests

LEMMA StepThreads ==
    ASSUME IInv, TypeOK', Threads
    PROVE  IInv'
BY StepThreadExit, StepTakeGeneration, StepTestActive, StepLoadJob,
   StepFinishJob, StepCountDown DEF Threads, Thread

LEMMA StepCaller ==
    ASSUME IInv, TypeOK', Caller
    PROVE  IInv'
BY StepCreateThread, StepCreateFails, StepGrowDone, StepStoreJob,
   StepStoreActive, StepStoreRemaining, StepPublishBump, StepWaitDone,
   StepSurplusJoined, StepFailedJoined, StepAllJoined DEF Caller

LEMMA IInvInit == Init => IInv
<1> SUFFICES ASSUME Init PROVE IInv
  OBVIOUS
<1>1. TypeOK
  BY TypeInit
<1>2. /\ thread_count = 0 /\ active_threads = 0 /\ remaining = 0
      /\ cpc = "idle" /\ job = NoJob /\ last = "none"
      /\ ~outstanding /\ ~stopping /\ ~initialized
      /\ \A u \in Slots : pc[u] = "none" /\ ~w_stopping[u] /\ ran[u] = 0
                          /\ ~cpu_fresh[u]
  BY Zenon DEF Init
<1>3. QED
  BY <1>1, <1>2 DEF IInv, SlotInv, CallInv, RestInv, ForkInv, ShutInv,
     AccountExact, Stored, InJob, Forked, Slots

LEMMA IInvStep == IInv /\ [SettledNext]_vars => IInv'
<1> SUFFICES ASSUME IInv, [SettledNext]_vars PROVE IInv'
  OBVIOUS
<1>1. TypeOK'
  BY TypeStep DEF IInv
<1>2. CASE Threads
  BY <1>1, <1>2, StepThreads
<1>3. CASE Caller
  BY <1>1, <1>3, StepCaller
<1>4. CASE Requests
  BY <1>1, <1>4, StepRequests
<1>5. ASSUME NEW j \in Jobs, NEW a \in 1 .. MaxThreads,
             ~outstanding, Settled, CallDispatch(j, a)
      PROVE  IInv'
  BY <1>1, <1>5, StepCallDispatch
<1>6. CASE UNCHANGED vars
  BY <1>6 DEF IInv, TypeOK, SlotInv, CallInv, RestInv, ForkInv, ShutInv,
     AccountExact, vars, poolVars, slotVars, callVars, threadVars, Settled,
     Quiet, Stored, InJob, Forked, Before, Inside, After, Surplus, Unfinished
<1>7. QED
  BY <1>2, <1>3, <1>4, <1>5, <1>6 DEF SettledNext

\* The inductive invariant holds in every reachable state, whatever the
\* interleaving of the controlling thread and the pool threads.
THEOREM Invariance == SettledSpec => []IInv
<1>1. QED
  BY IInvInit, IInvStep, PTL DEF SettledSpec

-----------------------------------------------------------------------------
(***************************************************************************)
(* What the invariant gives.                                               *)
(***************************************************************************)

\* No pool thread touches the caller's context outside a dispatch.
THEOREM CallerOwnsContext == SettledSpec => []JobsOnlyInside
<1>1. IInv => JobsOnlyInside
  BY DEF IInv, RestInv, JobsOnlyInside
<1>2. QED
  BY Invariance, <1>1, PTL

\* Every pool thread runs a dispatched job at most once.
THEOREM RunsOnce == SettledSpec => []OncePerDispatch
<1>1. IInv => OncePerDispatch
  BY DEF IInv, RestInv, ForkInv, ShutInv, Forked, Before, Inside, After,
     Surplus, OncePerDispatch
<1>2. QED
  BY Invariance, <1>1, PTL

\* A thread in the job runs the job of this dispatch, and none calls NULL.
THEOREM RunsTheRightJob == SettledSpec => []RightJob
<1>1. IInv => RightJob
  <2>1. SUFFICES ASSUME IInv, NEW u \in Slots
                 PROVE  /\ pc[u] \in {"run", "done"} => arg[u] = req_job
                        /\ pc[u] # "fault"
    BY DEF RightJob
  <2>2. CASE Forked
    BY <2>1, <2>2 DEF IInv, ForkInv, Before, Inside, After, Surplus
  <2>3. CASE ~outstanding
    BY <2>1, <2>3 DEF IInv, RestInv, InJob
  <2>4. CASE ~initialized
    BY <2>1, <2>4 DEF IInv, CallInv, SlotInv, Slots
  <2>5. QED
    BY <2>2, <2>3, <2>4 DEF Forked
<1>2. QED
  BY Invariance, <1>1, PTL

\* An accounted dispatch never sums a stale job time.
THEOREM AccountsExactly == SettledSpec => []AccountExact
<1>1. IInv => AccountExact
  BY DEF IInv
<1>2. QED
  BY Invariance, <1>1, PTL

\* No thread is lost or left over by a failure, a resize or a shutdown.
THEOREM LeaksNoThread == SettledSpec => []NoThreadLeaked
<1>1. IInv => NoThreadLeaked
  BY DEF IInv, SlotInv, NoThreadLeaked
<1>2. QED
  BY Invariance, <1>1, PTL

\* Only the end of its spin takes the controlling thread out of the wait.
LEMMA WaitOnlyEndsDone ==
    ASSUME TypeOK, [SettledNext]_vars, cpc = "wait", cpc' = "idle"
    PROVE  WaitDone
<1>1. ASSUME NEW u \in Slots, Thread(u) PROVE cpc' = cpc
  BY <1>1 DEF Thread, ThreadExit, TakeGeneration, TestActive, LoadJob,
     FinishJob, CountDown, callVars
<1>2. ASSUME Caller PROVE WaitDone
  BY <1>2 DEF Caller, CreateThread, CreateFails, Growing, GrowDone, StoreJob,
     StoreActive, StoreRemaining, PublishBump, SurplusJoined, FailedJoined,
     AllJoined, StartsMore
<1>3. ~Requests
  BY DEF Requests, RefuseDispatch, RefuseEnsure, RefuseAtexit, Resize,
     CallEnsure, CallShrink, CallWait, CallShutdown, SetAccounting
<1>4. ASSUME NEW j, NEW a PROVE ~CallDispatch(j, a)
  BY DEF CallDispatch
<1>5. QED
  BY <1>1, <1>2, <1>3, <1>4 DEF SettledNext, Threads, vars, callVars

\* When the wait of a dispatch returns, every active thread has run the job
\* exactly once and no other thread has.
THEOREM JoinIsExact == SettledSpec => WaitMeansDone
<1>1. ASSUME IInv, [SettledNext]_vars,
             cpc = "wait", cpc' = "idle", initialized
      PROVE  \A u \in Slots :
                /\ ran[u] = (IF u < active_threads THEN 1 ELSE 0)
                /\ ~InJob(u)
  <2>1. WaitDone
    BY <1>1, WaitOnlyEndsDone DEF IInv
  <2>2. remaining = 0 /\ Forked
    BY <1>1, <2>1 DEF IInv, WaitDone, SlotInv, CallInv, Forked,
       WaitOver
  <2>3. Unfinished = {}
    BY <1>1, <2>2, UnfinishedFacts DEF IInv, ForkInv
  <2>4. QED
    BY <1>1, <2>2, <2>3 DEF IInv, ForkInv, Unfinished, Before, Inside, After,
       Surplus, InJob
<1>2. QED
  BY <1>1, Invariance, PTL DEF SettledSpec, WaitMeansDone

\* Only the end of its clean-up takes a failed dispatch out of cmn_pool_grow.
LEMMA FailureOnlyEndsJoined ==
    ASSUME TypeOK, [SettledNext]_vars, cpc = "join_failed", cpc' = "idle"
    PROVE  FailedJoined
<1>1. ASSUME NEW u \in Slots, Thread(u) PROVE cpc' = cpc
  BY <1>1 DEF Thread, ThreadExit, TakeGeneration, TestActive, LoadJob,
     FinishJob, CountDown, callVars
<1>2. ASSUME Caller PROVE FailedJoined
  BY <1>2 DEF Caller, CreateThread, CreateFails, StartsMore, Growing, GrowDone,
     StoreJob, StoreActive, StoreRemaining, PublishBump, WaitDone,
     SurplusJoined, AllJoined
<1>3. ~Requests
  BY DEF Requests, RefuseDispatch, RefuseEnsure, RefuseAtexit, Resize,
     CallEnsure, CallShrink, CallWait, CallShutdown, SetAccounting
<1>4. ASSUME NEW j, NEW a PROVE ~CallDispatch(j, a)
  BY DEF CallDispatch
<1>5. QED
  BY <1>1, <1>2, <1>3, <1>4 DEF SettledNext, Threads, vars, callVars

\* A dispatch or a resize that cannot create its threads leaves the pool as
\* it was: nothing runs, and the older threads are neither stopped nor lost.
THEOREM FailsQuietly == SettledSpec => FailureIsQuiet
<1>1. ASSUME IInv, IInv', [SettledNext]_vars,
             cpc = "join_failed", cpc' = "idle"
      PROVE  /\ remaining' = 0 /\ thread_count' = old_count
             /\ \A u \in Slots :
                   ~InJob(u)' /\ (u < old_count => pc[u]' # "exited")
  <2>1. FailedJoined
    BY <1>1, FailureOnlyEndsJoined DEF IInv
  <2>2. thread_count' = old_count /\ ~outstanding'
    BY <1>1, <2>1 DEF FailedJoined, IInv, CallInv
  <2>3. remaining' = 0 /\ \A u \in Slots : ~InJob(u)'
    BY <1>1, <2>2 DEF IInv, RestInv, Stored
  <2>4. \A u \in Slots : pc'[u] # "exited"
    BY <1>1 DEF IInv, SlotInv
  <2>5. QED
    BY <2>2, <2>3, <2>4
<1>2. QED
  BY <1>1, Invariance, PTL DEF SettledSpec, FailureIsQuiet

-----------------------------------------------------------------------------
(***************************************************************************)
(* Refinement of ForkJoin.                                                 *)
(***************************************************************************)
Taken == {u \in Slots : ran[u] > 0}
Finished == {u \in Slots : ran[u] > 0 /\ ~InJob(u)}

\* What the abstract state depends on.
LEMMA SameView ==
    ASSUME UNCHANGED <<outstanding, initialized, req_job, active_threads>>,
           Taken' = Taken, Finished' = Finished
    PROVE  UNCHANGED Abstract!vars
BY DEF Abstract!vars, Forked, Taken, Finished

\* Outside a dispatch nobody has taken anything.
LEMMA RestView ==
    ASSUME IInv, ~outstanding
    PROVE  ~Forked /\ Taken = {} /\ Finished = {}
BY DEF IInv, RestInv, Forked, Taken, Finished

LEMMA RestStutters ==
    ASSUME IInv, IInv', ~outstanding, ~outstanding'
    PROVE  UNCHANGED Abstract!vars
<1>1. ~Forked /\ Taken = {} /\ Finished = {}
  BY RestView
<1>2. ~Forked' /\ Taken' = {} /\ Finished' = {}
  BY DEF IInv, RestInv, Forked, Taken, Finished
<1>3. QED
  BY <1>1, <1>2 DEF Abstract!vars, Taken, Finished

\* Only a thread of a live pool can be in or near the job.
LEMMA ThreadsLive ==
    ASSUME IInv, NEW u \in Slots, pc[u] \in {"load", "run", "done"}
    PROVE  Forked
BY MaxThreadsAssumption DEF IInv, TypeOK, RestInv, SlotInv, CallInv, InJob,
   Forked, Slots

LEMMA ThreadRefines ==
    ASSUME IInv, NEW u \in Slots, Thread(u), outstanding
    PROVE  [Abstract!Next]_(Abstract!vars)
<1> USE DEF IInv, TypeOK
<1>0. UNCHANGED <<outstanding, initialized, req_job, active_threads>>
  BY DEF Thread, ThreadExit, TakeGeneration, TestActive, LoadJob, FinishJob,
     CountDown, poolVars, callVars
<1>1. CASE ThreadExit(u) \/ TakeGeneration(u)
  BY <1>0, <1>1, SameView DEF ThreadExit, TakeGeneration, Taken, Finished,
     InJob
<1>2. CASE TestActive(u)
  <2>1. pc'[u] = "load" => ran[u] = 0
    BY <1>2, MaxThreadsAssumption, SMTT(30) DEF TestActive, IsActive, ForkInv, Forked,
       Before, Inside, After,
       SlotInv, CallInv, Slots
  <2>2. QED
    BY <1>0, <1>2, <2>1, SameView DEF TestActive, Taken, Finished, InJob
<1>3. CASE LoadJob(u)
  <2>1. Forked /\ u < active_threads /\ ran[u] = 0
    BY <1>3, ThreadsLive DEF LoadJob, ForkInv, Before, Inside, After, Surplus
  <2>2. Taken' = Taken \cup {u} /\ u \notin Taken /\ Finished' = Finished
    BY <1>3, <2>1 DEF LoadJob, Once, Taken, Finished, InJob
  <2>3. Abstract!Take(u)
    BY <1>0, <2>1, <2>2 DEF Abstract!Take, Forked, Taken, Finished
  <2>4. QED
    BY <2>3 DEF Abstract!Next, Abstract!Workers, Slots
<1>4. CASE FinishJob(u)
  BY <1>0, <1>4, SameView DEF FinishJob, Taken, Finished, InJob
<1>5. CASE CountDown(u)
  <2>1. Forked /\ ran[u] = 1
    BY <1>5, ThreadsLive DEF CountDown, ForkInv, Before, Inside, After, Surplus
  <2>2. Taken' = Taken /\ u \in Taken \ Finished
    BY <1>5, <2>1 DEF CountDown, Taken, Finished, InJob
  <2>3. Finished' = Finished \cup {u}
    BY <1>5, <2>1 DEF CountDown, Finished, InJob
  <2>4. Abstract!Finish(u)
    BY <1>0, <2>1, <2>2, <2>3 DEF Abstract!Finish, Forked, Taken, Finished
  <2>5. QED
    BY <2>4 DEF Abstract!Next, Abstract!Workers, Slots
<1>6. QED
  BY <1>1, <1>2, <1>3, <1>4, <1>5 DEF Thread

LEMMA PublishRefines ==
    ASSUME IInv, IInv', PublishBump
    PROVE  Abstract!Next
<1>1. ~outstanding /\ Taken = {} /\ Finished = {}
  BY RestView DEF IInv, CallInv, PublishBump
<1>2. Forked' /\ req_job' \in Jobs /\ active_threads' \in 1 .. MaxThreads
  BY DEF IInv, TypeOK, CallInv, ForkInv, PublishBump, Forked, stateVars
<1>3. Taken' = {} /\ Finished' = {}
  BY <1>1 DEF PublishBump, threadVars, Taken, Finished, InJob
<1>4. Abstract!Fork(req_job', active_threads')
  BY <1>1, <1>2, <1>3 DEF Abstract!Fork, Forked, Taken, Finished
<1>5. QED
  BY <1>2, <1>4 DEF Abstract!Next

LEMMA WaitRefines ==
    ASSUME IInv, IInv', WaitDone
    PROVE  Abstract!Next
<1>1. outstanding /\ ~outstanding' /\ ~stopping
  BY DEF IInv, SlotInv, CallInv, WaitDone
<1>2. ~Forked' /\ Taken' = {} /\ Finished' = {}
  BY <1>1 DEF IInv, RestInv, Forked, Taken, Finished
<1>3. Abstract!Leave
  BY <1>1, <1>2 DEF Abstract!Leave, Forked, Taken, Finished
<1>4. CASE Forked
  <2>1. Unfinished = {}
    BY <1>1, <1>4, UnfinishedFacts DEF IInv, ForkInv, WaitDone, WaitOver
  <2>2. Finished = 0 .. active_threads - 1
    <3>1. \A u \in Slots : u \in Finished <=> u < active_threads
      BY <1>4, <2>1 DEF IInv, TypeOK, ForkInv, Unfinished, Surplus, Finished
    <3>2. active_threads \in 0 .. MaxThreads
      BY DEF IInv, TypeOK
    <3>3. 0 .. active_threads - 1 = {u \in Slots : u < active_threads}
      BY <3>2, MaxThreadsAssumption DEF Slots
    <3>4. QED
      BY <3>1, <3>3 DEF Finished
  <2>3. Abstract!Join
    BY <1>3, <1>4, <2>2 DEF Abstract!Join, Finished
  <2>4. QED
    BY <2>3 DEF Abstract!Next
<1>5. CASE ~Forked
  BY <1>1, <1>3, <1>5 DEF Abstract!Next, Abstract!LeaveAbandoned
<1>6. QED
  BY <1>4, <1>5

LEMMA ShutdownRefines ==
    ASSUME IInv, IInv', AllJoined, outstanding
    PROVE  Abstract!Next
<1>1. \A u \in Slots : pc[u] \in {"exited", "none"}
  BY DEF IInv, TypeOK, SlotInv, AllJoined, JoinFrom, Slots
<1>2. Forked /\ outstanding' /\ ~initialized' /\ UNCHANGED ran
  BY DEF IInv, CallInv, AllJoined, Forked
<1>3. \A u \in Slots : pc'[u] \in {"exited", "none"}
  BY <1>1 DEF AllJoined, JoinFrom
<1>4. Finished = Taken /\ Taken' = Taken /\ Finished' = Finished
  BY <1>1, <1>2, <1>3 DEF Taken, Finished, InJob
<1>5. Abstract!Abandon
  BY <1>2, <1>4 DEF Abstract!Abandon, Forked, Taken, Finished
<1>6. QED
  BY <1>5 DEF Abstract!Next

\* The steps of the controlling thread and its requests during a dispatch.
LEMMA CallerInDispatch ==
    ASSUME IInv, Caller, outstanding
    PROVE  WaitDone \/ AllJoined
BY DEF IInv, CallInv, Caller, CreateThread, CreateFails, GrowDone, StoreJob,
   StoreActive, StoreRemaining, PublishBump, SurplusJoined, FailedJoined,
   Growing, StartsMore

LEMMA RequestsStutter ==
    ASSUME IInv, Requests, outstanding
    PROVE  UNCHANGED Abstract!vars
<1>1. UNCHANGED <<outstanding, initialized, req_job, active_threads, ran, pc>>
  BY DEF Requests, RefuseDispatch, RefuseEnsure, RefuseAtexit, CallWait,
     CallShutdown, SetAccounting, poolVars, threadVars
<1>2. QED
  BY <1>1, SameView DEF Taken, Finished, InJob

LEMMA Publishes ==
    ASSUME IInv, [SettledNext]_vars, ~outstanding, outstanding'
    PROVE  PublishBump
<1>1. ASSUME NEW u \in Slots, Thread(u) PROVE FALSE
  BY <1>1 DEF Thread, ThreadExit, TakeGeneration, TestActive, LoadJob,
     FinishJob, CountDown, callVars
<1>2. ASSUME Caller PROVE PublishBump
  BY <1>2 DEF Caller, CreateThread, CreateFails, GrowDone, StoreJob,
     StoreActive, StoreRemaining, WaitDone, SurplusJoined, FailedJoined,
     AllJoined, callVars
<1>3. ASSUME Requests PROVE FALSE
  <2>1. UNCHANGED outstanding
    BY <1>3 DEF Requests, RefuseDispatch, RefuseEnsure, RefuseAtexit, Resize,
       CallEnsure, CallShrink, CallWait, CallShutdown, SetAccounting
  <2>2. QED
    BY <2>1
<1>4. ASSUME NEW j, NEW a, CallDispatch(j, a) PROVE FALSE
  BY <1>4 DEF CallDispatch
<1>5. QED
  BY <1>1, <1>2, <1>3, <1>4 DEF SettledNext, Threads, vars, callVars

LEMMA StepRefines ==
    ASSUME IInv, IInv', [SettledNext]_vars
    PROVE  [Abstract!Next]_(Abstract!vars)
<1>1. CASE ~outstanding /\ ~outstanding'
  BY <1>1, RestStutters
<1>2. CASE ~outstanding /\ outstanding'
  BY <1>2, Publishes, PublishRefines
<1>3. CASE outstanding
  <2>1. CASE Threads
    BY <1>3, <2>1, ThreadRefines DEF Threads
  <2>2. CASE Caller
    BY <1>3, <2>2, CallerInDispatch, WaitRefines, ShutdownRefines
  <2>3. CASE Requests
    BY <1>3, <2>3, RequestsStutter
  <2>4. CASE UNCHANGED vars
    BY <2>4, SameView DEF vars, poolVars, callVars, threadVars, Taken,
       Finished, InJob
  <2>5. QED
    BY <1>3, <2>1, <2>2, <2>3, <2>4 DEF SettledNext
<1>4. QED
  BY <1>1, <1>2, <1>3 DEF IInv, TypeOK

LEMMA InitRefines == Init => Abstract!Init
BY DEF Init, Abstract!Init, Forked, Slots

\* Every behaviour of the pool is a behaviour of the abstract fork and join:
\* cmn_pool.c keeps what cmn_pool.h promises.
THEOREM Refines == SettledSpec => ImplementsForkJoin
<1>1. QED
  BY InitRefines, StepRefines, Invariance, PTL
  DEF SettledSpec, ImplementsForkJoin, Abstract!Spec

-----------------------------------------------------------------------------
(***************************************************************************)
(* The use that is made of the pool.  A pool that is sized once and used   *)
(* in full has its threads back in the spin when the wait returns: the     *)
(* condition of SettledSpec costs such a caller nothing.                   *)
(***************************************************************************)
HarnessInv ==
    /\ cpc = "idle" /\ ~outstanding => Settled
    /\ Growing => /\ Settled /\ old_count \in {0, req_threads}
                  /\ thread_count <= req_threads
    /\ cpc = "join_failed" => old_count = 0
    /\ cpc = "join_surplus" => req_threads = 0
    /\ cpc = "publish" => req_threads = thread_count
    /\ Forked => active_threads = thread_count

\* A pool without threads is settled.
LEMMA EmptySettled ==
    ASSUME TypeOK, thread_count = 0
    PROVE  Settled
BY DEF TypeOK, Settled, Slots

\* Threads that spin on the current generation make no step.
LEMMA SettledRests ==
    ASSUME IInv, Settled, cpc = "idle" \/ Growing, NEW u \in Slots
    PROVE  ~Thread(u)
<1>1. pc[u] = "spin" => seen[u] = generation
  BY MaxThreadsAssumption DEF IInv, TypeOK, SlotInv, Settled, Quiet, Slots
<1>2. ~Stopped(u)
  BY DEF IInv, SlotInv, Stopped, Growing
<1>3. pc[u] \in {"none", "spin"}
  BY MaxThreadsAssumption DEF IInv, TypeOK, SlotInv, Settled, Quiet, Slots
<1>4. QED
  BY <1>1, <1>2, <1>3 DEF Thread, ThreadExit, TakeGeneration, TestActive,
     LoadJob, FinishJob, CountDown

LEMMA HarnessThread ==
    ASSUME IInv, HarnessInv, NEW u \in Slots, Thread(u)
    PROVE  HarnessInv'
<1>1. ~(cpc = "idle" /\ ~outstanding) /\ ~Growing
  BY SettledRests DEF HarnessInv
<1>2. UNCHANGED <<cpc, outstanding, old_count, req_threads, thread_count,
                  active_threads, initialized>>
  BY DEF Thread, ThreadExit, TakeGeneration, TestActive, LoadJob, FinishJob,
     CountDown, poolVars, callVars
<1>3. QED
  BY <1>1, <1>2 DEF HarnessInv, Growing, Forked

LEMMA HarnessWaitDone ==
    ASSUME IInv, HarnessInv, TypeOK', WaitDone
    PROVE  HarnessInv'
<1>1. cpc' = "idle" /\ ~outstanding' /\ outstanding /\ ~stopping
  BY DEF IInv, SlotInv, CallInv, WaitDone, Return
<1>2. CASE Forked
  <2>1. Unfinished = {}
    BY <1>1, <1>2, UnfinishedFacts DEF IInv, ForkInv, WaitDone, WaitOver
  <2>2. \A u \in Slots : u < thread_count => After(u)
    BY <1>2, <2>1 DEF IInv, ForkInv, HarnessInv, Unfinished, Before, Inside,
       InJob
  <2>3. \A u \in Slots : u < thread_count => Quiet(u)
    BY <1>1, <2>2 DEF IInv, SlotInv, After, Quiet, WaitDone
  <2>4. QED
    BY <1>1, <2>3 DEF WaitDone, threadVars, HarnessInv, Settled, Quiet,
       Growing,
       Forked
<1>3. CASE ~Forked
  <2>1. thread_count' = 0
    BY <1>1, <1>3 DEF IInv, CallInv, Forked, WaitDone
  <2>2. Settled'
    BY <2>1 DEF TypeOK, Settled, Slots
  <2>3. QED
    BY <1>1, <2>2 DEF HarnessInv, Growing, Forked
<1>4. QED
  BY <1>2, <1>3

LEMMA HarnessCaller ==
    ASSUME IInv, HarnessInv, IInv', Caller
    PROVE  HarnessInv'
<1> USE DEF HarnessInv, Growing, Forked
<1>1. CASE CreateThread
  BY <1>1 DEF IInv, TypeOK, CallInv, CreateThread, StartsMore, StartGeneration,
     callVars, Settled, Quiet, Slots
<1>2. CASE CreateFails
  BY <1>2 DEF IInv, TypeOK, CallInv, CreateFails, StartsMore
<1>3. CASE GrowDone
  BY <1>3 DEF IInv, TypeOK, CallInv, GrowDone, Return, poolVars, threadVars,
     Settled, Quiet
<1>4. CASE StoreJob \/ StoreActive \/ StoreRemaining
  BY <1>4 DEF IInv, CallInv, StoreJob, StoreActive, StoreRemaining
<1>5. CASE PublishBump
  BY <1>5 DEF IInv, ForkInv, PublishBump, Return
<1>6. CASE WaitDone
  BY <1>6, HarnessWaitDone DEF IInv
<1>7. CASE SurplusJoined \/ FailedJoined \/ AllJoined
  <2>1. cpc' = "idle" /\ thread_count' = 0
    BY <1>7 DEF SurplusJoined, FailedJoined, AllJoined, ClearPool, Return
  <2>2. Settled'
    BY <2>1 DEF IInv, TypeOK, Settled, Slots
  <2>3. Forked' => active_threads' = 0
    BY <1>7 DEF IInv, CallInv, SurplusJoined, FailedJoined, AllJoined
  <2>4. QED
    BY <2>1, <2>2, <2>3
<1>8. QED
  BY <1>1, <1>2, <1>3, <1>4, <1>5, <1>6, <1>7 DEF Caller

\* The entry of a call that may create threads.
LEMMA HarnessGrow ==
    ASSUME IInv, HarnessInv, IInv', cpc = "idle", ~outstanding, EnterGrow,
           Growing', ~outstanding', UNCHANGED threadVars,
           thread_count \in {0, req_threads'}
    PROVE  HarnessInv'
<1>1. thread_count' = thread_count /\ old_count' = thread_count
  BY DEF IInv, CallInv, EnterGrow, ClearPool
<1>2. Settled'
  <2>1. CASE initialized
    BY <2>1 DEF HarnessInv, EnterGrow, threadVars, Settled, Quiet
  <2>2. CASE ~initialized
    BY <1>1, <2>2 DEF IInv, TypeOK, CallInv, Settled, Slots
  <2>3. QED
    BY <2>1, <2>2
<1>3. QED
  BY <1>1, <1>2 DEF IInv, TypeOK, HarnessInv, Growing, Forked

LEMMA HarnessCalls ==
    ASSUME IInv, HarnessInv, IInv', HarnessRequests
    PROVE  HarnessInv'
<1>1. ASSUME NEW t \in 0 .. MaxThreads, thread_count = 0, ~outstanding,
             CallEnsure(t)
      PROVE  HarnessInv'
  BY <1>1, HarnessGrow DEF CallEnsure, CallShrink, Growing
<1>2. CASE CallShrink(0) /\ ~outstanding
  BY <1>2 DEF CallShrink, HarnessInv, Growing, Forked
<1>3. CASE CallWait
  BY <1>3 DEF CallWait, poolVars, HarnessInv, Growing, Forked
<1>4. ASSUME NEW b \in BOOLEAN, SetAccounting(b) PROVE HarnessInv'
  BY <1>4 DEF SetAccounting, threadVars, HarnessInv, Growing, Forked, Settled,
     Quiet
<1>5. CASE \/ \E j \in Jobs \cup {NoJob}, a \in 0 .. MaxThreads + 1 : RefuseDispatch(j, a)
           \/ \E t \in 0 .. MaxThreads + 1 : RefuseEnsure(t)
           \/ RefuseAtexit
  <2>1. UNCHANGED <<poolVars, cpc, argVars, outstanding, threadVars>>
    BY <1>5 DEF RefuseDispatch, RefuseEnsure, RefuseAtexit
  <2>2. QED
    BY <2>1 DEF poolVars, jobVars, stateVars, argVars, threadVars, HarnessInv, Growing,
       Forked, Settled, Quiet
<1>6. CASE CallShutdown
  BY <1>6 DEF CallShutdown, jobVars, argVars, HarnessInv, Growing, Forked
<1>7. QED
  BY <1>1, <1>2, <1>3, <1>4, <1>5, <1>6 DEF HarnessRequests

LEMMA HarnessStep ==
    ASSUME IInv, HarnessInv, [HarnessNext]_vars
    PROVE  IInv' /\ HarnessInv' /\ [SettledNext]_vars
<1>1. [SettledNext]_vars
  <2>1. ASSUME HarnessRequests PROVE Requests
    BY <2>1, MaxThreadsAssumption DEF HarnessRequests, Requests, Resize
  <2>2. ASSUME ~outstanding, NEW j, NEW a, CallDispatch(j, a) PROVE Settled
    BY <2>2 DEF HarnessInv, CallDispatch
  <2>3. QED
    BY <2>1, <2>2 DEF HarnessNext, SettledNext
<1>2. IInv'
  BY <1>1, IInvStep
<1>3. HarnessInv'
  <2>1. ASSUME NEW j \in Jobs, NEW a \in 1 .. MaxThreads, ~outstanding,
               thread_count \in {0, a}, CallDispatch(j, a)
        PROVE  HarnessInv'
    BY <1>2, <2>1, HarnessGrow DEF CallDispatch, Growing
  <2>2. CASE UNCHANGED vars
    BY <2>2 DEF vars, poolVars, callVars, threadVars, HarnessInv, Growing,
       Forked, Settled, Quiet
  <2>3. QED
    BY <1>2, <2>1, <2>2, HarnessThread, HarnessCaller, HarnessCalls
    DEF HarnessNext, Threads
<1>4. QED
  BY <1>1, <1>2, <1>3

\* A caller that sizes the pool, or has its first dispatch size it, uses all of
\* it in every dispatch and empties it needs no pause between dispatches: all
\* that is proved of SettledSpec holds of the benchmarks, and of a sampler whose
\* thread count does not change.
THEOREM HarnessSettles == HarnessSpec => SettledSpec
<1>1. Init => HarnessInv
  BY EmptySettled, TypeInit DEF Init, HarnessInv, Growing, Forked
<1>2. QED
  BY <1>1, IInvInit, HarnessStep, PTL DEF HarnessSpec, SettledSpec
=============================================================================
