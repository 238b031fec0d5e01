------------------------------- MODULE CmnPool -------------------------------
(***************************************************************************)
(* The shared spin worker pool, e8/common/cmn_pool.c: a process-global     *)
(* pool of threads that spin on a generation counter, and the one          *)
(* controlling thread that resizes the pool, dispatches a job, does its    *)
(* own share and waits.                                                    *)
(*                                                                         *)
(* A pool thread and the controlling thread interleave at every volatile   *)
(* access they do not order themselves: the sampling of the generation,    *)
(* the test of active_threads, the load of the job, the end of the job     *)
(* and the decrement of remaining are separate steps, and so are the       *)
(* stores by which cmn_pool_dispatch publishes a job.  Thread slots are    *)
(* numbered from 0 as in the code; slot u runs job(ctx, u + 1).            *)
(*                                                                         *)
(* Just before some definitions stands a faulty variant of it, not used    *)
(* here: a slip the code could have had.  Each property of the runs fails  *)
(* when one of them takes the definition's place.                          *)
(***************************************************************************)
EXTENDS Integers, FiniteSets

CONSTANTS
    MaxThreads,   \* CMN_POOL_MAX_THREADS (24)
    UintMax,      \* largest value of an unsigned (2^32 - 1): it wraps to 0
    Jobs,         \* (job, ctx) pairs a caller may dispatch
    NoJob         \* the NULL job and ctx

ASSUME MaxThreadsAssumption == MaxThreads \in Nat \ {0}
ASSUME UintMaxAssumption == UintMax \in Nat /\ MaxThreads <= UintMax
ASSUME JobsAssumption == NoJob \notin Jobs

VARIABLES
    \* The pool: cmn_pool_state and the atexit flag
    job,                  \* pool.job and pool.ctx, stored and cleared together
    generation,
    thread_count,
    active_threads,
    remaining,
    initialized,
    stopping,
    accounting,
    dispatch_accounting,
    last,                 \* pool.last: which job times the last sum was made of
    atexit_registered,
    \* The slots: cmn_pool_worker
    w_stopping,
    cpu_fresh,            \* job_cpu_ns was written since the last wait
    \* The controlling thread: where it is, its arguments and locals
    cpc,
    req_threads,          \* threads or active_threads argument
    req_job,              \* job and ctx arguments
    old_count,            \* threads before cmn_pool_grow
    pending,              \* stores of the dispatch not made yet
    outstanding,          \* a dispatch returned 1 and was not waited for
    ret,                  \* what the last call returned
    \* The pool threads: where each is, and its locals
    pc,
    seen,                 \* seen_generation, from start_generation on
    arg,                  \* the job and ctx cmn_pool_run_job loaded
    timed,                \* the accounting flag it read
    \* History: how often each slot took a job since the last wait
    ran

jobVars == <<job, active_threads, dispatch_accounting>>
stateVars == <<initialized, stopping, atexit_registered>>
acctVars == <<accounting, last>>
poolVars == <<jobVars, generation, thread_count, remaining, stateVars, acctVars>>
slotVars == <<w_stopping, cpu_fresh>>
argVars == <<req_threads, req_job, old_count>>
callVars == <<cpc, argVars, pending, outstanding, ret>>
threadVars == <<pc, seen, arg, timed>>
vars == <<poolVars, slotVars, callVars, threadVars, ran>>

Slots == 0 .. MaxThreads - 1
Generations == 0 .. UintMax
Stores == {"job", "active", "remaining"}

\* Unsigned increment and decrement.
BumpSaturating(g) == IF g = UintMax THEN g ELSE g + 1
Bump(g) == IF g = UintMax THEN 0 ELSE g + 1
Drop(r) == IF r = 0 THEN UintMax ELSE r - 1

\* The history counts 0, 1, many.
Once(n) == IF n = 0 THEN 1 ELSE 2

Init ==
    /\ job = NoJob
    /\ generation = 0 /\ thread_count = 0 /\ active_threads = 0
    /\ remaining = 0
    /\ initialized = FALSE /\ stopping = FALSE
    /\ accounting = FALSE /\ dispatch_accounting = FALSE
    /\ last = "none"
    /\ atexit_registered = FALSE
    /\ w_stopping = [u \in Slots |-> FALSE]
    /\ cpu_fresh = [u \in Slots |-> FALSE]
    /\ cpc = "idle"
    /\ req_threads = 0 /\ req_job = NoJob /\ old_count = 0
    /\ pending = {} /\ outstanding = FALSE /\ ret = 1
    /\ pc = [u \in Slots |-> "none"]
    /\ seen = [u \in Slots |-> 0]
    /\ arg = [u \in Slots |-> NoJob]
    /\ timed = [u \in Slots |-> FALSE]
    /\ ran = [u \in Slots |-> 0]

-----------------------------------------------------------------------------
(***************************************************************************)
(* Pool threads: cmn_pool_thread_main.  The first act of a thread, reading *)
(* its start_generation, is part of its creation: the slot keeps the value *)
(* until the thread is joined.                                             *)
(***************************************************************************)

\* The stop flags a thread looks at.
StoppedByPoolOnly(u) == stopping
Stopped(u) == stopping \/ w_stopping[u]

\* The spin ends on a stop flag: the thread exits.
ThreadExit(u) ==
    /\ pc[u] = "spin"
    /\ Stopped(u)
    /\ pc' = [pc EXCEPT ![u] = "exited"]
    /\ UNCHANGED <<poolVars, slotVars, callVars, seen, arg, timed, ran>>

\* The spin ends on a new generation, which the thread takes as seen.
TakeGeneration(u) ==
    /\ pc[u] = "spin"
    /\ ~Stopped(u)
    /\ generation # seen[u]
    /\ seen' = [seen EXCEPT ![u] = generation]
    /\ pc' = [pc EXCEPT ![u] = "woken"]
    /\ UNCHANGED <<poolVars, slotVars, callVars, arg, timed, ran>>

\* Only threads below active_threads take the job; the others spin again.
IsActiveInclusive(u) == u <= active_threads
IsActive(u) == u < active_threads

TestActive(u) ==
    /\ pc[u] = "woken"
    /\ pc' = [pc EXCEPT ![u] = IF IsActive(u) THEN "load" ELSE "spin"]
    /\ UNCHANGED <<poolVars, slotVars, callVars, seen, arg, timed, ran>>

\* cmn_pool_run_job loads job, ctx and the accounting flag.  Calling a NULL
\* job ends the process: the thread stays in "fault".
LoadJob(u) ==
    /\ pc[u] = "load"
    /\ arg' = [arg EXCEPT ![u] = job]
    /\ timed' = [timed EXCEPT ![u] = accounting]
    /\ ran' = [ran EXCEPT ![u] = Once(@)]
    /\ pc' = [pc EXCEPT ![u] = IF job = NoJob THEN "fault" ELSE "run"]
    /\ UNCHANGED <<poolVars, slotVars, callVars, seen>>

\* The job returns; an accounted one leaves its CPU time in the slot.
FinishJob(u) ==
    /\ pc[u] = "run"
    /\ cpu_fresh' = [cpu_fresh EXCEPT ![u] = @ \/ timed[u]]
    /\ pc' = [pc EXCEPT ![u] = "done"]
    /\ UNCHANGED <<poolVars, w_stopping, callVars, seen, arg, timed, ran>>

\* __sync_fetch_and_sub(&pool->remaining, 1), then back to the spin; the
\* locals of cmn_pool_run_job are gone.
CountDown(u) ==
    /\ pc[u] = "done"
    /\ remaining' = Drop(remaining)
    /\ pc' = [pc EXCEPT ![u] = "spin"]
    /\ arg' = [arg EXCEPT ![u] = NoJob]
    /\ timed' = [timed EXCEPT ![u] = FALSE]
    /\ UNCHANGED <<jobVars, generation, thread_count, stateVars, acctVars,
                   slotVars, callVars, seen, ran>>

Thread(u) ==
    \/ ThreadExit(u)
    \/ TakeGeneration(u)
    \/ TestActive(u)
    \/ LoadJob(u)
    \/ FinishJob(u)
    \/ CountDown(u)

-----------------------------------------------------------------------------
(***************************************************************************)
(* The controlling thread.  A call starts in "idle" and returns there with *)
(* its result in ret; in between cpc names the part of the call it is in.  *)
(***************************************************************************)

Return(r) == cpc' = "idle" /\ ret' = r

Growing == cpc \in {"grow_dispatch", "grow_ensure"}

\* The loop of cmn_pool_grow goes on.
StartsOneMore == Growing /\ thread_count <= req_threads
StartsMore == Growing /\ thread_count < req_threads

\* Mark the threads from slot t on as stopping.
StopAll(t) == w_stopping' = [u \in Slots |-> w_stopping[u] \/ u < thread_count]
StopFrom(t) ==
    w_stopping' = [u \in Slots |->
                     w_stopping[u] \/ u \in t .. thread_count - 1]

\* The value of start_generation.
StartFromZero == 0
StartGeneration == generation

\* The values cmn_pool_reset_state and cmn_pool_shutdown leave.
ClearPool ==
    /\ job' = NoJob
    /\ generation' = 0
    /\ thread_count' = 0
    /\ active_threads' = 0
    /\ remaining' = 0
    /\ stopping' = FALSE
    /\ w_stopping' = [u \in Slots |-> FALSE]

\* The head of cmn_pool_grow: the first use of the pool resets it and
\* registers cmn_pool_shutdown with atexit.
EnterGrow ==
    /\ initialized' = TRUE
    /\ atexit_registered' = TRUE
    /\ IF initialized
       THEN UNCHANGED <<job, active_threads, generation, thread_count,
                        remaining, stopping, w_stopping>>
       ELSE ClearPool
    /\ old_count' = thread_count

\* Arguments and a pool state the calls refuse.
BadDispatch(j, a) ==
    a = 0 \/ a > MaxThreads \/ j = NoJob \/ remaining # 0
BadEnsure(t) == t > MaxThreads \/ (initialized /\ remaining # 0)

RefuseDispatch(j, a) ==
    /\ cpc = "idle"
    /\ BadDispatch(j, a)
    /\ ret' = 0
    /\ UNCHANGED <<poolVars, slotVars, cpc, argVars, pending, outstanding,
                   threadVars, ran>>

RefuseEnsure(t) ==
    /\ cpc = "idle"
    /\ BadEnsure(t)
    /\ ret' = 0
    /\ UNCHANGED <<poolVars, slotVars, cpc, argVars, pending, outstanding,
                   threadVars, ran>>

\* atexit() fails on the first use: the pool stays uninitialized.
RefuseAtexit ==
    /\ cpc = "idle"
    /\ ~initialized /\ ~atexit_registered
    /\ ret' = 0
    /\ UNCHANGED <<poolVars, slotVars, cpc, argVars, pending, outstanding,
                   threadVars, ran>>

\* cmn_pool_dispatch, up to the loop of cmn_pool_grow.
CallDispatch(j, a) ==
    /\ cpc = "idle"
    /\ ~BadDispatch(j, a)
    /\ EnterGrow
    /\ cpc' = "grow_dispatch" /\ req_threads' = a /\ req_job' = j
    /\ UNCHANGED <<dispatch_accounting, acctVars, cpu_fresh, pending,
                   outstanding, ret, threadVars, ran>>

\* cmn_pool_shrink (also as the first half of cmn_pool_ensure) stops the
\* threads from t on.
CallShrink(t) ==
    /\ cpc = "idle"
    /\ initialized /\ t < thread_count
    /\ StopFrom(t)
    /\ generation' = Bump(generation)
    /\ req_threads' = t /\ cpc' = "join_surplus"
    /\ UNCHANGED <<jobVars, thread_count, remaining, stateVars, acctVars,
                   cpu_fresh, req_job, old_count, pending, outstanding, ret,
                   threadVars, ran>>

\* cmn_pool_ensure: after a shrink it has nothing left to grow.
CallEnsure(t) ==
    /\ cpc = "idle"
    /\ ~BadEnsure(t)
    /\ IF initialized /\ t < thread_count
       THEN CallShrink(t)
       ELSE /\ EnterGrow
            /\ cpc' = "grow_ensure" /\ req_threads' = t
            /\ UNCHANGED <<dispatch_accounting, acctVars, cpu_fresh, req_job,
                           pending, outstanding, ret, threadVars, ran>>

\* One turn of the loop of cmn_pool_grow: the new thread starts from the
\* current generation.
CreateThread ==
    /\ StartsMore
    /\ w_stopping' = [w_stopping EXCEPT ![thread_count] = FALSE]
    /\ seen' = [seen EXCEPT ![thread_count] = StartGeneration]
    /\ pc' = [pc EXCEPT ![thread_count] = "spin"]
    /\ thread_count' = thread_count + 1
    /\ UNCHANGED <<jobVars, generation, remaining, stateVars, acctVars,
                   cpu_fresh, callVars, arg, timed, ran>>

\* pthread_create fails: the threads this call started are stopped.
CreateFails ==
    /\ StartsMore
    /\ StopFrom(old_count)
    /\ generation' = Bump(generation)
    /\ cpc' = "join_failed"
    /\ UNCHANGED <<jobVars, thread_count, remaining, stateVars, acctVars,
                   cpu_fresh, argVars, pending, outstanding, ret, threadVars,
                   ran>>

\* The loop ends: cmn_pool_ensure returns, cmn_pool_dispatch goes on.
GrowDone ==
    /\ Growing
    /\ thread_count >= req_threads
    /\ IF cpc = "grow_dispatch"
       THEN cpc' = "publish" /\ pending' = Stores /\ UNCHANGED ret
       ELSE Return(1) /\ UNCHANGED pending
    /\ UNCHANGED <<poolVars, slotVars, argVars, outstanding, threadVars, ran>>

(***************************************************************************)
(* The stores of cmn_pool_dispatch before its fence.  job and ctx are not  *)
(* volatile, so the compiler may place them anywhere among the two         *)
(* volatile stores, which keep their order.                                *)
(***************************************************************************)
StoreJob ==
    /\ cpc = "publish" /\ "job" \in pending
    /\ job' = req_job
    /\ pending' = pending \ {"job"}
    /\ UNCHANGED <<active_threads, dispatch_accounting, generation,
                   thread_count, remaining, stateVars, acctVars, slotVars, cpc,
                   argVars, outstanding, ret, threadVars, ran>>

StoreActive ==
    /\ cpc = "publish" /\ "active" \in pending
    /\ active_threads' = req_threads
    /\ dispatch_accounting' = accounting
    /\ pending' = pending \ {"active"}
    /\ UNCHANGED <<job, generation, thread_count, remaining, stateVars,
                   acctVars, slotVars, cpc, argVars, outstanding, ret,
                   threadVars, ran>>

StoreRemaining ==
    /\ cpc = "publish" /\ "remaining" \in pending /\ "active" \notin pending
    /\ remaining' = req_threads
    /\ pending' = pending \ {"remaining"}
    /\ UNCHANGED <<jobVars, generation, thread_count, stateVars, acctVars,
                   slotVars, cpc, argVars, outstanding, ret, threadVars, ran>>

\* The fence and the generation bump: cmn_pool_dispatch returns 1.
PublishBump ==
    /\ cpc = "publish" /\ pending = {}
    /\ generation' = Bump(generation)
    /\ outstanding' = TRUE
    /\ Return(1)
    /\ UNCHANGED <<jobVars, thread_count, remaining, stateVars, acctVars,
                   slotVars, argVars, pending, threadVars, ran>>

\* cmn_pool_wait enters its spin.
CallWait ==
    /\ cpc = "idle" /\ outstanding
    /\ cpc' = "wait"
    /\ UNCHANGED <<poolVars, slotVars, argVars, pending, outstanding, ret,
                   threadVars, ran>>

\* cmn_pool_account: what the sum over the active slots is made of.
Account ==
    IF ~dispatch_accounting THEN "unavailable"
    ELSE IF \A u \in Slots : u < active_threads => cpu_fresh[u]
         THEN "exact" ELSE "stale"

\* What cmn_pool_wait spins on.
WaitOverOneLeft == remaining <= 1 \/ stopping
WaitOver == remaining = 0 \/ stopping

\* The spin of cmn_pool_wait ends; it accounts and forgets the job, or
\* returns 0 if it finds the pool stopping.
WaitDone ==
    /\ cpc = "wait"
    /\ WaitOver
    /\ outstanding' = FALSE
    /\ ran' = [u \in Slots |-> 0]
    /\ cpu_fresh' = [u \in Slots |-> FALSE]
    /\ IF stopping
       THEN Return(0) /\ UNCHANGED <<job, active_threads, last>>
       ELSE /\ Return(1)
            /\ last' = Account
            /\ job' = NoJob
            /\ active_threads' = 0
    /\ UNCHANGED <<dispatch_accounting, generation, thread_count, remaining,
                   stateVars, accounting, w_stopping, argVars, pending,
                   threadVars>>

\* pthread_join of every thread from slot t on; the slots are free again.
JoinAfter(t) ==
    /\ \A u \in Slots : u \in t + 1 .. thread_count - 1 => pc[u] = "exited"
    /\ pc' = [u \in Slots |-> IF u \in t + 1 .. thread_count - 1 THEN "none"
                                                                 ELSE pc[u]]
    /\ UNCHANGED <<seen, arg, timed>>

JoinFrom(t) ==
    /\ \A u \in Slots : u \in t .. thread_count - 1 => pc[u] = "exited"
    /\ pc' = [u \in Slots |-> IF u \in t .. thread_count - 1 THEN "none"
                                                             ELSE pc[u]]
    /\ seen' = [u \in Slots |-> IF u \in t .. thread_count - 1 THEN 0
                                                               ELSE seen[u]]
    /\ UNCHANGED <<arg, timed>>

FreeSlotsFrom(t) ==
    w_stopping' = [u \in Slots |->
                     w_stopping[u] /\ u \notin t .. thread_count - 1]

\* The end of cmn_pool_shrink.
SurplusJoined ==
    /\ cpc = "join_surplus"
    /\ JoinFrom(req_threads)
    /\ FreeSlotsFrom(req_threads)
    /\ thread_count' = req_threads
    /\ Return(1)
    /\ UNCHANGED <<jobVars, generation, remaining, stateVars, acctVars,
                   cpu_fresh, argVars, pending, outstanding, ran>>

\* The end of the error path of cmn_pool_grow.
FailedJoined ==
    /\ cpc = "join_failed"
    /\ JoinFrom(old_count)
    /\ FreeSlotsFrom(old_count)
    /\ thread_count' = old_count
    /\ Return(0)
    /\ UNCHANGED <<jobVars, generation, remaining, stateVars, acctVars,
                   cpu_fresh, argVars, pending, outstanding, ran>>

\* cmn_pool_shutdown stops every thread ...
CallShutdown ==
    /\ cpc = "idle" /\ initialized
    /\ stopping' = TRUE
    /\ generation' = Bump(generation)
    /\ cpc' = "join_all"
    /\ UNCHANGED <<jobVars, thread_count, remaining, initialized,
                   atexit_registered, acctVars, slotVars, argVars, pending,
                   outstanding, ret, threadVars, ran>>

\* ... joins them and clears the pool.
AllJoined ==
    /\ cpc = "join_all"
    /\ JoinFrom(0)
    /\ ClearPool
    /\ initialized' = FALSE
    /\ Return(1)
    /\ UNCHANGED <<dispatch_accounting, atexit_registered, acctVars, cpu_fresh,
                   argVars, pending, outstanding, ran>>

\* cmn_pool_set_accounting, refused while threads are still to count down.
SetAccountingAnyTime(b) ==
    /\ cpc = "idle"
    /\ accounting' = b /\ ret' = 1
    /\ UNCHANGED <<jobVars, generation, thread_count, remaining, stateVars,
                   last, slotVars, cpc, argVars, pending, outstanding,
                   threadVars, ran>>

SetAccounting(b) ==
    /\ cpc = "idle"
    /\ IF remaining = 0 THEN accounting' = b /\ ret' = 1
                        ELSE ret' = 0 /\ UNCHANGED accounting
    /\ UNCHANGED <<jobVars, generation, thread_count, remaining, stateVars,
                   last, slotVars, cpc, argVars, pending, outstanding,
                   threadVars, ran>>

-----------------------------------------------------------------------------
(***************************************************************************)
(* Specifications.  One controlling thread makes the calls; it waits for a *)
(* dispatch before it dispatches again or resizes, and may shut the pool   *)
(* down at any time (cmn_pool_shutdown is the atexit handler).             *)
(***************************************************************************)
Resize(t) == CallEnsure(t) \/ CallShrink(t)

Requests ==
    \/ \E j \in Jobs \cup {NoJob}, a \in 0 .. MaxThreads + 1 :
          RefuseDispatch(j, a)
    \/ \E t \in 0 .. MaxThreads + 1 : RefuseEnsure(t)
    \/ RefuseAtexit
    \/ \E t \in 0 .. MaxThreads : ~outstanding /\ Resize(t)
    \/ CallWait
    \/ CallShutdown
    \/ \E b \in BOOLEAN : SetAccounting(b)

Caller ==
    \/ CreateThread \/ CreateFails \/ GrowDone
    \/ StoreJob \/ StoreActive \/ StoreRemaining \/ PublishBump
    \/ WaitDone
    \/ SurplusJoined \/ FailedJoined \/ AllJoined

Threads == \E u \in Slots : Thread(u)

\* Slot u spins on the current generation.
Quiet(u) == pc[u] = "spin" /\ seen[u] = generation

Settled == \A u \in Slots : u < thread_count => Quiet(u)

\* Dispatches are made only when no thread still has an earlier generation
\* bump to take: idle threads had the time to go back to their spin.
SettledNext ==
    \/ Threads \/ Caller \/ Requests
    \/ \E j \in Jobs, a \in 1 .. MaxThreads :
          ~outstanding /\ Settled /\ CallDispatch(j, a)

SettledSpec == Init /\ [][SettledNext]_vars

\* Dispatches and waits alone, as fast as the caller makes them: no thread is
\* joined and none fails to start, but a dispatch may use fewer threads than
\* the pool has (cmn_pool.h: "leaves the surplus threads idle").
PromptNext ==
    \/ Threads
    \/ Caller /\ cpc' # "join_failed"
    \/ CallWait
    \/ \E j \in Jobs, a \in 1 .. MaxThreads : ~outstanding /\ CallDispatch(j, a)

PromptSpec == Init /\ [][PromptNext]_vars

\* The scheduler runs every thread that can run, the jobs return.
Fairness == WF_vars(Caller) /\ \A u \in Slots : WF_vars(Thread(u))

FairSettledSpec == SettledSpec /\ Fairness

(***************************************************************************)
(* How the pool is used: the benchmarks (e8/compare) empty it, size it     *)
(* once, use all its threads in every dispatch and empty it again; a       *)
(* sampler whose thread count does not change finds it empty or of that    *)
(* size.  Calls may be refused, and a process may exit at any time.        *)
(***************************************************************************)
HarnessRequests ==
    \/ \E t \in 0 .. MaxThreads : thread_count = 0 /\ ~outstanding
                                  /\ CallEnsure(t)
    \/ ~outstanding /\ CallShrink(0)
    \/ \E j \in Jobs \cup {NoJob}, a \in 0 .. MaxThreads + 1 :
          RefuseDispatch(j, a)
    \/ \E t \in 0 .. MaxThreads + 1 : RefuseEnsure(t)
    \/ RefuseAtexit
    \/ CallWait
    \/ CallShutdown
    \/ \E b \in BOOLEAN : SetAccounting(b)

HarnessNext ==
    \/ Threads \/ Caller \/ HarnessRequests
    \/ \E j \in Jobs, a \in 1 .. MaxThreads :
          ~outstanding /\ thread_count \in {0, a} /\ CallDispatch(j, a)

HarnessSpec == Init /\ [][HarnessNext]_vars

-----------------------------------------------------------------------------
(***************************************************************************)
(* Properties.                                                             *)
(***************************************************************************)
CallerAt == {"idle", "grow_dispatch", "grow_ensure", "publish", "wait",
             "join_surplus", "join_failed", "join_all"}
ThreadAt == {"none", "spin", "woken", "load", "run", "done", "fault",
             "exited"}

\* Every variable has its type.
TypeOK ==
    /\ job \in Jobs \cup {NoJob}
    /\ generation \in Generations
    /\ thread_count \in 0 .. MaxThreads
    /\ active_threads \in 0 .. MaxThreads
    /\ remaining \in 0 .. UintMax
    /\ initialized \in BOOLEAN /\ stopping \in BOOLEAN
    /\ accounting \in BOOLEAN /\ dispatch_accounting \in BOOLEAN
    /\ atexit_registered \in BOOLEAN /\ outstanding \in BOOLEAN
    /\ last \in {"none", "unavailable", "exact", "stale"}
    /\ w_stopping \in [Slots -> BOOLEAN]
    /\ cpu_fresh \in [Slots -> BOOLEAN]
    /\ cpc \in CallerAt
    /\ req_threads \in 0 .. MaxThreads
    /\ req_job \in Jobs \cup {NoJob}
    /\ old_count \in 0 .. MaxThreads
    /\ pending \in SUBSET Stores
    /\ ret \in {0, 1}
    /\ pc \in [Slots -> ThreadAt]
    /\ seen \in [Slots -> Generations]
    /\ arg \in [Slots -> Jobs \cup {NoJob}]
    /\ timed \in [Slots -> BOOLEAN]
    /\ ran \in [Slots -> 0 .. 2]

\* A dispatch is under way on a pool that was not shut down.
Forked == outstanding /\ initialized

\* Slot u is in the job, or on its way in or out.
InJob(u) == pc[u] \in {"load", "run", "done", "fault"}

\* No pool thread is in the job except between the dispatch and the return
\* of its wait: the caller may reuse or free the job's context (the workers
\* array on the stack of e8_sampler_run).
JobsOnlyInside == ~outstanding => \A u \in Slots : ~InJob(u)

\* A pool thread takes the job at most once per dispatch.
OncePerDispatch == \A u \in Slots : ran[u] <= 1

\* A thread in the job runs the job of the current dispatch, never NULL.
RightJob ==
    \A u \in Slots :
       /\ pc[u] \in {"run", "done"} => arg[u] = req_job
       /\ pc[u] # "fault"

\* An accounted dispatch sums only job times written in that dispatch.
AccountExact == last # "stale"

\* A thread exists exactly in the slots below thread_count, whatever failed,
\* was joined or was shut down on the way, and between calls none is marked
\* as stopping.
NoThreadLeaked ==
    /\ \A u \in Slots : (pc[u] = "none") <=> (u >= thread_count)
    /\ cpc = "idle" => \A u \in Slots : ~w_stopping[u] /\ pc[u] # "exited"

\* When the wait of a dispatch returns 1 on a live pool, exactly the slots
\* below active_threads have run the job, each once, and all have left it.
WaitMeansDone ==
    [][cpc = "wait" /\ cpc' = "idle" /\ ret' = 1 /\ initialized
         => \A u \in Slots :
               /\ ran[u] = (IF u < active_threads THEN 1 ELSE 0)
               /\ ~InJob(u)]_vars

\* A dispatch that fails leaves no job behind: nothing runs, nothing is to
\* count down, and the pool has the threads it had before.
FailureIsQuiet ==
    [][cpc = "join_failed" /\ cpc' = "idle"
         => /\ remaining' = 0 /\ thread_count' = old_count
            /\ \A u \in Slots : ~InJob(u)' /\ (u < old_count => pc[u]' # "exited")]_vars

\* Every call returns.
CallsReturn == cpc # "idle" ~> cpc = "idle"

\* cmn_pool.h: cmn_pool_wait "Returns 0 if the pool was shut down meanwhile".
WaitReportsShutdown ==
    [][cpc = "wait" /\ cpc' = "idle" /\ ~initialized => ret' = 0]_vars

(***************************************************************************)
(* The pool implements the fork and join of its header: a thread has taken *)
(* the task when it has loaded the job, and finished it when it counted    *)
(* down.                                                                   *)
(***************************************************************************)
Abstract == INSTANCE ForkJoin WITH
    MaxWorkers <- MaxThreads,
    Tasks <- Jobs,
    NoTask <- NoJob,
    phase <- IF Forked THEN "forked"
             ELSE IF outstanding THEN "abandoned" ELSE "idle",
    task <- IF Forked THEN req_job ELSE NoJob,
    size <- IF Forked THEN active_threads ELSE 0,
    taken <- {u \in Slots : ran[u] > 0},
    finished <- {u \in Slots : ran[u] > 0 /\ ~InJob(u)}

\* Every behaviour of the pool is one of the abstract fork and join.
ImplementsForkJoin == Abstract!Spec

\* ... in which every worker that may take or finish the task does so.
ImplementsFairForkJoin == Abstract!FairSpec

-----------------------------------------------------------------------------
(***************************************************************************)
(* The inductive invariant of SettledSpec.                                 *)
(***************************************************************************)

\* Threads, slots and stop flags.
SlotInv ==
    /\ \A u \in Slots : (pc[u] = "none") <=> (u >= thread_count)
    /\ \A u \in Slots : w_stopping[u] =>
          \/ cpc = "join_surplus" /\ u \in req_threads .. thread_count - 1
          \/ cpc = "join_failed" /\ u \in old_count .. thread_count - 1
    /\ \A u \in Slots : pc[u] = "exited" => stopping \/ w_stopping[u]
    /\ stopping <=> cpc = "join_all"

\* Where the controlling thread is and what it knows there.
CallInv ==
    /\ cpc \notin {"idle", "wait"} => initialized
    /\ ~initialized => thread_count = 0 /\ active_threads = 0 /\ remaining = 0
    /\ cpc \notin {"idle", "wait", "join_all"} => ~outstanding
    /\ cpc = "wait" => outstanding
    /\ cpc = "join_surplus" => req_threads < thread_count
    /\ cpc \in {"grow_dispatch", "grow_ensure", "join_failed"}
         => old_count <= thread_count
    /\ cpc \in {"grow_dispatch", "publish"}
         => Settled /\ req_threads > 0 /\ req_job \in Jobs
    /\ cpc = "publish" => req_threads <= thread_count

\* Outside a dispatch no thread is in the job and nothing is published but
\* by the stores of a dispatch under way.
Stored(x) == cpc = "publish" /\ x \notin pending

RestInv ==
    ~outstanding =>
       /\ \A u \in Slots : ~InJob(u) /\ ran[u] = 0 /\ ~cpu_fresh[u]
       /\ active_threads = IF Stored("active") THEN req_threads ELSE 0
       /\ remaining = IF Stored("remaining") THEN req_threads ELSE 0
       /\ job = IF Stored("job") THEN req_job ELSE NoJob
       /\ Stored("active") => dispatch_accounting = accounting

\* An active thread before it takes the job, in it, and after it.
Before(u) ==
    /\ pc[u] \in {"spin", "woken", "load", "exited"}
    /\ ran[u] = 0
    /\ pc[u] = "spin" /\ ~stopping => seen[u] # generation
    /\ pc[u] \in {"woken", "load"} /\ ~stopping => seen[u] = generation

Inside(u) ==
    /\ pc[u] \in {"run", "done"}
    /\ ran[u] = 1
    /\ ~stopping => seen[u] = generation
    /\ arg[u] = req_job
    /\ timed[u] = dispatch_accounting
    /\ pc[u] = "done" => (dispatch_accounting => cpu_fresh[u])

After(u) ==
    /\ pc[u] \in {"spin", "exited"}
    /\ ran[u] = 1
    /\ ~stopping => seen[u] = generation
    /\ dispatch_accounting => cpu_fresh[u]

Surplus(u) == pc[u] \in {"none", "spin", "woken", "exited"} /\ ran[u] = 0

Unfinished == {u \in Slots : u < active_threads /\ (ran[u] = 0 \/ InJob(u))}

\* During a dispatch every active thread is in one of the three phases, the
\* others stay out, and remaining counts the threads that have not finished.
ForkInv ==
    Forked =>
       /\ active_threads = req_threads /\ active_threads > 0
       /\ active_threads <= thread_count
       /\ job = req_job /\ req_job \in Jobs
       /\ \A u \in Slots :
             IF u < active_threads THEN Before(u) \/ Inside(u) \/ After(u)
                                   ELSE Surplus(u)
       /\ remaining = Cardinality(Unfinished)
       /\ remaining # 0 => accounting = dispatch_accounting

\* After a shutdown inside a dispatch every thread is gone.
ShutInv == ~initialized /\ outstanding => \A u \in Slots : ran[u] <= 1

\* The inductive invariant: what makes the count in remaining exact at every
\* step of every interleaving.
IInv ==
    /\ TypeOK
    /\ SlotInv
    /\ CallInv
    /\ RestInv
    /\ ForkInv
    /\ ShutInv
    /\ AccountExact
=============================================================================
