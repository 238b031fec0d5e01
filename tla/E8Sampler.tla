------------------------------ MODULE E8Sampler ------------------------------
(***************************************************************************)
(* The full-dimension E8 sampler, e8_sampler_run() of e8/src/e8_sampler.c  *)
(* with the range loop e8h_sample_range() of e8/src/e8_sampler_hot.c: one  *)
(* call draws a seed, splits the k = n / 4 blocks of the lattice vector    *)
(* into one range per worker, runs worker 0 itself and the others on the   *)
(* pool, waits, and reduces their results.                                 *)
(*                                                                         *)
(* The pool is the fork and join that module CmnPool is shown to           *)
(* implement: pool slot u runs worker u + 1.  Workers interleave block by  *)
(* block.  What a block is sampled to is a choice: its squared norm, or a  *)
(* failure of the block sampler.                                           *)
(***************************************************************************)
EXTENDS Integers, FiniteSets, Functions

CONSTANTS
    BlockCount,   \* k, a quarter of the degree n
    MaxThreads,   \* E8_SAMPLER_MAX_THREADS (24)
    Cpus,         \* what sysconf() says of the processors
    Settings,     \* thread counts the application sets, 0 for automatic
    Norms,        \* squared norms of a block
    NormMax       \* UINT64_MAX

ASSUME BlockCountAssumption == BlockCount \in Nat \ {0}
ASSUME MaxThreadsAssumption == MaxThreads \in Nat /\ MaxThreads > 1
ASSUME CpusAssumption == Cpus \in Nat \ {0}
ASSUME SettingsAssumption == Settings \subseteq Nat
ASSUME NormsAssumption == NormMax \in Nat /\ Norms \subseteq 0 .. NormMax

VARIABLES
    thread_override,   \* e8_sampler_thread_override
    \* The call: where it is, its locals and results
    cpc,
    thread_count,
    rng_mode,          \* "worker" or "block"
    acc,
    reduced,           \* u of the reduction loop
    pnorm_out,
    ret,
    \* The caller's z0 and z1: for each cell, the cell whose label bit the
    \* sample in it was drawn for
    z,
    \* The workers: where each is, and the fields of e8_sampler_worker
    wpc,
    cursor,            \* r of the range loop
    ok,
    norm2,
    streamed,          \* w->rng: blocks drawn from the worker's streams
    counted,           \* what the call added to e8_sampler_rng_total
    \* The pool
    phase, task, size, taken, finished,
    \* History: the norm drawn for each block of the call
    drawn

planVars == <<thread_count, rng_mode>>
sumVars == <<acc, reduced>>
callVars == <<cpc, planVars, sumVars, pnorm_out, ret>>
workerVars == <<wpc, cursor, ok, norm2, streamed>>
poolVars == <<phase, task, size, taken, finished>>
vars == <<thread_override, callVars, z, workerVars, counted, poolVars, drawn>>

Blocks == 0 .. BlockCount - 1
Workers == 0 .. MaxThreads - 1
Cells == {0, 1} \X (0 .. 4 * BlockCount - 1)
NoCell == <<>>

NotDrawn == -1
Failed == -2

Pool == INSTANCE ForkJoin WITH
    MaxWorkers <- MaxThreads - 1, Tasks <- {"sample"}, NoTask <- "none"

Init ==
    /\ thread_override = 1
    /\ cpc = "idle" /\ thread_count = 0 /\ rng_mode = "worker"
    /\ acc = 0 /\ reduced = 0 /\ pnorm_out = 0 /\ ret = 0
    /\ z = [c \in Cells |-> NoCell]
    /\ wpc = [w \in Workers |-> "off"]
    /\ cursor = [w \in Workers |-> 0]
    /\ ok = [w \in Workers |-> FALSE]
    /\ norm2 = [w \in Workers |-> 0]
    /\ streamed = [w \in Workers |-> 0]
    /\ counted = 0
    /\ Pool!Init
    /\ drawn = [r \in Blocks |-> NotDrawn]

-----------------------------------------------------------------------------
(***************************************************************************)
(* Threads, ranges and cells.                                              *)
(***************************************************************************)

AtMost(x, bound) == IF x > bound THEN bound ELSE x

\* e8_sampler_resolve_thread_count: an automatic count is one per processor.
ResolveThreads(configured) ==
    LET threads == IF configured = 0 THEN Cpus ELSE configured
    IN  AtMost(AtMost(threads, MaxThreads), BlockCount)

\* e8_sampler_apply_auto_policy: an automatic count forces the bound
\* per-worker streams.
AutoMode(configured, mode) == IF configured = 0 THEN "worker" ELSE mode

\* The range of worker u among t: Start(u, t) up to Start(u + 1, t) - 1.
EvenStart(u, t) == (BlockCount \div t) * u
Start(u, t) == (BlockCount * u) \div t

\* The cells e8_extract_tau reads the label of block r from, and the cells
\* e8_write_block writes the block to, by coordinate 0 .. 7.
TauCell(r, i) == <<i \div 4, r + (i % 4) * BlockCount>>
PackedCell(r, i) == <<i \div 4, 4 * r + (i % 4)>>
ZCell(r, i) == <<i \div 4, r + (i % 4) * BlockCount>>

WriteBlock(r) ==
    [c \in Cells |->
       IF \E i \in 0 .. 7 : c = ZCell(r, i)
       THEN TauCell(r, CHOOSE i \in 0 .. 7 : c = ZCell(r, i))
       ELSE z[c]]

-----------------------------------------------------------------------------
(***************************************************************************)
(* The call.                                                               *)
(***************************************************************************)

\* e8_sampler_set_thread_count.
SetThreads(t) ==
    /\ cpc = "idle"
    /\ thread_override' = t
    /\ UNCHANGED <<callVars, z, workerVars, counted, poolVars, drawn>>

\* The head of e8_sampler_run: the seed is drawn, z cleared, the workers
\* set up.
Call(mode) ==
    /\ cpc = "idle"
    /\ thread_count' = ResolveThreads(thread_override)
    /\ rng_mode' = AutoMode(thread_override, mode)
    /\ cpc' = IF thread_count' = 1 THEN "own" ELSE "dispatch"
    /\ acc' = 0 /\ reduced' = 0
    /\ z' = [c \in Cells |-> NoCell]
    /\ cursor' = [w \in Workers |->
                    IF w < thread_count' THEN Start(w, thread_count') ELSE 0]
    /\ wpc' = [w \in Workers |->
                 IF w = 0 /\ thread_count' = 1 THEN "range" ELSE "off"]
    /\ ok' = [w \in Workers |-> FALSE]
    /\ norm2' = [w \in Workers |-> 0]
    /\ streamed' = [w \in Workers |-> 0]
    /\ counted' = 0
    /\ drawn' = [r \in Blocks |-> NotDrawn]
    /\ UNCHANGED <<thread_override, pnorm_out, ret, poolVars>>

Return(r) == cpc' = "idle" /\ ret' = r

\* The pool takes the job, and the call goes on to its own range.
Dispatch ==
    /\ cpc = "dispatch"
    /\ Pool!Fork("sample", thread_count - 1)
    /\ cpc' = "own"
    /\ wpc' = [wpc EXCEPT ![0] = "range"]
    /\ UNCHANGED <<thread_override, planVars, sumVars, pnorm_out, ret, z,
                   cursor, ok, norm2, streamed, counted, drawn>>

\* cmn_pool_dispatch returns 0: a thread could not be created.
DispatchFails ==
    /\ cpc = "dispatch"
    /\ Return(0)
    /\ UNCHANGED <<thread_override, planVars, sumVars, pnorm_out, z,
                   workerVars, counted, poolVars, drawn>>

\* Worker 0 is done; a threaded call waits, a serial one reduces.
NoWait == "reduce"
AfterOwn == IF thread_count = 1 THEN "reduce" ELSE "wait"

OwnDone ==
    /\ cpc = "own" /\ wpc[0] = "done"
    /\ cpc' = AfterOwn
    /\ UNCHANGED <<thread_override, planVars, sumVars, pnorm_out, ret, z,
                   workerVars, counted, poolVars, drawn>>

\* cmn_pool_wait returns.
Wait ==
    /\ cpc = "wait"
    /\ Pool!Join
    /\ cpc' = "reduce"
    /\ UNCHANGED <<thread_override, planVars, sumVars, pnorm_out, ret, z,
                   workerVars, counted, drawn>>

\* A worker the reduction stops at.
BadWorkerUnchecked(w) == ~ok[w]
BadWorkerByNorm(w) == NormMax - acc < norm2[w]
BadWorker(w) == ~ok[w] \/ NormMax - acc < norm2[w]

\* One turn of the reduction loop: the counters of the worker are added
\* before its result is looked at.
Reduce ==
    /\ cpc = "reduce" /\ reduced < thread_count
    /\ counted' = counted + streamed[reduced]
    /\ IF BadWorker(reduced)
       THEN Return(0) /\ UNCHANGED sumVars
       ELSE /\ acc' = acc + norm2[reduced]
            /\ reduced' = reduced + 1
            /\ UNCHANGED <<cpc, ret>>
    /\ UNCHANGED <<thread_override, planVars, pnorm_out, z, workerVars,
                   poolVars, drawn>>

\* Every worker is reduced: the call returns 1.
Succeed ==
    /\ cpc = "reduce" /\ reduced = thread_count
    /\ pnorm_out' = acc
    /\ Return(1)
    /\ UNCHANGED <<thread_override, planVars, sumVars, z, workerVars, counted,
                   poolVars, drawn>>

-----------------------------------------------------------------------------
(***************************************************************************)
(* The workers.                                                            *)
(***************************************************************************)

\* Pool slot u takes the job: e8_sampler_worker_run starts on worker u + 1.
TakeJob(u) ==
    /\ Pool!Take(u)
    /\ wpc' = [wpc EXCEPT ![u + 1] = "range"]
    /\ UNCHANGED <<thread_override, callVars, z, cursor, ok, norm2, streamed,
                   counted, drawn>>

RoundedUpEnd(w) == (BlockCount * (w + 1) + thread_count - 1) \div thread_count
EndOfRange(w) == Start(w + 1, thread_count)

\* One turn of the range loop.  The block is written before its norm is
\* added, and a sum that would wrap ends the range as a failed block does.
SampleBlock(w, n2) ==
    /\ wpc[w] = "range" /\ cursor[w] < EndOfRange(w)
    /\ streamed' = [streamed EXCEPT ![w] = @ + 1]
    /\ z' = WriteBlock(cursor[w])
    /\ drawn' = [drawn EXCEPT ![cursor[w]] = n2]
    /\ IF NormMax - norm2[w] < n2
       THEN /\ wpc' = [wpc EXCEPT ![w] = "done"]
            /\ UNCHANGED <<cursor, norm2>>
       ELSE /\ norm2' = [norm2 EXCEPT ![w] = @ + n2]
            /\ cursor' = [cursor EXCEPT ![w] = @ + 1]
            /\ UNCHANGED wpc
    /\ UNCHANGED <<thread_override, callVars, ok, counted, poolVars>>

\* The block sampler fails.
BlockFails(w) ==
    /\ wpc[w] = "range" /\ cursor[w] < EndOfRange(w)
    /\ streamed' = [streamed EXCEPT ![w] = @ + 1]
    /\ drawn' = [drawn EXCEPT ![cursor[w]] = Failed]
    /\ wpc' = [wpc EXCEPT ![w] = "done"]
    /\ UNCHANGED <<thread_override, callVars, z, cursor, ok, norm2, counted,
                   poolVars>>

\* The range is done.
RangeDone(w) ==
    /\ wpc[w] = "range" /\ cursor[w] = EndOfRange(w)
    /\ ok' = [ok EXCEPT ![w] = TRUE]
    /\ wpc' = [wpc EXCEPT ![w] = "done"]
    /\ UNCHANGED <<thread_override, callVars, z, cursor, norm2, streamed,
                   counted, poolVars, drawn>>

\* The job returns to the pool thread, the range sampled or not.
SampledOnly(u) == wpc[u + 1] = "done" /\ ok[u + 1]
JobOver(u) == wpc[u + 1] = "done"

FinishJob(u) ==
    /\ JobOver(u)
    /\ Pool!Finish(u)
    /\ UNCHANGED <<thread_override, callVars, z, workerVars, counted, drawn>>

-----------------------------------------------------------------------------
WorkerStep(w) ==
    \/ \E n2 \in Norms : SampleBlock(w, n2)
    \/ BlockFails(w)
    \/ RangeDone(w)

CallStep ==
    \/ Dispatch \/ DispatchFails \/ OwnDone \/ Wait \/ Reduce \/ Succeed

PoolStep(u) == TakeJob(u) \/ FinishJob(u)

Next ==
    \/ \E t \in Settings : SetThreads(t)
    \/ \E mode \in {"worker", "block"} : Call(mode)
    \/ CallStep
    \/ \E w \in Workers : WorkerStep(w)
    \/ \E u \in 0 .. MaxThreads - 2 : PoolStep(u)

Spec == Init /\ [][Next]_vars

\* The threads run: the call, and each worker; the pool's part of it is what
\* CmnPool is shown to grant.
Fairness ==
    /\ WF_vars(CallStep)
    /\ \A w \in Workers : WF_vars(WorkerStep(w))
    /\ \A u \in 0 .. MaxThreads - 2 : WF_vars(PoolStep(u))

FairSpec == Spec /\ Fairness

-----------------------------------------------------------------------------
(***************************************************************************)
(* Properties.                                                             *)
(***************************************************************************)

\* Every variable has its type.
TypeOK ==
    /\ thread_override \in Settings \cup {1}
    /\ cpc \in {"idle", "dispatch", "own", "wait", "reduce"}
    /\ thread_count \in 0 .. MaxThreads
    /\ rng_mode \in {"worker", "block"}
    /\ acc \in 0 .. NormMax
    /\ reduced \in 0 .. MaxThreads
    /\ pnorm_out \in 0 .. NormMax
    /\ ret \in {0, 1}
    /\ z \in [Cells -> Cells \cup {NoCell}]
    /\ wpc \in [Workers -> {"off", "range", "done"}]
    /\ cursor \in [Workers -> 0 .. BlockCount]
    /\ ok \in [Workers -> BOOLEAN]
    /\ norm2 \in [Workers -> 0 .. NormMax]
    /\ streamed \in [Workers -> 0 .. BlockCount]
    /\ counted \in 0 .. BlockCount
    /\ drawn \in [Blocks -> Norms \cup {NotDrawn, Failed}]

\* When a call returns 1, every coefficient of z0 and z1 holds the sample
\* that was drawn for the target bit at the same place: no block is left
\* out, cut short or written elsewhere, whatever the number of threads.
CosetMatches == cpc = "idle" /\ ret = 1 => \A c \in Cells : z[c] = c

\* The sum of the norms drawn.
Total == SumFunction(drawn)

\* A call that got its job to the pool returns 1 exactly when every block
\* was sampled and the sum of their norms fits, and then it is that sum, in
\* whatever order the workers ran.
ResultExact ==
    [][cpc = "reduce" /\ cpc' = "idle"
         => /\ ret' = 1 <=> (\A r \in Blocks : drawn[r] >= 0) /\ Total <= NormMax
            /\ ret' = 1 => pnorm_out' = Total]_vars

\* No block is drawn twice in a call: the ranges of the workers do not
\* overlap, so that no two threads write the same coefficient.
RangesDisjoint ==
    [][\A r \in Blocks :
         drawn[r] # NotDrawn /\ cpc # "idle" => drawn'[r] = drawn[r]]_vars

\* No worker runs when the call is not there to wait for it: its record is
\* on the stack of e8_sampler_run, its output in the caller's buffers.
NoStrayWorker ==
    cpc \in {"idle", "dispatch", "reduce"} =>
       \A w \in Workers : wpc[w] # "range" /\ phase = "idle"

\* Every call returns, also one with workers that fail.
CallReturns == cpc # "idle" ~> cpc = "idle"

\* hawk_e8_inner.h: the counters are "summed over every ... call", so that
\* a caller that reads them before and after has the sampler's random bytes.
CountersCoverCall ==
    [][cpc # "idle" /\ cpc' = "idle"
         => counted' = Cardinality({r \in Blocks : drawn[r] # NotDrawn})]_vars

-----------------------------------------------------------------------------
(***************************************************************************)
(* The inductive invariant.                                                *)
(***************************************************************************)
Calling == cpc # "idle"

\* The pool has the job from the dispatch to the end of the wait.
PoolInv ==
    /\ Calling => thread_count > 0
    /\ cpc \in {"dispatch", "wait"} => thread_count > 1
    /\ phase \in {"idle", "forked"}
    /\ phase = "idle" => taken = {} /\ finished = {}
    /\ phase = "forked" =>
          /\ cpc \in {"own", "wait"} /\ size = thread_count - 1
          /\ taken \subseteq 0 .. size - 1 /\ finished \subseteq taken
    /\ cpc = "own" => (phase = "idle" <=> thread_count = 1)
    /\ cpc = "wait" => phase = "forked"

\* A worker that runs is worker 0 in its own part of the call, or has taken
\* the job and not finished it; one that has finished it is done.
WorkerInv ==
    /\ cpc \in {"idle", "reduce"} => \A w \in Workers : wpc[w] # "range"
    /\ cpc = "reduce" =>
          \A w \in Workers : w < thread_count => wpc[w] = "done"
    /\ \A w \in Workers : w > 0 /\ w - 1 \in finished => wpc[w] = "done"
    /\ cpc = "dispatch" => \A w \in Workers : wpc[w] = "off"
    /\ cpc = "wait" => wpc[0] = "done"
    /\ \A w \in Workers : w > 0 /\ wpc[w] = "range" =>
          phase = "forked" /\ w - 1 \in taken \ finished
    /\ phase = "idle" /\ cpc = "own" =>
          \A w \in Workers : w > 0 => wpc[w] = "off"
    /\ \A w \in Workers : w > 0 /\ phase = "forked" /\ w - 1 \notin taken =>
          wpc[w] = "off"

\* How far each worker is in its range, and what it has written.
First(w) == Start(w, thread_count)
Owns(w, r) == w < thread_count /\ First(w) <= r /\ r < First(w + 1)
Written(r) == \A i \in 0 .. 7 : z[ZCell(r, i)] = TauCell(r, i)

\* The norms drawn for blocks that follow each other.
DrawnBetween(from, to) == SumFunctionOnSet(drawn, from .. to - 1)

\* What made a worker give up: a block that failed, or a norm too much.
GaveUp(w) ==
    /\ cursor[w] < First(w + 1)
    /\ \/ drawn[cursor[w]] = Failed
       \/ drawn[cursor[w]] \in Norms /\ NormMax - norm2[w] < drawn[cursor[w]]

RangeInv ==
    Calling =>
       /\ \A w \in Workers : w < thread_count =>
             /\ cursor[w] \in First(w) .. First(w + 1)
             /\ ok[w] => cursor[w] = First(w + 1) /\ wpc[w] = "done"
             /\ streamed[w] <= First(w + 1) - First(w)
             /\ wpc[w] # "done" => streamed[w] = cursor[w] - First(w)
             /\ norm2[w] = DrawnBetween(First(w), cursor[w])
             /\ wpc[w] = "done" /\ ~ok[w] => GaveUp(w)
       /\ \A w \in Workers : w >= thread_count => wpc[w] = "off"
       /\ \A w \in Workers, r \in Blocks :
             Owns(w, r) /\ r < cursor[w] => Written(r) /\ drawn[r] \in Norms
       /\ \A r \in Blocks : drawn[r] # NotDrawn =>
             \E w \in Workers :
                Owns(w, r) /\ (r < cursor[w] \/ wpc[w] = "done")

\* What the reduction has seen so far.
ReduceInv ==
    Calling =>
       /\ reduced <= thread_count
       /\ cpc # "reduce" => reduced = 0
       /\ counted <= First(reduced)
       /\ acc = DrawnBetween(0, First(reduced))
       /\ \A w \in Workers : w < reduced => ok[w]

\* The inductive invariant: what makes the ranges of the workers tile the
\* blocks, and the workers stay inside the call.
SampleInv ==
    /\ TypeOK
    /\ PoolInv
    /\ WorkerInv
    /\ RangeInv
    /\ ReduceInv
    /\ CosetMatches
=============================================================================
