----------------------------- MODULE HawkSplit -----------------------------
(***************************************************************************)
(* The samplers the HAWK signer calls for its vector x of 2n coordinates:  *)
(* upstream's own, which samples in one go, and the benchmarks' split      *)
(* sampler hawkv_sampler_split() of                                        *)
(* e8/compare/hawk_variants/hawk_variants.c, which cuts the coordinates    *)
(* into one range per worker, runs worker 0 itself and the others on the   *)
(* pool, waits and adds up.  Pool slot u runs worker u + 1, on the fork    *)
(* and join that module CmnPool is shown to implement.                     *)
(*                                                                         *)
(* The signer gives the target, and its memory the coordinates: module     *)
(* HawkSign composes the two.                                              *)
(***************************************************************************)
EXTENDS Integers, Functions

CONSTANTS
    Degree,       \* n
    MaxThreads,   \* HAWKV_MAX_THREADS (24)
    CoordNorms,   \* squares of a coordinate
    NormTop,      \* UINT32_MAX
    Junk          \* what a coordinate holds that is no sample

\* The squares of 2n coordinates of eight bits add up to less than 2^32.
ASSUME DegreeAssumption == Degree \in Nat \ {0}
ASSUME ThreadsAssumption == MaxThreads \in Nat /\ MaxThreads > 1
ASSUME CoordNormsAssumption ==
    /\ CoordNorms \subseteq Nat /\ NormTop \in Nat
    /\ \A c \in CoordNorms : 2 * Degree * c < NormTop

VARIABLES
    split,     \* the selected variant has a range sampler
    threads,   \* hawkv_threads
    \* The call: where it is, its target and locals, its result
    spc,
    target,
    u, sn, ok,
    xsn,
    \* The coordinates x0 and x1 in the signer's buffer: a sample of a
    \* target, with its square, or something else
    x,
    \* The workers: where each is, its v and acc, and the fields of hawkv_worker
    wpc, cursor, acc, wsn, wok,
    \* The pool
    phase, task, size, taken, finished

selectVars == <<split, threads>>
callVars == <<spc, target, u, sn, ok, xsn>>
workerVars == <<wpc, cursor, acc, wsn, wok>>
poolVars == <<phase, task, size, taken, finished>>
splitVars == <<selectVars, callVars, x, workerVars, poolVars>>

Coordinates == 0 .. 2 * Degree - 1
Workers == 0 .. MaxThreads - 1

Sample(t, c) == [of |-> t, square |-> c]

Pool == INSTANCE ForkJoin WITH
    MaxWorkers <- MaxThreads - 1, Tasks <- {"sample"}, NoTask <- "none"

SplitInit ==
    /\ split = FALSE /\ threads = 1
    /\ spc = "off" /\ target = Junk
    /\ u = 0 /\ sn = 0 /\ ok = TRUE /\ xsn = 0
    /\ x = [v \in Coordinates |-> Junk]
    /\ wpc = [w \in Workers |-> "off"]
    /\ cursor = [w \in Workers |-> 0]
    /\ acc = [w \in Workers |-> 0]
    /\ wsn = [w \in Workers |-> 0]
    /\ wok = [w \in Workers |-> FALSE]
    /\ Pool!Init

\* hawkv_select.
Select(s, t) ==
    /\ spc = "off"
    /\ split' = s /\ threads' = t
    /\ UNCHANGED <<callVars, x, workerVars, poolVars>>

-----------------------------------------------------------------------------
(***************************************************************************)
(* The call.                                                               *)
(***************************************************************************)
SquareSum(y) == SumFunction([v \in DOMAIN y |-> y[v].square])

\* sig_gauss and sig_gauss_alt: every coordinate is sampled.
SampleAll(t) ==
    /\ spc = "off"
    /\ \E c \in [Coordinates -> CoordNorms] :
          x' = [v \in Coordinates |-> Sample(t, c[v])]
    /\ xsn' = SquareSum(x')
    /\ UNCHANGED <<selectVars, spc, target, u, sn, ok, workerVars, poolVars>>

EvenStart(w) == ((2 * Degree) \div threads) * w
RangeStart(w) == (2 * Degree * w) \div threads

\* The head of hawkv_sampler_split: the workers are set up.  What the cells
\* hold from before is no sample of this call.
SplitCall(t) ==
    /\ spc = "off"
    /\ target' = t
    /\ u' = 0 /\ sn' = 0 /\ ok' = TRUE
    /\ cursor' = [w \in Workers |-> IF w < threads THEN RangeStart(w) ELSE 0]
    /\ acc' = [w \in Workers |-> 0]
    /\ wsn' = [w \in Workers |-> 0]
    /\ wok' = [w \in Workers |-> FALSE]
    /\ spc' = IF threads = 1 THEN "own" ELSE "dispatch"
    /\ wpc' = [w \in Workers |->
                 IF w = 0 /\ threads = 1 THEN "range" ELSE "off"]
    /\ xsn' = 0 /\ x' = [v \in Coordinates |-> Junk]
    /\ UNCHANGED <<selectVars, poolVars>>

\* The call returns, and its locals are gone, workers[] among them; a worker
\* that still runs does not know.
Return(norm) ==
    /\ spc' = "off" /\ xsn' = norm
    /\ target' = Junk
    /\ u' = 0 /\ sn' = 0 /\ ok' = TRUE
    /\ wpc' = [w \in Workers |-> IF wpc[w] = "done" THEN "off" ELSE wpc[w]]
    /\ cursor' = [w \in Workers |-> IF wpc[w] = "range" THEN cursor[w] ELSE 0]
    /\ acc' = [w \in Workers |-> 0] /\ wsn' = [w \in Workers |-> 0]
    /\ wok' = [w \in Workers |-> FALSE]

Dispatch ==
    /\ spc = "dispatch"
    /\ Pool!Fork("sample", threads - 1)
    /\ spc' = "own"
    /\ wpc' = [wpc EXCEPT ![0] = "range"]
    /\ UNCHANGED <<selectVars, target, u, sn, ok, xsn, x, cursor, acc, wsn,
                   wok>>

\* cmn_pool_dispatch returns 0: a thread could not be created.
DispatchFails ==
    /\ spc = "dispatch"
    /\ Return(NormTop)
    /\ UNCHANGED <<selectVars, x, poolVars>>

\* Worker 0 is done: a threaded call waits for the others.
AfterOwn == IF threads = 1 THEN "sum" ELSE "wait"

OwnDone ==
    /\ spc = "own" /\ wpc[0] = "done"
    /\ spc' = AfterOwn
    /\ UNCHANGED <<selectVars, target, u, sn, ok, xsn, x, workerVars, poolVars>>

Wait ==
    /\ spc = "wait"
    /\ Pool!Join
    /\ spc' = "sum"
    /\ UNCHANGED <<selectVars, target, u, sn, ok, xsn, x, workerVars>>

\* One turn of the loop that adds up: every worker is looked at.
AddUp ==
    /\ spc = "sum" /\ u < threads
    /\ u' = u + 1
    /\ sn' = sn + wsn[u]
    /\ ok' = (ok /\ wok[u])
    /\ UNCHANGED <<selectVars, spc, target, xsn, x, workerVars, poolVars>>

\* The norm the call returns: above every bound when a range failed.
NormAnyway == sn
NormOrTop == IF ok THEN sn ELSE NormTop

SplitReturn ==
    /\ spc = "sum" /\ u = threads
    /\ Return(NormOrTop)
    /\ UNCHANGED <<selectVars, x, poolVars>>

-----------------------------------------------------------------------------
(***************************************************************************)
(* The workers: hawkv_worker_run() over HH_RANGE or hawkv_ref_range().     *)
(***************************************************************************)
TakeJob(s) ==
    /\ Pool!Take(s)
    /\ wpc' = [wpc EXCEPT ![s + 1] = "range"]
    /\ UNCHANGED <<selectVars, callVars, x, cursor, acc, wsn, wok>>

\* A coordinate is sampled, for its bit of the target, and written.
SampleCoordinate(w, c) ==
    /\ wpc[w] = "range" /\ cursor[w] < RangeStart(w + 1)
    /\ x' = [x EXCEPT ![cursor[w]] = Sample(target, c)]
    /\ acc' = [acc EXCEPT ![w] = @ + c]
    /\ cursor' = [cursor EXCEPT ![w] = @ + 1]
    /\ UNCHANGED <<selectVars, callVars, wpc, wsn, wok, poolVars>>

\* No threshold of the tables reached: the range fails, its norm not added.
CoordinateFails(w) ==
    /\ wpc[w] = "range" /\ cursor[w] < RangeStart(w + 1)
    /\ wpc' = [wpc EXCEPT ![w] = "done"]
    /\ UNCHANGED <<selectVars, callVars, x, cursor, acc, wsn, wok, poolVars>>

RangeDone(w) ==
    /\ wpc[w] = "range" /\ cursor[w] = RangeStart(w + 1)
    /\ wsn' = [wsn EXCEPT ![w] = acc[w]]
    /\ wok' = [wok EXCEPT ![w] = TRUE]
    /\ wpc' = [wpc EXCEPT ![w] = "done"]
    /\ UNCHANGED <<selectVars, callVars, x, cursor, acc, poolVars>>

\* The job returns to the pool thread, the range sampled or not.
SampledOnly(s) == wpc[s + 1] = "done" /\ wok[s + 1]
JobOver(s) == wpc[s + 1] = "done"

FinishJob(s) ==
    /\ JobOver(s)
    /\ Pool!Finish(s)
    /\ UNCHANGED <<selectVars, callVars, x, workerVars>>

-----------------------------------------------------------------------------
WorkerStep(w) ==
    \/ \E c \in CoordNorms : SampleCoordinate(w, c)
    \/ CoordinateFails(w)
    \/ RangeDone(w)

PoolStep(s) == TakeJob(s) \/ FinishJob(s)

\* What the split sampler does once it is called.
CallStep ==
    \/ Dispatch \/ DispatchFails \/ OwnDone \/ Wait \/ AddUp \/ SplitReturn

SplitStep ==
    \/ CallStep
    \/ \E w \in Workers : WorkerStep(w)
    \/ \E s \in 0 .. MaxThreads - 2 : PoolStep(s)

-----------------------------------------------------------------------------
(***************************************************************************)
(* Properties.                                                             *)
(***************************************************************************)

\* A norm that is returned, other than the one above every bound, is that of
\* the vector the coordinates hold, and every coordinate was sampled for the
\* call's target, in whatever order the workers ran; a range that fails, or a
\* job that is refused, never passes for a short vector.
SplitExact ==
    [][spc # "off" /\ spc' = "off" /\ xsn' # NormTop
         => /\ \A v \in Coordinates :
                  x[v] \in {Sample(target, c) : c \in CoordNorms}
            /\ xsn' = SquareSum(x)]_splitVars
-----------------------------------------------------------------------------
(***************************************************************************)
(* The inductive invariant of the split sampler.                           *)
(***************************************************************************)
SplitTypeOK ==
    /\ split \in BOOLEAN /\ threads \in 1 .. MaxThreads
    /\ spc \in {"off", "dispatch", "own", "wait", "sum"}
    /\ u \in 0 .. MaxThreads /\ sn \in Nat /\ ok \in BOOLEAN /\ xsn \in Nat
    /\ x = [v \in Coordinates |-> x[v]]
    /\ wpc \in [Workers -> {"off", "range", "done"}]
    /\ cursor \in [Workers -> 0 .. 2 * Degree]
    /\ acc \in [Workers -> Nat] /\ wsn \in [Workers -> Nat]
    /\ wok \in [Workers -> BOOLEAN]

\* The pool has the job from the dispatch to the end of the wait.
PoolInv ==
    /\ spc \in {"dispatch", "wait"} => threads > 1
    /\ phase \in {"idle", "forked"}
    /\ phase = "idle" => taken = {} /\ finished = {}
    /\ phase = "forked" =>
          /\ spc \in {"own", "wait"} /\ size = threads - 1
          /\ taken \subseteq 0 .. size - 1 /\ finished \subseteq taken
    /\ spc = "own" => (phase = "idle" <=> threads = 1)
    /\ spc = "wait" => phase = "forked"

\* A worker that runs is worker 0 in its own part of the call, or has taken
\* the job and not finished it.
WorkerInv ==
    /\ spc \in {"off", "sum"} => \A w \in Workers : wpc[w] # "range"
    /\ spc \in {"off", "dispatch"} => \A w \in Workers : wpc[w] = "off"
    /\ spc = "wait" => wpc[0] = "done"
    /\ \A w \in Workers : w > 0 /\ wpc[w] = "range" =>
          phase = "forked" /\ w - 1 \in taken \ finished
    /\ phase = "idle" /\ spc = "own" =>
          \A w \in Workers : w > 0 => wpc[w] = "off"
    /\ \A w \in Workers : w > 0 /\ phase = "forked" /\ w - 1 \notin taken =>
          wpc[w] = "off"

\* How far each worker is in its range, and what it has written and added up.
Sampled(v, t) == x[v] \in {Sample(t, c) : c \in CoordNorms}
InRange(w, v) == RangeStart(w) <= v /\ v < RangeStart(w + 1)

\* The squares of coordinates that follow each other.
NormBetween(y, from, to) ==
    SumFunctionOnSet([v \in from .. to - 1 |-> y[v].square], from .. to - 1)

RangeInv ==
    spc # "off" =>
       /\ \A w \in Workers : w < threads =>
             /\ cursor[w] \in RangeStart(w) .. RangeStart(w + 1)
             /\ acc[w] = NormBetween(x, RangeStart(w), cursor[w])
             /\ wok[w] => /\ cursor[w] = RangeStart(w + 1) /\ wpc[w] = "done"
                          /\ wsn[w] = acc[w]
       /\ \A w \in Workers : w >= threads => wpc[w] = "off"
       /\ \A w \in Workers, v \in Coordinates :
             w < threads /\ InRange(w, v) /\ v < cursor[w] => Sampled(v, target)

\* What the loop that adds up has seen.
SumInv ==
    spc # "off" =>
       /\ u <= threads
       /\ spc # "sum" => u = 0
       /\ ok => /\ \A w \in Workers : w < u => wok[w]
                /\ sn = NormBetween(x, 0, RangeStart(u))

SplitInv ==
    /\ SplitTypeOK
    /\ PoolInv
    /\ WorkerInv
    /\ RangeInv
    /\ SumInv
=============================================================================
