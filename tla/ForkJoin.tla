------------------------------ MODULE ForkJoin ------------------------------
(***************************************************************************)
(* What the worker pool promises its caller (e8/common/cmn_pool.h): a      *)
(* dispatch hands one task to workers 0 .. size-1, each takes it once and  *)
(* finishes it, and the join returns when all have finished.  If the pool  *)
(* is shut down first, the task is abandoned: no worker is in it any more  *)
(* and the join returns at once.                                           *)
(***************************************************************************)
EXTENDS Integers

CONSTANTS MaxWorkers, Tasks, NoTask

VARIABLES
    phase,        \* "idle", "forked" or "abandoned"
    task, size,   \* what was forked, to how many workers
    taken,        \* the workers that took the task
    finished      \* those that finished it

vars == <<phase, task, size, taken, finished>>

Workers == 0 .. MaxWorkers - 1

Init ==
    /\ phase = "idle" /\ task = NoTask /\ size = 0
    /\ taken = {} /\ finished = {}

Fork(j, a) ==
    /\ phase = "idle"
    /\ phase' = "forked" /\ task' = j /\ size' = a
    /\ UNCHANGED <<taken, finished>>

Take(w) ==
    /\ phase = "forked" /\ w < size /\ w \notin taken
    /\ taken' = taken \cup {w}
    /\ UNCHANGED <<phase, task, size, finished>>

Finish(w) ==
    /\ phase = "forked" /\ w \in taken \ finished
    /\ finished' = finished \cup {w}
    /\ UNCHANGED <<phase, task, size, taken>>

Leave ==
    /\ phase' = "idle" /\ task' = NoTask /\ size' = 0
    /\ taken' = {} /\ finished' = {}

Join ==
    /\ phase = "forked" /\ finished = 0 .. size - 1
    /\ Leave

Abandon ==
    /\ phase = "forked" /\ finished = taken
    /\ phase' = "abandoned" /\ task' = NoTask /\ size' = 0
    /\ UNCHANGED <<taken, finished>>

LeaveAbandoned == phase = "abandoned" /\ Leave

Next ==
    \/ \E j \in Tasks, a \in 1 .. MaxWorkers : Fork(j, a)
    \/ \E w \in Workers : Take(w) \/ Finish(w)
    \/ Join
    \/ Abandon
    \/ LeaveAbandoned

Spec == Init /\ [][Next]_vars

\* Workers that can take the task or finish it do so.
FairSpec == Spec /\ \A w \in Workers : WF_vars(Take(w)) /\ WF_vars(Finish(w))
=============================================================================
