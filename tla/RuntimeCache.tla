---------------------------- MODULE RuntimeCache ----------------------------
(***************************************************************************)
(* The cache of tables built at run time, e8_rt_get() and e8_rt_build() of *)
(* e8/src/e8_sampler_runtime.c: a list of tables by sigma, searched and    *)
(* extended under a mutex.  A table found or built is then read without    *)
(* the mutex, for as long as its caller likes; it is never freed.          *)
(***************************************************************************)
EXTENDS HotRow

CONSTANTS
    Threads, NoThread,
    Sigmas, NoSigma,   \* bit patterns of sigma_sign, and that of calloc's zero
    Cells, NULL,       \* what the heap has room for
    Classes,           \* E8_TAB_CLASSES (13): the rows of a table
    Platforms          \* the weights and slips that exp() gives each row

ASSUME ThreadsAssumption == NoThread \notin Threads
ASSUME SigmasAssumption == NoSigma \notin Sigmas
ASSUME CellsAssumption == NULL \notin Cells
ASSUME ClassesAssumption == Classes \in Nat \ {0}
ASSUME PlatformsAssumption ==
    \A p \in Platforms : \A s \in Sigmas : \A j \in 1 .. Classes :
       p[s][j].weights \in Seq(Nat) /\ p[s][j].slip \in Int

VARIABLES
    platform,      \* of each sigma and row, fixed
    geometry_ok,   \* the static of e8_rt_build: -1 before the first check
    mutex,         \* e8_rt_cache_mutex: who holds it
    list,          \* e8_rt_cache_list, the head first
    cell,          \* the heap: each cache entry's sigma_sign_bits and rows
    \* Each thread: where it is in e8_rt_get, its argument, its place in the
    \* list, its local, and what it was given
    pc, sigma, place, cache, given

heapVars == <<list, cell>>
threadVars == <<pc, sigma, place, cache, given>>
vars == <<platform, geometry_ok, mutex, heapVars, threadVars>>

Free == [live |-> FALSE, bits |-> NoSigma, rows |-> <<>>]
Zeroed == [Free EXCEPT !.live = TRUE]

RowOf(s, j) == Row(platform[s][j].weights, platform[s][j].slip)

Init ==
    /\ platform \in Platforms
    /\ geometry_ok = -1
    /\ mutex = NoThread
    /\ list = <<>>
    /\ cell = [c \in Cells |-> Free]
    /\ pc = [t \in Threads |-> "idle"]
    /\ sigma = [t \in Threads |-> NoSigma]
    /\ place = [t \in Threads |-> 0]
    /\ cache = [t \in Threads |-> NULL]
    /\ given = [t \in Threads |-> NULL]

At(t, here) == pc[t] = here
Goto(t, there) == pc' = [pc EXCEPT ![t] = there]

\* A sigma that is not positive is refused before the mutex is taken.
Refuse(t) ==
    /\ At(t, "idle")
    /\ given' = [given EXCEPT ![t] = NULL]
    /\ UNCHANGED <<platform, geometry_ok, mutex, heapVars, pc, sigma, place,
                   cache>>

Call(t, s) ==
    /\ At(t, "idle")
    /\ sigma' = [sigma EXCEPT ![t] = s]
    /\ Goto(t, "lock")
    /\ UNCHANGED <<platform, geometry_ok, mutex, heapVars, place, cache, given>>

\* pthread_mutex_lock.
LockAny(t) == TRUE
LockFree(t) == mutex = NoThread

Lock(t) ==
    /\ At(t, "lock") /\ LockFree(t)
    /\ mutex' = t
    /\ place' = [place EXCEPT ![t] = 1]
    /\ Goto(t, "search")
    /\ UNCHANGED <<platform, geometry_ok, heapVars, sigma, cache, given>>

\* A turn of the search.
FoundAny(t) == TRUE
Found(t) == cell[list[place[t]]].bits = sigma[t]

Search(t) ==
    /\ At(t, "search") /\ place[t] <= Len(list)
    /\ IF Found(t)
       THEN cache' = [cache EXCEPT ![t] = list[place[t]]] /\ Goto(t, "unlock")
            /\ UNCHANGED place
       ELSE place' = [place EXCEPT ![t] = @ + 1] /\ UNCHANGED <<pc, cache>>
    /\ UNCHANGED <<platform, geometry_ok, mutex, heapVars, sigma, given>>

\* It is not there: calloc.
Allocate(t, c) ==
    /\ At(t, "search") /\ place[t] > Len(list)
    /\ ~cell[c].live
    /\ cell' = [cell EXCEPT ![c] = Zeroed]
    /\ cache' = [cache EXCEPT ![t] = c]
    /\ Goto(t, "build")
    /\ UNCHANGED <<platform, geometry_ok, mutex, list, sigma, place, given>>

AllocateFails(t) ==
    /\ At(t, "search") /\ place[t] > Len(list)
    /\ cache' = [cache EXCEPT ![t] = NULL]
    /\ Goto(t, "unlock")
    /\ UNCHANGED <<platform, geometry_ok, mutex, heapVars, sigma, place, given>>

\* The head of e8_rt_build: the first call of the program checks the geometry,
\* and finds it good or bad.
StartBuild(t) ==
    /\ At(t, "build")
    /\ geometry_ok' \in IF geometry_ok < 0 THEN {0, 1} ELSE {geometry_ok}
    /\ IF geometry_ok' = 1
       THEN cell' = [cell EXCEPT ![cache[t]].bits = sigma[t]] /\ Goto(t, "rows")
       ELSE UNCHANGED cell /\ Goto(t, "free")
    /\ UNCHANGED <<platform, mutex, list, sigma, place, cache, given>>

\* A row is built, or cannot be: there is no mass, or no memory.
BuildRow(t) ==
    LET built == cell[cache[t]].rows
        row == RowOf(sigma[t], Len(built) + 1)
    IN  /\ At(t, "rows") /\ Len(built) < Classes
        /\ row # NoRow
        /\ cell' = [cell EXCEPT ![cache[t]].rows = Append(built, row)]
        /\ UNCHANGED <<platform, geometry_ok, mutex, list, threadVars>>

\* A row, or the component masses after them, cannot be built.
BuildFails(t) ==
    /\ At(t, "rows")
    /\ Goto(t, "free")
    /\ UNCHANGED <<platform, geometry_ok, mutex, heapVars, sigma, place, cache,
                   given>>

\* The entry is freed, and NULL returned.
FreeEntry(t) ==
    /\ At(t, "free")
    /\ cell' = [cell EXCEPT ![cache[t]] = Free]
    /\ cache' = [cache EXCEPT ![t] = NULL]
    /\ Goto(t, "unlock")
    /\ UNCHANGED <<platform, geometry_ok, mutex, list, sigma, place, given>>

\* The entry is pushed on the list, once it is built.
BuiltAll(t) == Len(cell[cache[t]].rows) = Classes

Push(t) ==
    /\ At(t, "rows") /\ BuiltAll(t)
    /\ list' = <<cache[t]>> \o list
    /\ Goto(t, "unlock")
    /\ UNCHANGED <<platform, geometry_ok, mutex, cell, sigma, place, cache,
                   given>>

\* The mutex is released, and the entry or NULL returned.
ReleasedOnSuccess(t) == IF cache[t] = NULL THEN mutex ELSE NoThread
Released(t) == NoThread

Unlock(t) ==
    /\ At(t, "unlock")
    /\ mutex' = Released(t)
    /\ given' = [given EXCEPT ![t] = cache[t]]
    /\ sigma' = [sigma EXCEPT ![t] = NoSigma]
    /\ place' = [place EXCEPT ![t] = 0]
    /\ cache' = [cache EXCEPT ![t] = NULL]
    /\ Goto(t, "idle")
    /\ UNCHANGED <<platform, geometry_ok, heapVars>>

-----------------------------------------------------------------------------
Step(t) ==
    \/ Lock(t) \/ Search(t)
    \/ (\E c \in Cells : Allocate(t, c)) \/ AllocateFails(t)
    \/ StartBuild(t) \/ BuildFails(t) \/ BuildRow(t) \/ FreeEntry(t) \/ Push(t)
    \/ Unlock(t)

Next ==
    \E t \in Threads :
       \/ Refuse(t)
       \/ \E s \in Sigmas : Call(t, s)
       \/ Step(t)

Spec == Init /\ [][Next]_vars

\* Threads run.  Nothing is assumed of who gets the mutex next.
FairSpec == Spec /\ \A t \in Threads : WF_vars(Step(t))
-----------------------------------------------------------------------------
(***************************************************************************)
(* Properties.                                                             *)
(***************************************************************************)

\* The table of a sigma is the entry on the list that has it.
Holds(c, s) == c \in ToSet(list) /\ cell[c].bits = s

TableOf(s) == IF \E c \in Cells : Holds(c, s)
              THEN CHOOSE c \in Cells : Holds(c, s)
              ELSE NULL

Map == INSTANCE TableMap WITH
    Handles <- Cells,
    table <- [s \in Sigmas |-> TableOf(s)],
    asking <- sigma,
    answer <- given

\* The threads see one table per sigma, the same every time, and are refused
\* one only if there is none: the cache implements TableMap.
ImplementsTableMap == Map!Spec

\* A table that a thread was given has all its rows, of its own sigma, and
\* every draw from them finds a value, whatever the rounding of the sums; a
\* value has one entry, and where the sums are exact the words that give a
\* hot value are as many as its weight's share, but for one.
GivenTableSamples ==
    \A t \in Threads : given[t] # NULL =>
       LET e == cell[given[t]]
       IN  /\ Len(e.rows) = Classes
           /\ \A j \in 1 .. Classes :
                 /\ AlwaysSamples(e.rows[j])
                 /\ OneEntryPerValue(e.rows[j])
                 /\ platform[e.bits][j].slip = 0 =>
                       HotSharesClose(e.rows[j], platform[e.bits][j].weights)

\* The mutex is always given back, also when memory runs out, the geometry
\* does not match or a row cannot be built.
MutexReleased == \A t \in Threads : mutex = t ~> mutex # t

-----------------------------------------------------------------------------
(***************************************************************************)
(* The inductive invariant.                                                *)
(***************************************************************************)
Places == {"idle", "lock", "search", "build", "rows", "free", "unlock"}
Inside(t) == pc[t] \notin {"idle", "lock"}
Building(t) == pc[t] \in {"build", "rows", "free"}

IsEntry(e) ==
    /\ e = [live |-> e.live, bits |-> e.bits, rows |-> e.rows]
    /\ e.live \in BOOLEAN /\ e.bits \in Sigmas \cup {NoSigma}
    /\ e.rows \in Seq(ToSet(e.rows))

TypeOK ==
    /\ geometry_ok \in {-1, 0, 1}
    /\ mutex \in Threads \cup {NoThread}
    /\ list \in Seq(Cells)
    /\ cell = [c \in Cells |-> cell[c]]
    /\ \A c \in Cells : IsEntry(cell[c])
    /\ pc \in [Threads -> Places]
    /\ sigma \in [Threads -> Sigmas \cup {NoSigma}]
    /\ place \in [Threads -> Nat]
    /\ cache \in [Threads -> Cells \cup {NULL}]
    /\ given \in [Threads -> Cells \cup {NULL}]

\* The thread inside holds the mutex, and has looked at the list up to its
\* place; the entry it builds is on no list and is live, as those on the list.
ThreadOK(t) ==
    /\ Inside(t) <=> mutex = t
    /\ sigma[t] = NoSigma <=> pc[t] = "idle"
    /\ pc[t] \in {"search", "build", "rows", "free"} =>
          \A i \in DOMAIN list : i < place[t] => cell[list[i]].bits # sigma[t]
    /\ pc[t] = "search" => place[t] \in 1 .. Len(list) + 1
    /\ Building(t) => /\ place[t] = Len(list) + 1
                      /\ cache[t] \in Cells /\ cell[cache[t]].live
                      /\ cache[t] \notin ToSet(list)
    /\ pc[t] = "build" => cell[cache[t]].rows = <<>>
    /\ pc[t] = "rows" => /\ cell[cache[t]].bits = sigma[t]
                         /\ Len(cell[cache[t]].rows) <= Classes
    /\ pc[t] = "unlock" =>
          IF cache[t] = NULL
          THEN \A i \in DOMAIN list : cell[list[i]].bits # sigma[t]
          ELSE Holds(cache[t], sigma[t])
    /\ given[t] = NULL \/ given[t] \in ToSet(list)

ThreadInv == \A t \in Threads : ThreadOK(t)

\* The rows of an entry are those of its sigma, in their order.
RowsInv ==
    \A c \in Cells : c \in ToSet(list) \/ (\E t \in Threads : pc[t] = "rows" /\ cache[t] = c)
       => /\ cell[c].bits \in Sigmas /\ cell[c].live
          /\ \A j \in DOMAIN cell[c].rows :
                /\ cell[c].rows[j] = RowOf(cell[c].bits, j)
                /\ cell[c].rows[j] # NoRow

\* The entries on the list are complete, and one per sigma.
ListInv ==
    /\ \A i \in DOMAIN list : Len(cell[list[i]].rows) = Classes
    /\ \A i, j \in DOMAIN list :
          cell[list[i]].bits = cell[list[j]].bits => i = j

CacheInv ==
    /\ TypeOK
    /\ ThreadInv
    /\ RowsInv
    /\ ListInv
=============================================================================
