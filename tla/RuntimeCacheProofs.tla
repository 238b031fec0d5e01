------------------------- MODULE RuntimeCacheProofs -------------------------
(***************************************************************************)
(* Proofs about RuntimeCache, for every number of threads, sigmas, cells   *)
(* and rows of a table: its inductive invariant, that a table never        *)
(* changes once a thread was given it, that the cache implements TableMap, *)
(* and, for all weights, that the rows of HotRow have a value for every    *)
(* draw, once, with the share of words that is its weight's.               *)
(*                                                                         *)
(* And about E8BlockSampler, which samples from such rows and from the     *)
(* generated tables, for all laws, cosets and sources of words: that a     *)
(* block is made of its component and its coordinates exactly, and that    *)
(* none fails.                                                             *)
(***************************************************************************)
EXTENDS RuntimeCache, E8BlockSampler, DataTheorems

\* A sequence over a set is one over its own elements, and has those that it
\* has at its places.
LEMMA OwnElements ==
    ASSUME NEW S, NEW s \in Seq(S)
    PROVE  /\ s \in Seq(ToSet(s))
           /\ Len(s) \in Nat /\ DOMAIN s = 1 .. Len(s)
           /\ \A i \in 1 .. Len(s) : s[i] \in ToSet(s)
BY LenProperties DEF ToSet

\* Appending to a sequence leaves its places as they were.
LEMMA Appended ==
    ASSUME NEW S, NEW s \in Seq(S), NEW e
    PROVE  /\ Append(s, e) \in Seq(ToSet(Append(s, e)))
           /\ Len(Append(s, e)) = Len(s) + 1
           /\ DOMAIN Append(s, e) = 1 .. Len(s) + 1
           /\ \A i \in 1 .. Len(s) : Append(s, e)[i] = s[i]
           /\ Append(s, e)[Len(s) + 1] = e
<1>1. s \in Seq(S \cup {e}) /\ e \in S \cup {e}
  BY SeqMonotonic
<1>2. /\ Append(s, e) \in Seq(S \cup {e})
      /\ Len(Append(s, e)) = Len(s) + 1
      /\ \A i \in 1 .. Len(s) : Append(s, e)[i] = s[i]
      /\ Append(s, e)[Len(s) + 1] = e
  BY <1>1, AppendProperties
<1>3. QED
  BY <1>2, OwnElements

\* What is pushed in front of a sequence is its first element, and the others
\* move up.
LEMMA Pushed ==
    ASSUME NEW S, NEW s \in Seq(S), NEW e \in S
    PROVE  /\ <<e>> \o s \in Seq(S)
           /\ Len(<<e>> \o s) = Len(s) + 1
           /\ DOMAIN (<<e>> \o s) = 1 .. Len(s) + 1
           /\ (<<e>> \o s)[1] = e
           /\ \A i \in 2 .. Len(s) + 1 : /\ (<<e>> \o s)[i] = s[i - 1]
                                        /\ i - 1 \in DOMAIN s
           /\ ToSet(<<e>> \o s) = {e} \cup ToSet(s)
<1>1. /\ Len(s) \in Nat /\ DOMAIN s = 1 .. Len(s)
      /\ <<e>> \in Seq(S) /\ Len(<<e>>) = 1 /\ <<e>>[1] = e
  BY LenProperties
<1>2. /\ <<e>> \o s \in Seq(S)
      /\ Len(<<e>> \o s) = Len(s) + 1
      /\ \A i \in 1 .. Len(s) + 1 :
            (<<e>> \o s)[i] = IF i <= 1 THEN <<e>>[i] ELSE s[i - 1]
  BY <1>1, ConcatProperties
<1>3. DOMAIN (<<e>> \o s) = 1 .. Len(s) + 1
  BY <1>2, LenProperties
<1>4. /\ (<<e>> \o s)[1] = e
      /\ \A i \in 2 .. Len(s) + 1 : /\ (<<e>> \o s)[i] = s[i - 1]
                                   /\ i - 1 \in DOMAIN s
  BY <1>1, <1>2
<1>5. ASSUME NEW i \in DOMAIN s
      PROVE  i + 1 \in 1 .. Len(s) + 1 /\ (<<e>> \o s)[i + 1] = s[i]
  BY <1>1, <1>2
<1>6. ToSet(<<e>> \o s) = {e} \cup ToSet(s)
  <2> DEFINE l == <<e>> \o s
  <2>1. ToSet(l) \subseteq {e} \cup ToSet(s)
    <3>1. SUFFICES ASSUME NEW i \in 1 .. Len(s) + 1
                   PROVE  l[i] \in {e} \cup ToSet(s)
      BY <1>3 DEF ToSet
    <3>2. i = 1 \/ i \in 2 .. Len(s) + 1
      BY <1>1
    <3>3. QED
      BY <1>4, <3>2 DEF ToSet
  <2>2. e \in ToSet(l)
    BY <1>1, <1>3, <1>4 DEF ToSet
  <2>3. ToSet(s) \subseteq ToSet(l)
    BY <1>3, <1>5 DEF ToSet
  <2>4. QED
    BY <2>1, <2>2, <2>3
<1>7. QED
  BY <1>2, <1>3, <1>4, <1>6

-----------------------------------------------------------------------------
(***************************************************************************)
(* The inductive invariant.                                                *)
(***************************************************************************)
\* An entry with one field written has its other fields as they were.
LEMMA EntryUpdates ==
    ASSUME NEW x, NEW y,
           x = [live |-> x.live, bits |-> x.bits, rows |-> x.rows]
    PROVE  /\ [x EXCEPT !.live = y] = [live |-> y, bits |-> x.bits, rows |-> x.rows]
           /\ [x EXCEPT !.bits = y] = [live |-> x.live, bits |-> y, rows |-> x.rows]
           /\ [x EXCEPT !.rows = y] = [live |-> x.live, bits |-> x.bits, rows |-> y]
OBVIOUS

\* What calloc gives is an entry without rows, and so is a free cell.
LEMMA FreshEntry ==
    /\ IsEntry(Free) /\ Free.rows = <<>> /\ ~Free.live
    /\ IsEntry(Zeroed) /\ Zeroed.rows = <<>> /\ Zeroed.live
<1>1. <<>> \in Seq(ToSet(<<>>))
  BY EmptySeq
<1>2. /\ Free = [live |-> FALSE, bits |-> NoSigma, rows |-> <<>>]
      /\ Zeroed = [live |-> TRUE, bits |-> NoSigma, rows |-> <<>>]
  <2>1. Free = [live |-> FALSE, bits |-> NoSigma, rows |-> <<>>]
    BY DEF Free
  <2>2. Free = [live |-> Free.live, bits |-> Free.bits, rows |-> Free.rows]
    BY <2>1
  <2>3. Zeroed = [live |-> TRUE, bits |-> Free.bits, rows |-> Free.rows]
    BY <2>2, EntryUpdates, Zenon DEF Zeroed
  <2>4. QED
    BY <2>1, <2>3
<1>3. ASSUME NEW b \in BOOLEAN, NEW e,
             e = [live |-> b, bits |-> NoSigma, rows |-> <<>>]
      PROVE  IsEntry(e) /\ e.rows = <<>> /\ e.live = b
  <2>1. /\ e = [live |-> e.live, bits |-> e.bits, rows |-> e.rows]
        /\ e.live = b /\ e.bits = NoSigma /\ e.rows = <<>>
    BY <1>3
  <2>2. e.rows \in Seq(ToSet(e.rows))
    BY <1>1, <2>1, Zenon
  <2>3. QED
    BY <2>1, <2>2 DEF IsEntry
<1>4. QED
  BY <1>2, <1>3

\* At the start there is no table, and nobody holds the mutex.
LEMMA InitCache == Init => CacheInv
<1> SUFFICES ASSUME Init PROVE CacheInv
  OBVIOUS
<1>1. TypeOK
  <2>1. <<>> \in Seq(Cells)
    BY EmptySeq
  <2>2. cell = [c \in Cells |-> cell[c]] /\ \A c \in Cells : IsEntry(cell[c])
    BY FreshEntry DEF Init
  <2>3. /\ geometry_ok \in {-1, 0, 1}
        /\ mutex \in Threads \cup {NoThread}
        /\ pc \in [Threads -> Places]
        /\ sigma \in [Threads -> Sigmas \cup {NoSigma}]
        /\ place \in [Threads -> Nat]
        /\ cache \in [Threads -> Cells \cup {NULL}]
        /\ given \in [Threads -> Cells \cup {NULL}]
    BY DEF Init, Places
  <2>4. list \in Seq(Cells)
    BY <2>1 DEF Init
  <2>5. QED
    BY <2>2, <2>3, <2>4 DEF TypeOK
<1>2. ThreadInv
  BY ThreadsAssumption DEF Init, ThreadInv, ThreadOK, Inside, Building
<1>3. RowsInv
  BY DEF Init, RowsInv, ToSet
<1>4. ListInv
  BY DEF Init, ListInv
<1>5. QED
  BY <1>1, <1>2, <1>3, <1>4 DEF CacheInv

\* The thread inside is alone.
LEMMA Alone ==
    ASSUME CacheInv, NEW t \in Threads, Inside(t)
    PROVE  /\ mutex = t
           /\ sigma[t] \in Sigmas /\ sigma[t] # NoSigma
           /\ \A u \in Threads \ {t} : pc[u] \in {"idle", "lock"} /\ mutex # u
<1>1. mutex = t
  BY DEF CacheInv, ThreadInv, ThreadOK
<1>2. \A u \in Threads \ {t} : pc[u] \in {"idle", "lock"}
  BY <1>1 DEF CacheInv, ThreadInv, ThreadOK, Inside
<1>3. pc[t] # "idle"
  BY DEF Inside
<1>4. sigma[t] # NoSigma
  BY <1>3 DEF CacheInv, ThreadInv, ThreadOK
<1>5. sigma[t] \in Sigmas
  BY <1>4 DEF CacheInv, TypeOK
<1>6. QED
  BY <1>1, <1>2, <1>4, <1>5

\* The list is a sequence of cells.
LEMMA ListFacts ==
    ASSUME CacheInv
    PROVE  /\ list \in Seq(Cells) /\ Len(list) \in Nat
           /\ DOMAIN list = 1 .. Len(list)
           /\ \A i \in 1 .. Len(list) : list[i] \in Cells /\ list[i] \in ToSet(list)
           /\ ToSet(list) \subseteq Cells
<1>1. list \in Seq(Cells)
  BY DEF CacheInv, TypeOK
<1>2. QED
  BY <1>1, LenProperties, ElementOfSeq DEF ToSet

\* A step that leaves the list and the cells alone, and brings no thread to
\* "rows", leaves the rows and the list as they were.
LEMMA HeapKept ==
    ASSUME CacheInv, UNCHANGED <<platform, heapVars>>,
           \A u \in Threads : pc'[u] = "rows" => pc[u] = "rows" /\ cache'[u] = cache[u]
    PROVE  RowsInv' /\ ListInv'
<1>1. list' = list /\ cell' = cell /\ platform' = platform
  BY DEF heapVars
<1>2. RowsInv'
  BY <1>1 DEF CacheInv, RowsInv, RowOf
<1>3. ListInv'
  BY <1>1 DEF CacheInv, ListInv
<1>4. QED
  BY <1>2, <1>3

\* What a thread outside is sure of, no step of another thread disturbs.
LEMMA OutsideKept ==
    ASSUME CacheInv, NEW u \in Threads, pc[u] \in {"idle", "lock"},
           pc'[u] = pc[u], sigma'[u] = sigma[u], given'[u] = given[u],
           mutex' # u, ToSet(list) \subseteq ToSet(list')
    PROVE  ThreadOK(u)'
BY DEF CacheInv, ThreadInv, ThreadOK, Inside, Building

\* A thread that is refused holds nothing.
LEMMA RefuseStep ==
    ASSUME CacheInv, NEW t \in Threads, Refuse(t)
    PROVE  CacheInv'
<1>1. RowsInv' /\ ListInv'
  BY HeapKept DEF Refuse
<1>2. TypeOK'
  BY DEF CacheInv, TypeOK, Refuse, heapVars
<1>3. given'[t] = NULL /\ \A u \in Threads \ {t} : given'[u] = given[u]
  BY DEF Refuse, CacheInv, TypeOK
<1>4. ThreadInv'
  <2> SUFFICES ASSUME NEW u \in Threads PROVE ThreadOK(u)'
    BY DEF ThreadInv
  <2>1. ThreadOK(u)
    BY DEF CacheInv, ThreadInv
  <2>2. QED
    BY <1>3, <2>1 DEF ThreadOK, Refuse, heapVars, Inside, Building, Holds
<1>5. QED
  BY <1>1, <1>2, <1>4 DEF CacheInv

\* A call waits for the mutex.
LEMMA CallStep ==
    ASSUME CacheInv, NEW t \in Threads, NEW s \in Sigmas, Call(t, s)
    PROVE  CacheInv'
<1>1. /\ pc[t] = "idle" /\ pc'[t] = "lock" /\ sigma'[t] = s
      /\ \A u \in Threads \ {t} : pc'[u] = pc[u] /\ sigma'[u] = sigma[u]
  BY DEF Call, At, Goto, CacheInv, TypeOK
<1>2. UNCHANGED <<platform, heapVars, mutex, place, cache, given>>
  BY DEF Call
<1>3. RowsInv' /\ ListInv'
  BY <1>1, <1>2, HeapKept
<1>4. TypeOK'
  BY DEF CacheInv, TypeOK, Call, Goto, heapVars, Places
<1>5. ThreadInv'
  <2> SUFFICES ASSUME NEW u \in Threads PROVE ThreadOK(u)'
    BY DEF ThreadInv
  <2>1. ThreadOK(u)
    BY DEF CacheInv, ThreadInv
  <2>2. CASE u = t
    BY <1>1, <1>2, <2>1, <2>2, SigmasAssumption
    DEF ThreadOK, heapVars, Inside, Building
  <2>3. CASE u # t
    BY <1>1, <1>2, <2>1, <2>3 DEF ThreadOK, heapVars, Inside, Building, Holds
  <2>4. QED
    BY <2>2, <2>3
<1>6. QED
  BY <1>3, <1>4, <1>5 DEF CacheInv

\* The mutex is free when nobody is inside; the search starts at the head.
LEMMA LockStep ==
    ASSUME CacheInv, NEW t \in Threads, Lock(t)
    PROVE  CacheInv'
<1>1. /\ pc[t] = "lock" /\ pc'[t] = "search" /\ place'[t] = 1
      /\ \A u \in Threads \ {t} : pc'[u] = pc[u]
      /\ mutex = NoThread /\ mutex' = t
  BY DEF Lock, LockFree, At, Goto, CacheInv, TypeOK
<1>2. UNCHANGED <<platform, heapVars, sigma, cache, given>>
  BY DEF Lock
<1>3. RowsInv' /\ ListInv'
  BY <1>1, <1>2, HeapKept
<1>4. TypeOK'
  BY DEF CacheInv, TypeOK, Lock, Goto, heapVars, Places
<1>5. ThreadInv'
  <2> SUFFICES ASSUME NEW u \in Threads PROVE ThreadOK(u)'
    BY DEF ThreadInv
  <2>1. ThreadOK(u) /\ ThreadOK(t)
    BY DEF CacheInv, ThreadInv
  <2>2. CASE u = t
    <3>1. /\ Len(list) \in Nat /\ DOMAIN list = 1 .. Len(list)
      BY ListFacts
    <3>2. QED
      BY <1>1, <1>2, <2>1, <2>2, <3>1 DEF ThreadOK, heapVars, Inside, Building
  <2>3. CASE u # t
    <3>1. pc[u] \in {"idle", "lock"}
      BY <1>1, <2>1, ThreadsAssumption DEF ThreadOK, Inside
    <3>2. QED
      BY <1>1, <1>2, <2>3, <3>1, OutsideKept DEF heapVars
  <2>4. QED
    BY <2>2, <2>3
<1>6. QED
  BY <1>3, <1>4, <1>5 DEF CacheInv

\* The search stops at the entry of its sigma, or passes an entry of another.
LEMMA SearchStep ==
    ASSUME CacheInv, NEW t \in Threads, Search(t)
    PROVE  CacheInv'
<1>1. /\ pc[t] = "search" /\ place[t] <= Len(list)
      /\ UNCHANGED <<platform, heapVars, mutex, sigma, given>>
  BY DEF Search, At
<1>2. Inside(t) /\ ThreadOK(t)
  BY <1>1 DEF Inside, CacheInv, ThreadInv
<1>3. /\ mutex = t /\ sigma[t] # NoSigma
      /\ \A u \in Threads \ {t} : pc[u] \in {"idle", "lock"} /\ mutex # u
  BY <1>2, Alone
<1>4. /\ Len(list) \in Nat /\ DOMAIN list = 1 .. Len(list)
      /\ place[t] \in 1 .. Len(list)
      /\ list[place[t]] \in Cells /\ list[place[t]] \in ToSet(list)
  <2>1. place[t] \in 1 .. Len(list) + 1
    BY <1>1, <1>2 DEF ThreadOK
  <2>2. QED
    BY <1>1, <2>1, ListFacts
<1>5. ASSUME NEW u \in Threads \ {t}
      PROVE  ThreadOK(u)'
  <2>1. pc'[u] = pc[u]
    BY DEF Search, Goto, CacheInv, TypeOK
  <2>2. QED
    BY <1>1, <1>3, <2>1, OutsideKept DEF heapVars
<1>6. CASE Found(t)
  <2>1. /\ pc'[t] = "unlock" /\ cache'[t] = list[place[t]]
        /\ \A u \in Threads \ {t} : pc'[u] = pc[u] /\ cache'[u] = cache[u]
    BY <1>6 DEF Search, Goto, CacheInv, TypeOK
  <2>2. RowsInv' /\ ListInv'
    BY <1>1, <2>1, HeapKept
  <2>3. TypeOK'
    BY <1>4, <1>6 DEF CacheInv, TypeOK, Search, Goto, heapVars, Places
  <2>4. ThreadOK(t)'
    BY <1>1, <1>2, <1>3, <1>4, <1>6, <2>1, CellsAssumption
    DEF ThreadOK, heapVars, Inside, Building, Holds, Found
  <2>5. QED
    BY <1>5, <2>2, <2>3, <2>4 DEF CacheInv, ThreadInv
<1>7. CASE ~Found(t)
  <2>1. /\ pc' = pc /\ cache' = cache /\ place'[t] = place[t] + 1
    BY <1>7 DEF Search, CacheInv, TypeOK
  <2>2. RowsInv' /\ ListInv'
    BY <1>1, <2>1, HeapKept
  <2>3. TypeOK'
    <3>1. /\ place' \in [Threads -> Nat] /\ pc' = pc /\ cache' = cache
          /\ UNCHANGED geometry_ok
      BY <1>4, <1>7, SMTT(30) DEF CacheInv, TypeOK, Search
    <3>2. QED
      BY <1>1, <3>1 DEF CacheInv, TypeOK, heapVars
  <2>4. ThreadOK(t)'
    BY <1>1, <1>2, <1>3, <1>4, <1>7, <2>1
    DEF ThreadOK, heapVars, Inside, Building, Holds, Found
  <2>5. QED
    BY <1>5, <2>2, <2>3, <2>4 DEF CacheInv, ThreadInv
<1>8. QED
  BY <1>6, <1>7

\* There is no memory for an entry: the search came to the end of the list.
LEMMA AllocateFailsStep ==
    ASSUME CacheInv, NEW t \in Threads, AllocateFails(t)
    PROVE  CacheInv'
<1>1. /\ pc[t] = "search" /\ place[t] > Len(list)
      /\ pc'[t] = "unlock" /\ cache'[t] = NULL
      /\ \A u \in Threads \ {t} : pc'[u] = pc[u] /\ cache'[u] = cache[u]
      /\ UNCHANGED <<platform, heapVars, mutex, sigma, place, given>>
  BY DEF AllocateFails, At, Goto, CacheInv, TypeOK
<1>2. Inside(t) /\ ThreadOK(t)
  BY <1>1 DEF Inside, CacheInv, ThreadInv
<1>3. /\ mutex = t /\ sigma[t] # NoSigma
      /\ \A u \in Threads \ {t} : pc[u] \in {"idle", "lock"} /\ mutex # u
  BY <1>2, Alone
<1>4. RowsInv' /\ ListInv'
  BY <1>1, HeapKept
<1>5. TypeOK'
  BY DEF CacheInv, TypeOK, AllocateFails, Goto, heapVars, Places
<1>6. ASSUME NEW u \in Threads \ {t}
      PROVE  ThreadOK(u)'
  BY <1>1, <1>3, OutsideKept DEF heapVars
<1>7. ThreadOK(t)'
  <2>1. /\ Len(list) \in Nat /\ DOMAIN list = 1 .. Len(list)
        /\ place[t] \in 1 .. Len(list) + 1
    BY <1>1, <1>2, ListFacts DEF ThreadOK
  <2>2. QED
    BY <1>1, <1>2, <1>3, <2>1 DEF ThreadOK, heapVars, Inside, Building
<1>8. QED
  BY <1>4, <1>5, <1>6, <1>7 DEF CacheInv, ThreadInv

\* The entry that could not be built goes to be freed.
LEMMA BuildFailsStep ==
    ASSUME CacheInv, NEW t \in Threads, BuildFails(t)
    PROVE  CacheInv'
<1>1. /\ pc[t] = "rows" /\ pc'[t] = "free"
      /\ \A u \in Threads \ {t} : pc'[u] = pc[u]
      /\ UNCHANGED <<platform, heapVars, mutex, sigma, place, cache, given>>
  BY DEF BuildFails, At, Goto, CacheInv, TypeOK
<1>2. Inside(t) /\ ThreadOK(t)
  BY <1>1 DEF Inside, CacheInv, ThreadInv
<1>3. /\ mutex = t /\ sigma[t] # NoSigma
      /\ \A u \in Threads \ {t} : pc[u] \in {"idle", "lock"} /\ mutex # u
  BY <1>2, Alone
<1>4. RowsInv' /\ ListInv'
  BY <1>1, HeapKept
<1>5. TypeOK'
  BY DEF CacheInv, TypeOK, BuildFails, Goto, heapVars, Places
<1>6. ASSUME NEW u \in Threads \ {t}
      PROVE  ThreadOK(u)'
  BY <1>1, <1>3, OutsideKept DEF heapVars
<1>7. ThreadOK(t)'
  BY <1>1, <1>2, <1>3 DEF ThreadOK, heapVars, Inside, Building
<1>8. QED
  BY <1>4, <1>5, <1>6, <1>7 DEF CacheInv, ThreadInv

\* What the thread takes out with it is on the list.
LEMMA UnlockStep ==
    ASSUME CacheInv, NEW t \in Threads, Unlock(t)
    PROVE  CacheInv'
<1>1. /\ pc[t] = "unlock" /\ pc'[t] = "idle" /\ given'[t] = cache[t]
      /\ sigma'[t] = NoSigma /\ mutex' = NoThread
      /\ \A u \in Threads \ {t} : /\ pc'[u] = pc[u] /\ sigma'[u] = sigma[u]
                                 /\ given'[u] = given[u]
      /\ UNCHANGED <<platform, heapVars>>
  BY DEF Unlock, At, Goto, Released, CacheInv, TypeOK
<1>2. Inside(t) /\ ThreadOK(t)
  BY <1>1 DEF Inside, CacheInv, ThreadInv
<1>3. \A u \in Threads \ {t} : pc[u] \in {"idle", "lock"}
  BY <1>2, Alone
<1>4. RowsInv' /\ ListInv'
  BY <1>1, <1>3, HeapKept
<1>5. TypeOK'
  BY DEF CacheInv, TypeOK, Unlock, Released, Goto, heapVars, Places
<1>6. \A u \in Threads : u # NoThread
  BY ThreadsAssumption
<1>7. ASSUME NEW u \in Threads \ {t}
      PROVE  ThreadOK(u)'
  BY <1>1, <1>3, <1>6, OutsideKept DEF heapVars
<1>8. ThreadOK(t)'
  BY <1>1, <1>2, <1>6 DEF ThreadOK, heapVars, Inside, Building, Holds
<1>9. QED
  BY <1>4, <1>5, <1>7, <1>8 DEF CacheInv, ThreadInv

\* A step that writes one entry, which is not on the list, leaves the list as
\* it was, and the rows of every other entry.
LEMMA CellWritten ==
    ASSUME CacheInv, NEW t \in Threads, Inside(t),
           NEW c \in Cells, c \notin ToSet(list),
           NEW e, cell' = [cell EXCEPT ![c] = e],
           IsEntry(e),
           UNCHANGED <<platform, list>>,
           \A u \in Threads \ {t} : pc'[u] = pc[u],
           pc'[t] = "rows" =>
              /\ cache'[t] = c
              /\ e.bits \in Sigmas /\ e.live
              /\ \A j \in DOMAIN e.rows :
                    e.rows[j] = RowOf(e.bits, j) /\ e.rows[j] # NoRow
    PROVE  /\ (cell = [d \in Cells |-> cell[d]])'
           /\ \A d \in Cells : IsEntry(cell[d])'
           /\ cell'[c] = e
           /\ \A i \in DOMAIN list : cell'[list[i]] = cell[list[i]]
           /\ RowsInv' /\ ListInv'
<1>1. /\ cell'[c] = e
      /\ \A d \in Cells \ {c} : cell'[d] = cell[d]
      /\ DOMAIN cell' = Cells
      /\ cell' = [d \in Cells |-> cell'[d]]
  BY DEF CacheInv, TypeOK
<1>2. ASSUME NEW d \in Cells
      PROVE  IsEntry(cell[d])'
  <2>1. CASE d = c
    BY <1>1, <2>1 DEF IsEntry
  <2>2. CASE d # c
    BY <1>1, <2>2 DEF CacheInv, TypeOK, IsEntry
  <2>3. QED
    BY <2>1, <2>2
<1>3. \A i \in DOMAIN list : list[i] \in Cells \ {c} /\ cell'[list[i]] = cell[list[i]]
  BY <1>1, ListFacts
<1>4. ListInv'
  BY <1>3 DEF CacheInv, ListInv
<1>5. RowsInv'
  <2> DEFINE Fine(d) ==
               /\ cell[d].bits \in Sigmas /\ cell[d].live
               /\ \A j \in DOMAIN cell[d].rows :
                     /\ cell[d].rows[j] = RowOf(cell[d].bits, j)
                     /\ cell[d].rows[j] # NoRow
  <2>1. ASSUME NEW d \in Cells, d \in ToSet(list)
        PROVE  Fine(d)'
    <3>1. cell'[d] = cell[d]
      BY <1>1, <2>1
    <3>2. Fine(d)
      BY <2>1 DEF CacheInv, RowsInv
    <3>3. QED
      BY <3>1, <3>2 DEF RowOf
  <2>2. ASSUME NEW d \in Cells, NEW u \in Threads,
               pc'[u] = "rows", cache'[u] = d
        PROVE  Fine(d)'
    <3>1. u = t
      BY <2>2, Alone
    <3>2. d = c
      BY <2>2, <3>1
    <3>3. QED
      BY <1>1, <2>2, <3>1, <3>2 DEF RowOf
  <2>3. QED
    BY <2>1, <2>2 DEF RowsInv
<1>6. QED
  BY <1>1, <1>2, <1>3, <1>4, <1>5

\* The entry that a thread builds.
LEMMA BuildingFacts ==
    ASSUME CacheInv, NEW t \in Threads, Building(t)
    PROVE  /\ Inside(t) /\ ThreadOK(t)
           /\ cache[t] \in Cells /\ cache[t] \notin ToSet(list)
           /\ IsEntry(cell[cache[t]]) /\ cell[cache[t]].live
<1>1. Inside(t) /\ ThreadOK(t)
  BY DEF Building, Inside, CacheInv, ThreadInv
<1>2. /\ cache[t] \in Cells /\ cell[cache[t]].live
      /\ cache[t] \notin ToSet(list)
  BY <1>1 DEF ThreadOK
<1>3. IsEntry(cell[cache[t]])
  BY <1>2 DEF CacheInv, TypeOK
<1>4. QED
  BY <1>1, <1>2, <1>3

\* A fresh entry is on no list, because what is on the list is live.
LEMMA AllocateStep ==
    ASSUME CacheInv, NEW t \in Threads, NEW c \in Cells, Allocate(t, c)
    PROVE  CacheInv'
<1>1. /\ pc[t] = "search" /\ place[t] > Len(list) /\ ~cell[c].live
      /\ cell' = [cell EXCEPT ![c] = Zeroed]
      /\ pc'[t] = "build" /\ cache'[t] = c
      /\ \A u \in Threads \ {t} : pc'[u] = pc[u]
      /\ UNCHANGED <<platform, mutex, list, sigma, place, given>>
  BY DEF Allocate, At, Goto, CacheInv, TypeOK
<1>2. Inside(t) /\ ThreadOK(t)
  BY <1>1 DEF Inside, CacheInv, ThreadInv
<1>3. /\ mutex = t /\ sigma[t] # NoSigma
      /\ \A u \in Threads \ {t} : pc[u] \in {"idle", "lock"} /\ mutex # u
  BY <1>2, Alone
<1>4. c \notin ToSet(list)
  BY <1>1 DEF CacheInv, RowsInv
<1>5. IsEntry(Zeroed) /\ Zeroed.rows = <<>> /\ Zeroed.live
  BY FreshEntry
<1>6. /\ (cell = [d \in Cells |-> cell[d]])'
      /\ \A d \in Cells : IsEntry(cell[d])'
      /\ cell'[c] = Zeroed
      /\ \A i \in DOMAIN list : cell'[list[i]] = cell[list[i]]
      /\ RowsInv' /\ ListInv'
  BY <1>1, <1>2, <1>4, <1>5, CellWritten
<1>7. TypeOK'
  BY <1>6 DEF CacheInv, TypeOK, Allocate, Goto, Places
<1>8. ASSUME NEW u \in Threads \ {t}
      PROVE  ThreadOK(u)'
  BY <1>1, <1>3, OutsideKept
<1>9. ThreadOK(t)'
  <2>1. /\ Len(list) \in Nat /\ DOMAIN list = 1 .. Len(list)
        /\ place[t] \in 1 .. Len(list) + 1
    BY <1>1, <1>2, ListFacts DEF ThreadOK
  <2>2. QED
    BY <1>1, <1>2, <1>3, <1>4, <1>5, <1>6, <2>1 DEF ThreadOK, Inside, Building
<1>10. QED
  BY <1>6, <1>7, <1>8, <1>9 DEF CacheInv, ThreadInv

\* The geometry is good, and the entry gets its sigma; or it is not, and the
\* entry goes to be freed.
LEMMA StartBuildStep ==
    ASSUME CacheInv, NEW t \in Threads, StartBuild(t)
    PROVE  CacheInv'
<1>1. /\ pc[t] = "build"
      /\ \A u \in Threads \ {t} : pc'[u] = pc[u]
      /\ UNCHANGED <<platform, mutex, list, sigma, place, cache, given>>
  BY DEF StartBuild, At, Goto, CacheInv, TypeOK
<1>2. /\ Inside(t) /\ ThreadOK(t)
      /\ cache[t] \in Cells /\ cache[t] \notin ToSet(list)
      /\ IsEntry(cell[cache[t]]) /\ cell[cache[t]].live
  BY <1>1, BuildingFacts DEF Building
<1>3. /\ mutex = t /\ sigma[t] # NoSigma /\ sigma[t] \in Sigmas
      /\ \A u \in Threads \ {t} : pc[u] \in {"idle", "lock"} /\ mutex # u
  BY <1>2, Alone
<1>4. ASSUME NEW u \in Threads \ {t}
      PROVE  ThreadOK(u)'
  BY <1>1, <1>3, OutsideKept
<1>5. geometry_ok' \in {-1, 0, 1}
  BY DEF StartBuild, CacheInv, TypeOK
<1>6. CASE geometry_ok' = 1
  <2> DEFINE c == cache[t]
             e == [cell[c] EXCEPT !.bits = sigma[t]]
  <2>1. cell' = [cell EXCEPT ![c] = e] /\ pc'[t] = "rows"
    BY <1>6 DEF StartBuild, Goto, CacheInv, TypeOK
  <2>2. cell[c].rows = <<>>
    BY <1>1, <1>2 DEF ThreadOK
  <2>3. /\ IsEntry(e) /\ e.live /\ e.bits = sigma[t] /\ e.rows = <<>>
    <3>1. IsEntry(cell[c])
      BY <1>2
    <3>2. e = [live |-> cell[c].live, bits |-> sigma[t], rows |-> cell[c].rows]
      BY <3>1, EntryUpdates DEF IsEntry
    <3> HIDE DEF e
    <3>3. e.live = cell[c].live /\ e.bits = sigma[t] /\ e.rows = cell[c].rows
      BY <3>2
    <3>4. QED
      BY <1>2, <1>3, <2>2, <3>1, <3>2, <3>3 DEF IsEntry
  <2> HIDE DEF e
  <2>4. /\ (cell = [d \in Cells |-> cell[d]])'
        /\ \A d \in Cells : IsEntry(cell[d])'
        /\ cell'[c] = e
        /\ \A i \in DOMAIN list : cell'[list[i]] = cell[list[i]]
        /\ RowsInv' /\ ListInv'
    <3>1. \A j \in DOMAIN e.rows : e.rows[j] = RowOf(e.bits, j) /\ e.rows[j] # NoRow
      BY <2>3
    <3>2. cache'[t] = c
      BY <1>1
    <3> HIDE DEF c
    <3>3. QED
      BY <1>1, <1>2, <1>3, <2>1, <2>3, <3>1, <3>2, CellWritten
  <2>5. TypeOK'
    BY <1>5, <1>6, <2>4 DEF CacheInv, TypeOK, StartBuild, Goto, Places
  <2>6. ThreadOK(t)'
    BY <1>1, <1>2, <1>3, <2>1, <2>3, <2>4, ClassesAssumption
    DEF ThreadOK, Inside, Building
  <2>7. QED
    BY <1>4, <2>4, <2>5, <2>6 DEF CacheInv, ThreadInv
<1>7. CASE geometry_ok' # 1
  <2>1. cell' = cell /\ pc'[t] = "free"
    BY <1>7 DEF StartBuild, Goto, CacheInv, TypeOK
  <2>2. RowsInv' /\ ListInv'
    BY <1>1, <2>1, HeapKept DEF heapVars
  <2>3. TypeOK'
    BY <1>5, <1>7 DEF CacheInv, TypeOK, StartBuild, Goto, Places
  <2>4. ThreadOK(t)'
    BY <1>1, <1>2, <1>3, <2>1 DEF ThreadOK, Inside, Building
  <2>5. QED
    BY <1>4, <2>2, <2>3, <2>4 DEF CacheInv, ThreadInv
<1>8. QED
  BY <1>6, <1>7

\* A row is appended, of the sigma of the entry and for its place.
LEMMA BuildRowStep ==
    ASSUME CacheInv, NEW t \in Threads, BuildRow(t)
    PROVE  CacheInv'
<1> DEFINE c == cache[t]
           built == cell[c].rows
           row == RowOf(sigma[t], Len(built) + 1)
           e == [cell[c] EXCEPT !.rows = Append(built, row)]
<1>1. /\ pc[t] = "rows" /\ Len(built) < Classes /\ row # NoRow
      /\ cell' = [cell EXCEPT ![c] = e]
      /\ UNCHANGED <<platform, geometry_ok, mutex, list, threadVars>>
      /\ UNCHANGED <<pc, sigma, place, cache, given>>
  BY DEF BuildRow, At, threadVars
<1>2. /\ Inside(t) /\ ThreadOK(t)
      /\ c \in Cells /\ c \notin ToSet(list)
      /\ IsEntry(cell[c]) /\ cell[c].live
  BY <1>1, BuildingFacts DEF Building
<1>3. /\ mutex = t /\ sigma[t] # NoSigma /\ sigma[t] \in Sigmas
      /\ \A u \in Threads \ {t} : pc[u] \in {"idle", "lock"} /\ mutex # u
  BY <1>2, Alone
<1>4. ASSUME NEW u \in Threads \ {t}
      PROVE  ThreadOK(u)'
  BY <1>1, <1>3, OutsideKept
<1>5. /\ cell[c].bits = sigma[t]
      /\ \A j \in DOMAIN built : built[j] = RowOf(sigma[t], j) /\ built[j] # NoRow
  BY <1>1, <1>2 DEF ThreadOK, CacheInv, RowsInv
<1>6. built \in Seq(ToSet(built))
  BY <1>2 DEF IsEntry
<1>7. /\ Len(built) \in Nat /\ DOMAIN built = 1 .. Len(built)
  BY <1>6, LenProperties
<1> HIDE DEF row
<1>8. /\ Append(built, row) \in Seq(ToSet(Append(built, row)))
      /\ Len(Append(built, row)) = Len(built) + 1
      /\ DOMAIN Append(built, row) = 1 .. Len(built) + 1
      /\ \A j \in 1 .. Len(built) : Append(built, row)[j] = built[j]
      /\ Append(built, row)[Len(built) + 1] = row
  BY <1>6, Appended
<1>9. /\ e.rows = Append(built, row) /\ e.live /\ e.bits = sigma[t]
      /\ IsEntry(e)
  <2>1. e = [live |-> cell[c].live, bits |-> cell[c].bits,
             rows |-> Append(built, row)]
    BY <1>2, EntryUpdates DEF IsEntry
  <2> HIDE DEF e
  <2>2. /\ e.live = cell[c].live /\ e.bits = cell[c].bits
        /\ e.rows = Append(built, row)
    BY <2>1
  <2>3. QED
    BY <1>2, <1>5, <1>8, <2>1, <2>2 DEF IsEntry
<1> HIDE DEF e
<1>10. \A j \in DOMAIN e.rows : e.rows[j] = RowOf(sigma[t], j) /\ e.rows[j] # NoRow
  <2> SUFFICES ASSUME NEW j \in 1 .. Len(built) + 1
               PROVE  /\ Append(built, row)[j] = RowOf(sigma[t], j)
                      /\ Append(built, row)[j] # NoRow
    BY <1>8, <1>9
  <2>1. CASE j \in 1 .. Len(built)
    BY <1>5, <1>7, <1>8, <2>1
  <2>2. CASE j = Len(built) + 1
    BY <1>1, <1>8, <2>2 DEF row
  <2>3. QED
    BY <1>7, <2>1, <2>2
<1>11. /\ (cell = [d \in Cells |-> cell[d]])'
       /\ \A d \in Cells : IsEntry(cell[d])'
       /\ cell'[c] = e
       /\ \A i \in DOMAIN list : cell'[list[i]] = cell[list[i]]
       /\ RowsInv' /\ ListInv'
  <2>1. \A j \in DOMAIN e.rows : e.rows[j] = RowOf(e.bits, j) /\ e.rows[j] # NoRow
    BY <1>9, <1>10
  <2>2. cache'[t] = c
    BY <1>1
  <2> HIDE DEF c, built
  <2>3. QED
    BY <1>1, <1>2, <1>3, <1>9, <2>1, <2>2, CellWritten
<1>12. TypeOK'
  BY <1>1, <1>11 DEF CacheInv, TypeOK
<1>13. ThreadOK(t)'
  <2>1. Len(Append(built, row)) <= Classes
    BY <1>1, <1>7, <1>8, ClassesAssumption
  <2>2. QED
    BY <1>1, <1>2, <1>3, <1>9, <1>11, <2>1 DEF ThreadOK, Inside, Building
<1>14. QED
  BY <1>4, <1>11, <1>12, <1>13 DEF CacheInv, ThreadInv

\* The entry is freed: it is not on the list.
LEMMA FreeStep ==
    ASSUME CacheInv, NEW t \in Threads, FreeEntry(t)
    PROVE  CacheInv'
<1>1. /\ pc[t] = "free" /\ pc'[t] = "unlock" /\ cache'[t] = NULL
      /\ cell' = [cell EXCEPT ![cache[t]] = Free]
      /\ \A u \in Threads \ {t} : pc'[u] = pc[u]
      /\ UNCHANGED <<platform, geometry_ok, mutex, list, sigma, place, given>>
  BY DEF FreeEntry, At, Goto, CacheInv, TypeOK
<1>2. /\ Inside(t) /\ ThreadOK(t)
      /\ cache[t] \in Cells /\ cache[t] \notin ToSet(list)
  BY <1>1, BuildingFacts DEF Building
<1>3. /\ mutex = t /\ sigma[t] # NoSigma /\ sigma[t] \in Sigmas
      /\ \A u \in Threads \ {t} : pc[u] \in {"idle", "lock"} /\ mutex # u
  BY <1>2, Alone
<1>4. ASSUME NEW u \in Threads \ {t}
      PROVE  ThreadOK(u)'
  BY <1>1, <1>3, OutsideKept
<1>5. /\ (cell = [d \in Cells |-> cell[d]])'
      /\ \A d \in Cells : IsEntry(cell[d])'
      /\ \A i \in DOMAIN list : cell'[list[i]] = cell[list[i]]
      /\ RowsInv' /\ ListInv'
  BY <1>1, <1>2, FreshEntry, CellWritten
<1>6. TypeOK'
  BY <1>5 DEF CacheInv, TypeOK, FreeEntry, Goto, Places
<1>7. ThreadOK(t)'
  <2>1. /\ Len(list) \in Nat /\ DOMAIN list = 1 .. Len(list)
        /\ place[t] = Len(list) + 1
    BY <1>1, <1>2, ListFacts DEF ThreadOK, Building
  <2>2. QED
    BY <1>1, <1>2, <1>3, <1>5, <2>1 DEF ThreadOK, Inside, Building
<1>8. QED
  BY <1>4, <1>5, <1>6, <1>7 DEF CacheInv, ThreadInv

\* The complete entry is pushed; no entry of the list has its sigma.
LEMMA PushStep ==
    ASSUME CacheInv, NEW t \in Threads, Push(t)
    PROVE  CacheInv'
<1> DEFINE c == cache[t]
<1>1. /\ pc[t] = "rows" /\ pc'[t] = "unlock" /\ Len(cell[c].rows) = Classes
      /\ list' = <<c>> \o list
      /\ \A u \in Threads \ {t} : pc'[u] = pc[u]
      /\ UNCHANGED <<platform, geometry_ok, mutex, cell, sigma, place, cache,
                     given>>
  BY DEF Push, BuiltAll, At, Goto, CacheInv, TypeOK
<1>2. /\ Inside(t) /\ ThreadOK(t)
      /\ c \in Cells /\ c \notin ToSet(list)
  BY <1>1, BuildingFacts DEF Building
<1>3. /\ mutex = t /\ sigma[t] # NoSigma /\ sigma[t] \in Sigmas
      /\ \A u \in Threads \ {t} : pc[u] \in {"idle", "lock"} /\ mutex # u
  BY <1>2, Alone
<1>4. /\ list \in Seq(Cells) /\ Len(list) \in Nat
      /\ DOMAIN list = 1 .. Len(list)
  BY ListFacts
<1>5. /\ list' \in Seq(Cells)
      /\ DOMAIN list' = 1 .. Len(list) + 1
      /\ list'[1] = c
      /\ \A i \in 2 .. Len(list) + 1 : /\ list'[i] = list[i - 1]
                                      /\ i - 1 \in DOMAIN list
      /\ ToSet(list') = {c} \cup ToSet(list)
  BY <1>1, <1>2, <1>4, Pushed
<1>6. /\ cell[c].bits = sigma[t]
      /\ \A i \in DOMAIN list : cell[list[i]].bits # sigma[t]
  BY <1>1, <1>2, <1>4 DEF ThreadOK, Building
<1>7. ASSUME NEW u \in Threads \ {t}
      PROVE  ThreadOK(u)'
  BY <1>1, <1>3, <1>5, OutsideKept
<1>8. ThreadOK(t)'
  BY <1>1, <1>2, <1>3, <1>5, <1>6, CellsAssumption
  DEF ThreadOK, Inside, Building, Holds
<1>9. TypeOK'
  BY <1>5 DEF CacheInv, TypeOK, Push, Goto, Places
<1>10. RowsInv'
  BY <1>1, <1>2, <1>3, <1>5 DEF CacheInv, RowsInv, RowOf
<1>11. ListInv'
  <2>1. ASSUME NEW i \in DOMAIN list'
        PROVE  Len(cell[list'[i]].rows) = Classes
    BY <1>1, <1>4, <1>5, <2>1 DEF CacheInv, ListInv
  <2>2. ASSUME NEW i \in DOMAIN list', NEW j \in DOMAIN list',
               cell[list'[i]].bits = cell[list'[j]].bits
        PROVE  i = j
    <3>1. CASE i = 1 /\ j # 1
      BY <1>4, <1>5, <1>6, <2>2, <3>1
    <3>2. CASE i # 1 /\ j = 1
      BY <1>4, <1>5, <1>6, <2>2, <3>2
    <3>3. CASE i # 1 /\ j # 1
      <4>1. /\ i - 1 \in DOMAIN list /\ j - 1 \in DOMAIN list
            /\ list'[i] = list[i - 1] /\ list'[j] = list[j - 1]
        BY <1>4, <1>5, <3>3
      <4>2. i - 1 = j - 1
        BY <2>2, <4>1 DEF CacheInv, ListInv
      <4>3. QED
        BY <1>4, <1>5, <4>2
    <3>4. QED
      BY <3>1, <3>2, <3>3
  <2>3. QED
    BY <1>1, <2>1, <2>2 DEF ListInv
<1>12. QED
  BY <1>7, <1>8, <1>9, <1>10, <1>11 DEF CacheInv, ThreadInv

\* Every step keeps the invariant.
LEMMA NextCache == CacheInv /\ [Next]_vars => CacheInv'
<1> SUFFICES ASSUME CacheInv, [Next]_vars PROVE CacheInv'
  OBVIOUS
<1>1. CASE UNCHANGED vars
  <2>1. /\ UNCHANGED <<platform, geometry_ok, mutex, list, cell, pc, sigma,
                       place, cache, given>>
        /\ UNCHANGED <<platform, heapVars>>
    BY <1>1 DEF vars, heapVars, threadVars
  <2>2. RowsInv' /\ ListInv'
    BY <2>1, HeapKept
  <2>3. TypeOK'
    BY <2>1 DEF CacheInv, TypeOK
  <2>4. ThreadInv'
    BY <2>1 DEF CacheInv, ThreadInv, ThreadOK, Inside, Building, Holds
  <2>5. QED
    BY <2>2, <2>3, <2>4 DEF CacheInv
<1>2. ASSUME NEW t \in Threads,
             Refuse(t) \/ (\E s \in Sigmas : Call(t, s)) \/ Step(t)
      PROVE  CacheInv'
  <2>1. CASE Refuse(t)
    BY <2>1, RefuseStep
  <2>2. CASE \E s \in Sigmas : Call(t, s)
    BY <2>2, CallStep
  <2>3. CASE Lock(t)
    BY <2>3, LockStep
  <2>4. CASE Search(t)
    BY <2>4, SearchStep
  <2>5. CASE \E c \in Cells : Allocate(t, c)
    BY <2>5, AllocateStep
  <2>6. CASE AllocateFails(t)
    BY <2>6, AllocateFailsStep
  <2>7. CASE StartBuild(t)
    BY <2>7, StartBuildStep
  <2>8. CASE BuildFails(t)
    BY <2>8, BuildFailsStep
  <2>9. CASE BuildRow(t)
    BY <2>9, BuildRowStep
  <2>10. CASE FreeEntry(t)
    BY <2>10, FreeStep
  <2>11. CASE Push(t)
    BY <2>11, PushStep
  <2>12. CASE Unlock(t)
    BY <2>12, UnlockStep
  <2>13. QED
    BY <1>2, <2>1, <2>2, <2>3, <2>4, <2>5, <2>6, <2>7, <2>8, <2>9, <2>10,
       <2>11, <2>12 DEF Step
<1>3. QED
  BY <1>1, <1>2 DEF Next

\* The mutex, the list and the entries under construction are as the functions
\* of e8_sampler_runtime.c take them to be, for every number of threads, sigmas
\* and cells, and whatever fails.
THEOREM CacheInvariance == Spec => []CacheInv
BY InitCache, NextCache, PTL DEF Spec

-----------------------------------------------------------------------------
(***************************************************************************)
(* What the callers read without the mutex.                                *)
(***************************************************************************)
\* The tables that the threads were given.
GivenTables == {given[t] : t \in Threads} \ {NULL}

\* A table on the list has the complete rows of its own sigma.
LEMMA ListedComplete ==
    ASSUME CacheInv, NEW c \in Cells, c \in ToSet(list)
    PROVE  /\ cell[c].bits \in Sigmas /\ cell[c].live
           /\ Len(cell[c].rows) = Classes
           /\ \A j \in 1 .. Classes :
                 /\ cell[c].rows[j] = RowOf(cell[c].bits, j)
                 /\ cell[c].rows[j] # NoRow
<1>1. PICK i \in DOMAIN list : c = list[i]
  BY DEF ToSet
<1>2. Len(cell[c].rows) = Classes
  BY <1>1 DEF CacheInv, ListInv
<1>3. DOMAIN cell[c].rows = 1 .. Classes
  BY <1>2, LenProperties DEF CacheInv, TypeOK, IsEntry
<1>4. QED
  BY <1>2, <1>3 DEF CacheInv, RowsInv

\* An entry of the list is not written, freed or taken off it.
LEMMA ListedKept ==
    ASSUME CacheInv, [Next]_vars, NEW c \in ToSet(list)
    PROVE  c \in ToSet(list') /\ cell'[c] = cell[c]
<1>1. c \in Cells /\ cell[c].live
  BY ListFacts, ListedComplete
<1>2. CASE UNCHANGED heapVars
  BY <1>2 DEF heapVars
<1>3. ASSUME NEW t \in Threads, NEW d \in Cells, Allocate(t, d)
      PROVE  c \in ToSet(list') /\ cell'[c] = cell[c]
  BY <1>1, <1>3 DEF Allocate
<1>4. ASSUME NEW t \in Threads, Building(t), list' = list,
             NEW e, cell' = [cell EXCEPT ![cache[t]] = e]
      PROVE  c \in ToSet(list') /\ cell'[c] = cell[c]
  BY <1>1, <1>4, BuildingFacts
<1>5. ASSUME NEW t \in Threads, StartBuild(t) \/ BuildRow(t) \/ FreeEntry(t)
      PROVE  c \in ToSet(list') /\ cell'[c] = cell[c]
  BY <1>2, <1>4, <1>5
  DEF StartBuild, BuildRow, FreeEntry, At, Building, heapVars
<1>6. ASSUME NEW t \in Threads, Push(t)
      PROVE  c \in ToSet(list') /\ cell'[c] = cell[c]
  <2>1. cache[t] \in Cells
    BY <1>6, BuildingFacts DEF Push, At, Building
  <2>2. ToSet(list') = {cache[t]} \cup ToSet(list)
    BY <1>6, <2>1, ListFacts, Pushed DEF Push
  <2>3. QED
    BY <1>6, <2>2 DEF Push
<1>7. ASSUME NEW t \in Threads,
             \/ Refuse(t) \/ (\E s \in Sigmas : Call(t, s)) \/ Lock(t)
             \/ Search(t) \/ AllocateFails(t) \/ BuildFails(t) \/ Unlock(t)
      PROVE  UNCHANGED heapVars
  BY <1>7 DEF Refuse, Call, Lock, Search, AllocateFails, BuildFails, Unlock
<1>8. QED
  BY <1>2, <1>3, <1>5, <1>6, <1>7 DEF Next, Step, vars

\* A table that a thread was given is complete: the caller may read its rows,
\* all of its own sigma, without the mutex.
THEOREM GivenComplete ==
    Spec => [](\A t \in Threads : given[t] # NULL =>
                  LET e == cell[given[t]]
                  IN  /\ Len(e.rows) = Classes
                      /\ \A j \in 1 .. Classes :
                            e.rows[j] = RowOf(e.bits, j) /\ e.rows[j] # NoRow)
<1>1. CacheInv => \A t \in Threads : given[t] # NULL =>
                     LET e == cell[given[t]]
                     IN  /\ Len(e.rows) = Classes
                         /\ \A j \in 1 .. Classes :
                               e.rows[j] = RowOf(e.bits, j) /\ e.rows[j] # NoRow
  <2> SUFFICES ASSUME CacheInv, NEW t \in Threads, given[t] # NULL
               PROVE  LET e == cell[given[t]]
                      IN  /\ Len(e.rows) = Classes
                          /\ \A j \in 1 .. Classes :
                                e.rows[j] = RowOf(e.bits, j) /\ e.rows[j] # NoRow
    OBVIOUS
  <2>1. given[t] \in ToSet(list)
    BY DEF CacheInv, ThreadInv, ThreadOK
  <2>2. given[t] \in Cells
    BY <2>1, ListFacts
  <2>3. QED
    BY <2>1, <2>2, ListedComplete
<1>2. QED
  BY <1>1, CacheInvariance, PTL

\* Nothing is ever written to, nor freed of, a table that a thread was given,
\* by any thread: its callers read it without the mutex.
THEOREM GivenStays ==
    Spec => [][\A c \in GivenTables : cell'[c] = cell[c]]_vars
<1>1. CacheInv /\ [Next]_vars => [\A c \in GivenTables : cell'[c] = cell[c]]_vars
  <2> SUFFICES ASSUME CacheInv, [Next]_vars, NEW c \in GivenTables
               PROVE  cell'[c] = cell[c]
    OBVIOUS
  <2>1. c \in ToSet(list)
    BY DEF GivenTables, CacheInv, ThreadInv, ThreadOK
  <2>2. QED
    BY <2>1, ListedKept
<1>2. QED
  BY <1>1, CacheInvariance, PTL DEF Spec

-----------------------------------------------------------------------------
(***************************************************************************)
(* The cache implements TableMap.                                          *)
(***************************************************************************)
\* The table of a sigma is the one entry on the list that has it.
TablesUnique ==
    \A s \in Sigmas :
       /\ \A c \in Cells : Holds(c, s) => TableOf(s) = c
       /\ (\A c \in Cells : ~Holds(c, s)) => TableOf(s) = NULL

\* One entry per sigma makes the table of a sigma unique.
LEMMA TablesAreUnique == CacheInv => TablesUnique
<1> SUFFICES ASSUME CacheInv, NEW s \in Sigmas
             PROVE  /\ \A c \in Cells : Holds(c, s) => TableOf(s) = c
                    /\ (\A c \in Cells : ~Holds(c, s)) => TableOf(s) = NULL
  BY DEF TablesUnique
<1>1. ASSUME NEW c \in Cells, NEW d \in Cells, Holds(c, s), Holds(d, s)
      PROVE  c = d
  BY <1>1 DEF Holds, ToSet, CacheInv, ListInv
<1>2. ASSUME NEW c \in Cells, Holds(c, s)
      PROVE  TableOf(s) = c
  <2>1. \E d \in Cells : Holds(d, s)
    BY <1>2
  <2>2. TableOf(s) = CHOOSE d \in Cells : Holds(d, s)
    BY <2>1 DEF TableOf
  <2>3. /\ (CHOOSE d \in Cells : Holds(d, s)) \in Cells
        /\ Holds(CHOOSE d \in Cells : Holds(d, s), s)
    BY <2>1
  <2>4. QED
    BY <1>1, <1>2, <2>2, <2>3
<1>3. (\A c \in Cells : ~Holds(c, s)) => TableOf(s) = NULL
  BY DEF TableOf
<1>4. QED
  BY <1>2, <1>3

\* The tables of a step that pushes nothing are those before it.
LEMMA TablesKept ==
    ASSUME CacheInv, TablesUnique, TablesUnique', [Next]_vars, list' = list
    PROVE  \A s \in Sigmas : TableOf(s)' = TableOf(s)
<1> SUFFICES ASSUME NEW s \in Sigmas PROVE TableOf(s)' = TableOf(s)
  OBVIOUS
<1>1. \A c \in Cells : Holds(c, s)' <=> Holds(c, s)
  BY ListedKept DEF Holds
<1>2. CASE \E c \in Cells : Holds(c, s)
  BY <1>1, <1>2 DEF TablesUnique
<1>3. CASE \A c \in Cells : ~Holds(c, s)
  BY <1>1, <1>3 DEF TablesUnique
<1>4. QED
  BY <1>2, <1>3

\* A push makes one table, of a sigma that had none.
LEMMA PushMakes ==
    ASSUME CacheInv, TablesUnique, TablesUnique', NEW t \in Threads, Push(t)
    PROVE  /\ sigma[t] \in Sigmas /\ cache[t] \in Cells
           /\ TableOf(sigma[t]) = NULL
           /\ \A s \in Sigmas : TableOf(s) # cache[t]
           /\ \A s \in Sigmas :
                 TableOf(s)' = IF s = sigma[t] THEN cache[t] ELSE TableOf(s)
<1> DEFINE c == cache[t]
<1>1. /\ pc[t] = "rows" /\ Building(t)
      /\ list' = <<c>> \o list /\ cell' = cell
  BY DEF Push, At, Building
<1>2. /\ Inside(t) /\ ThreadOK(t) /\ c \in Cells /\ c \notin ToSet(list)
      /\ sigma[t] \in Sigmas
  BY <1>1, BuildingFacts, Alone
<1>3. ToSet(list') = {c} \cup ToSet(list)
  BY <1>1, <1>2, ListFacts, Pushed
<1>4. /\ cell[c].bits = sigma[t]
      /\ \A d \in ToSet(list) : cell[d].bits # sigma[t]
  <2>1. /\ cell[c].bits = sigma[t] /\ place[t] = Len(list) + 1
        /\ \A i \in DOMAIN list : i < place[t] => cell[list[i]].bits # sigma[t]
    BY <1>1, <1>2 DEF ThreadOK
  <2>2. Len(list) \in Nat /\ DOMAIN list = 1 .. Len(list)
    BY ListFacts
  <2>3. \A i \in DOMAIN list : cell[list[i]].bits # sigma[t]
    BY <2>1, <2>2
  <2>4. QED
    BY <2>1, <2>3 DEF ToSet
<1>5. \A d \in Cells : ~Holds(d, sigma[t])
  BY <1>4 DEF Holds
<1>6. \A s \in Sigmas : TableOf(s) # c
  <2> SUFFICES ASSUME NEW s \in Sigmas PROVE TableOf(s) # c
    OBVIOUS
  <2>1. CASE \E d \in Cells : Holds(d, s)
    <3>1. PICK d \in Cells : Holds(d, s)
      BY <2>1
    <3>2. TableOf(s) = d /\ d \in ToSet(list)
      BY <3>1 DEF TablesUnique, Holds
    <3>3. QED
      BY <1>2, <3>2
  <2>2. CASE \A d \in Cells : ~Holds(d, s)
    BY <1>2, <2>2, CellsAssumption DEF TablesUnique
  <2>3. QED
    BY <2>1, <2>2
<1>7. Holds(c, sigma[t])'
  <2>1. sigma'[t] = sigma[t] /\ cache'[t] = c
    BY DEF Push
  <2>2. QED
    BY <1>1, <1>3, <1>4, <2>1 DEF Holds
<1>8. TableOf(sigma[t])' = c
  BY <1>2, <1>7 DEF TablesUnique, Push
<1>9. ASSUME NEW s \in Sigmas, s # sigma[t]
      PROVE  TableOf(s)' = TableOf(s)
  <2>1. \A d \in Cells : Holds(d, s)' <=> Holds(d, s)
    BY <1>1, <1>3, <1>4, <1>9 DEF Holds
  <2>2. CASE \E d \in Cells : Holds(d, s)
    BY <2>1, <2>2 DEF TablesUnique
  <2>3. CASE \A d \in Cells : ~Holds(d, s)
    BY <2>1, <2>3 DEF TablesUnique
  <2>4. QED
    BY <2>2, <2>3
<1>10. QED
  BY <1>2, <1>5, <1>6, <1>8, <1>9 DEF TablesUnique, Push

\* The thread is given the table of its sigma, or NULL where there is none.
LEMMA UnlockAnswers ==
    ASSUME CacheInv, TablesUnique, NEW t \in Threads, Unlock(t)
    PROVE  /\ sigma[t] \in Sigmas /\ sigma[t] # NoSigma
           /\ cache[t] = TableOf(sigma[t])
<1>1. pc[t] = "unlock" /\ Inside(t)
  BY DEF Unlock, At, Inside
<1>2. sigma[t] \in Sigmas /\ sigma[t] # NoSigma /\ ThreadOK(t)
  BY <1>1, Alone DEF CacheInv, ThreadInv
<1>3. CASE cache[t] = NULL
  <2>1. \A i \in DOMAIN list : cell[list[i]].bits # sigma[t]
    BY <1>1, <1>2, <1>3 DEF ThreadOK
  <2>2. \A c \in Cells : ~Holds(c, sigma[t])
    BY <2>1 DEF Holds, ToSet
  <2>3. QED
    BY <1>2, <1>3, <2>2 DEF TablesUnique
<1>4. CASE cache[t] # NULL
  <2>1. Holds(cache[t], sigma[t]) /\ cache[t] \in Cells
    BY <1>1, <1>2, <1>4 DEF ThreadOK, CacheInv, TypeOK
  <2>2. QED
    BY <1>2, <2>1 DEF TablesUnique
<1>5. QED
  BY <1>2, <1>3, <1>4

\* Every step is one of TableMap, or leaves its state alone.
LEMMA StepImplements ==
    ASSUME CacheInv, TablesUnique, TablesUnique', [Next]_vars
    PROVE  [Map!Next]_(Map!vars)
<1> DEFINE table == [s \in Sigmas |-> TableOf(s)]
<1>1. ASSUME list' = list
      PROVE  table' = table
  BY <1>1, TablesKept
<1>2. CASE UNCHANGED vars
  <2>1. list' = list /\ sigma' = sigma /\ given' = given
    BY <1>2 DEF vars, heapVars, threadVars
  <2>2. QED
    BY <1>1, <2>1 DEF Map!vars
<1>3. ASSUME NEW t \in Threads, Refuse(t)
      PROVE  Map!Next
  <2>1. sigma[t] = NoSigma
    BY <1>3 DEF Refuse, At, CacheInv, ThreadInv, ThreadOK
  <2>2. table' = table
    BY <1>1, <1>3 DEF Refuse, heapVars
  <2>3. Map!Refuse(t)
    BY <1>3, <2>1, <2>2 DEF Refuse, Map!Refuse
  <2>4. QED
    BY <2>3 DEF Map!Next
<1>4. ASSUME NEW t \in Threads, NEW s \in Sigmas, Call(t, s)
      PROVE  Map!Next
  <2>1. sigma[t] = NoSigma
    BY <1>4 DEF Call, At, CacheInv, ThreadInv, ThreadOK
  <2>2. table' = table
    BY <1>1, <1>4 DEF Call, heapVars
  <2>3. Map!Ask(t, s)
    BY <1>4, <2>1, <2>2 DEF Call, Map!Ask
  <2>4. QED
    BY <2>3 DEF Map!Next
<1>5. ASSUME NEW t \in Threads, Unlock(t)
      PROVE  Map!Next
  <2>1. table' = table
    BY <1>1, <1>5 DEF Unlock, heapVars
  <2>2. /\ sigma[t] \in Sigmas /\ sigma[t] # NoSigma
        /\ cache[t] = table[sigma[t]]
    BY <1>5, UnlockAnswers
  <2>3. Map!Answer(t)
    BY <1>5, <2>1, <2>2 DEF Unlock, Map!Answer
  <2>4. QED
    BY <2>3 DEF Map!Next
<1>6. ASSUME NEW t \in Threads, Push(t)
      PROVE  Map!Next
  <2>1. /\ sigma[t] \in Sigmas /\ cache[t] \in Cells
        /\ table[sigma[t]] = NULL
        /\ \A s \in Sigmas : table[s] # cache[t]
        /\ table' = [table EXCEPT ![sigma[t]] = cache[t]]
    BY <1>6, PushMakes
  <2>2. Map!Make(sigma[t], cache[t])
    BY <1>6, <2>1 DEF Push, Map!Make
  <2>3. QED
    BY <2>1, <2>2 DEF Map!Next
<1>7. ASSUME NEW t \in Threads,
             \/ Lock(t) \/ Search(t) \/ (\E c \in Cells : Allocate(t, c))
             \/ AllocateFails(t) \/ StartBuild(t) \/ BuildFails(t)
             \/ BuildRow(t) \/ FreeEntry(t)
      PROVE  UNCHANGED Map!vars
  <2>1. list' = list /\ sigma' = sigma /\ given' = given
    BY <1>7 DEF Lock, Search, Allocate, AllocateFails, StartBuild, BuildFails,
       BuildRow, FreeEntry, heapVars, threadVars
  <2>2. QED
    BY <1>1, <2>1 DEF Map!vars
<1>8. QED
  BY <1>2, <1>3, <1>4, <1>5, <1>6, <1>7 DEF Next, Step

\* The threads see one table per sigma, the same every time, and none is
\* refused where there is one: the list under its mutex implements TableMap.
THEOREM CacheImplements == Spec => ImplementsTableMap
<1>1. Init => Map!Init
  <2> SUFFICES ASSUME Init PROVE Map!Init
    OBVIOUS
  <2>1. \A c \in Cells, s \in Sigmas : ~Holds(c, s)
    BY DEF Init, Holds, ToSet
  <2>2. \A s \in Sigmas : TableOf(s) = NULL
    BY <2>1 DEF TableOf
  <2>3. QED
    BY <2>2 DEF Init, Map!Init
<1>2. CacheInv /\ CacheInv' /\ [Next]_vars => [Map!Next]_(Map!vars)
  <2>1. CacheInv => TablesUnique
    BY TablesAreUnique
  <2>2. CacheInv' => TablesUnique'
    BY TablesAreUnique, PTL
  <2>3. QED
    BY <2>1, <2>2, StepImplements
<1>3. QED
  BY <1>1, <1>2, CacheInvariance, PTL DEF Spec, Map!Spec, ImplementsTableMap

-----------------------------------------------------------------------------
(***************************************************************************)
(* The rows of a table.                                                    *)
(***************************************************************************)
\* The places of positive weight.
Positive(weights) == {i \in DOMAIN weights : weights[i] > 0}

\* The order has each place of positive weight, once.
LEMMA OrderFacts ==
    ASSUME NEW weights \in Seq(Nat)
    PROVE  LET o == ByWeight(weights)
           IN  /\ o \in Seq(Positive(weights)) /\ Len(o) \in Nat
               /\ DOMAIN o = 1 .. Len(o)
               /\ \A j, k \in 1 .. Len(o) : o[j] = o[k] => j = k
               /\ \A i \in Positive(weights) : \E k \in 1 .. Len(o) : o[k] = i
<1> DEFINE P == Positive(weights)
           C == Cardinality(P)
           Ahead(i) == {j \in P : Before(weights, j, i)}
           rank(i) == Cardinality(Ahead(i)) + 1
           ranks == [i \in P |-> rank(i)]
<1>1. /\ DOMAIN weights = 1 .. Len(weights) /\ Len(weights) \in Nat
      /\ \A i \in P : i \in Nat /\ i # 0 /\ weights[i] \in Nat
  BY LenProperties, ElementOfSeq DEF Positive
<1>2. IsFiniteSet(P) /\ C \in Nat
  <2>1. IsFiniteSet(1 .. Len(weights))
    BY <1>1, FS_Interval
  <2>2. P \in SUBSET (1 .. Len(weights))
    BY <1>1 DEF Positive
  <2>3. QED
    BY <2>1, <2>2, FS_Subset, FS_CardinalityType
<1>3. ASSUME NEW i \in P
      PROVE  /\ IsFiniteSet(Ahead(i)) /\ Cardinality(Ahead(i)) \in Nat
             /\ rank(i) \in 1 .. C
  <2>1. Ahead(i) \in SUBSET P /\ i \notin Ahead(i)
    BY <1>1 DEF Before
  <2>2. IsFiniteSet(Ahead(i)) /\ Cardinality(Ahead(i)) <= C
    BY <1>2, <2>1, FS_Subset
  <2>3. Cardinality(Ahead(i)) \in Nat
    BY <2>2, FS_CardinalityType
  <2>4. Cardinality(Ahead(i)) # C
    BY <1>2, <2>1, FS_Subset
  <2>5. QED
    BY <1>2, <2>2, <2>3, <2>4
<1>4. ASSUME NEW i \in P, NEW j \in P, Before(weights, i, j)
      PROVE  rank(i) < rank(j)
  <2>1. Ahead(i) \in SUBSET Ahead(j) /\ i \in Ahead(j) /\ i \notin Ahead(i)
    BY <1>1, <1>4 DEF Before
  <2>2. /\ Cardinality(Ahead(i)) <= Cardinality(Ahead(j))
        /\ Cardinality(Ahead(i)) # Cardinality(Ahead(j))
    BY <1>3, <2>1, FS_Subset
  <2>3. Cardinality(Ahead(i)) \in Nat /\ Cardinality(Ahead(j)) \in Nat
    BY <1>3
  <2> HIDE DEF Ahead
  <2>4. QED
    BY <2>2, <2>3
<1>5. ASSUME NEW i \in P, NEW j \in P, i # j
      PROVE  rank(i) # rank(j)
  <2>1. Before(weights, i, j) \/ Before(weights, j, i)
    BY <1>1, <1>5 DEF Before
  <2>2. rank(i) < rank(j) \/ rank(j) < rank(i)
    BY <1>4, <2>1
  <2>3. rank(i) \in 1 .. C /\ rank(j) \in 1 .. C
    BY <1>3
  <2> HIDE DEF rank
  <2>4. QED
    BY <2>2, <2>3
<1> HIDE DEF rank
<1>6. ranks \in Injection(P, 1 .. C)
  BY <1>3, <1>5 DEF Injection, IsInjective
<1>7. ranks \in Surjection(P, 1 .. C)
  <2>1. IsFiniteSet(1 .. C) /\ Cardinality(1 .. C) = C
    BY <1>2, FS_Interval
  <2>2. QED
    BY <1>6, <2>1, FS_Injection
<1>8. \A k \in 1 .. C : \E i \in P : rank(i) = k
  BY <1>7 DEF Surjection
<1> DEFINE o == [k \in 1 .. C |-> CHOOSE i \in P : rank(i) = k]
<1>9. ByWeight(weights) = o
  BY Zenon DEF ByWeight, Positive, rank
<1>10. \A k \in 1 .. C : o[k] \in P /\ rank(o[k]) = k
  BY <1>8
<1>11. DOMAIN o = 1 .. C
  OBVIOUS
<1> HIDE DEF o
<1>12. ASSUME NEW i \in P
       PROVE  \E k \in 1 .. C : o[k] = i
  <2>1. rank(i) \in 1 .. C
    BY <1>3
  <2>2. o[rank(i)] = i
    BY <1>5, <1>10, <2>1
  <2>3. QED
    BY <2>1, <2>2
<1>13. \A j, k \in 1 .. C : o[j] = o[k] => j = k
  BY <1>10
<1>14. o \in Seq(P) /\ Len(o) = C
  <2>1. o = [k \in 1 .. C |-> o[k]]
    BY DEF o
  <2>2. o \in [1 .. C -> P]
    BY <1>10, <2>1
  <2>3. QED
    BY <1>2, <2>2, SeqDef, LenProperties, <1>11
<1>15. QED
  BY <1>2, <1>9, <1>11, <1>12, <1>13, <1>14

-----------------------------------------------------------------------------
\* A threshold is a word.
LEMMA ThresholdIsWord ==
    ASSUME NEW m \in Int, NEW T \in Int
    PROVE  Threshold(m, T) \in 0 .. WordMax
<1>1. WordMax \in Nat \ {0}
  BY LengthsAssumption
<1>2. CASE m <= 0 \/ T <= 0 \/ m >= T
  BY <1>1, <1>2 DEF Threshold
<1>3. CASE ~(m <= 0 \/ T <= 0 \/ m >= T)
  <2> DEFINE V == WordMax + 1
             x == m * V
  <2>1. /\ V \in Nat /\ V >= 1 /\ V - 1 = WordMax
        /\ m \in Nat /\ m + 1 \in Nat /\ m + 1 <= T /\ T \in Nat \ {0}
    BY <1>1, <1>3
  <2>2. Threshold(m, T) = x \div T
    BY <1>3 DEF Threshold
  <2> HIDE DEF V
  <2>3. /\ V * m \in Nat /\ V * (m + 1) <= V * T
    BY <2>1, MulMono
  <2>4. V * (m + 1) = x + V /\ V * T = T * V /\ V * m = x
    BY <2>1
  <2>5. x \in Nat /\ x < T * V
    <3>1. V * (m + 1) \in Nat /\ V * T \in Nat
      BY <2>1, MulMono
    <3>2. QED
      BY <2>1, <2>3, <2>4, <3>1
  <2> HIDE DEF x
  <2>6. x \div T \in Nat /\ x \div T < V
    BY <2>1, <2>5, DivBounds
  <2>7. QED
    BY <1>1, <2>1, <2>2, <2>6
<1>4. QED
  BY <1>2, <1>3

\* The threshold of a prefix is its share of the words, rounded down.
LEMMA ThresholdClose ==
    ASSUME NEW T \in Nat \ {0}, NEW m \in Nat, m <= T
    PROVE  /\ Threshold(m, T) * T <= m * (WordMax + 1)
           /\ m * (WordMax + 1) <= Threshold(m, T) * T + T
<1>1. WordMax \in Nat \ {0}
  BY LengthsAssumption
<1>2. CASE m = 0
  BY <1>1, <1>2 DEF Threshold
<1>3. CASE m = T
  BY <1>1, <1>3 DEF Threshold
<1>4. CASE m # 0 /\ m # T
  <2> DEFINE x == m * (WordMax + 1)
             q == x \div T
  <2>1. Threshold(m, T) = q
    BY <1>4 DEF Threshold
  <2>2. x \in Nat
    BY <1>1
  <2> HIDE DEF x
  <2>3. q \in Nat
    BY <2>2, DivBounds
  <2>4. T * q <= x
    BY <2>2, <2>3, DivBounds
  <2>5. x < T * (q + 1)
    <3>1. x \div T < q + 1 /\ q + 1 \in Nat
      BY <2>3
    <3>2. QED
      BY <2>2, <3>1, DivBounds
  <2> HIDE DEF q
  <2>6. T * (q + 1) = T * q + T /\ T * q = q * T /\ T * q \in Nat
    BY <2>3
  <2>7. q * T <= x /\ x <= q * T + T
    BY <2>2, <2>3, <2>4, <2>5, <2>6
  <2>8. QED
    BY <2>1, <2>7 DEF x
<1>5. QED
  BY <1>2, <1>3, <1>4

\* The words between two prefixes are the share of what lies between them, but
\* for one.
LEMMA SharesClose ==
    ASSUME NEW T \in Nat \ {0}, NEW m \in Nat, NEW w \in Nat, m + w <= T
    PROVE  LET p == Threshold(m, T)
               q == Threshold(m + w, T)
           IN  /\ (q - p) * T <= w * (WordMax + 1) + T
               /\ w * (WordMax + 1) <= (q - p) * T + T
<1> DEFINE p == Threshold(m, T)
           q == Threshold(m + w, T)
           V == WordMax + 1
<1>1. m <= T /\ m + w \in Nat /\ V \in Nat
  BY LengthsAssumption
<1>2. p \in Int /\ q \in Int
  <2>1. \A a, b \in Int : Threshold(a, b) \in 0 .. WordMax
    BY ThresholdIsWord
  <2>2. QED
    BY <1>1, <2>1, LengthsAssumption
<1>3. /\ p * T <= m * V /\ m * V <= p * T + T
      /\ q * T <= (m + w) * V /\ (m + w) * V <= q * T + T
  BY <1>1, ThresholdClose
<1> HIDE DEF p, q, V
<1>4. /\ (q - p) * T = q * T - p * T /\ (m + w) * V = m * V + w * V
      /\ q * T \in Int /\ p * T \in Int /\ m * V \in Int /\ w * V \in Int
  BY <1>1, <1>2
<1>5. /\ (q - p) * T <= w * V + T
      /\ w * V <= (q - p) * T + T
  BY <1>3, <1>4
<1>6. QED
  BY <1>5 DEF p, q, V

\* The words up to the first prefix.
LEMMA FirstShareClose ==
    ASSUME NEW T \in Nat \ {0}, NEW w \in Nat, w <= T
    PROVE  LET q == Threshold(w, T)
           IN  /\ (q + 1) * T <= w * (WordMax + 1) + T
               /\ w * (WordMax + 1) <= (q + 1) * T + T
<1> DEFINE q == Threshold(w, T)
           V == WordMax + 1
<1>1. q \in Nat /\ V \in Nat
  <2>1. Threshold(w, T) \in 0 .. WordMax
    BY ThresholdIsWord
  <2>2. QED
    BY <2>1, LengthsAssumption
<1>2. q * T <= w * V /\ w * V <= q * T + T
  BY ThresholdClose
<1> HIDE DEF q, V
<1>3. /\ (q + 1) * T = q * T + T
      /\ q * T \in Int /\ w * V \in Int
  BY <1>1
<1>4. (q + 1) * T <= w * V + T /\ w * V <= (q + 1) * T + T
  BY <1>2, <1>3
<1>5. QED
  BY <1>4 DEF q, V

-----------------------------------------------------------------------------
\* The lists of places of S under construction.
Lists(S) == [value : Seq(S), cdf : Seq(Int), mass : Nat]

\* What a list has after a place was put on it.
LEMMA Longer ==
    ASSUME NEW S, NEW v \in Seq(S), NEW c \in Seq(Int), Len(c) = Len(v),
           NEW i \in S, NEW q \in Int
    PROVE  /\ Append(v, i) \in Seq(S) /\ Append(c, q) \in Seq(Int)
           /\ Len(v) \in Nat /\ DOMAIN v = 1 .. Len(v)
           /\ Len(Append(v, i)) = Len(v) + 1 /\ Len(Append(c, q)) = Len(v) + 1
           /\ Append(v, i)[Len(v) + 1] = i /\ Append(c, q)[Len(v) + 1] = q
           /\ \A k \in 1 .. Len(v) : /\ Append(v, i)[k] = v[k]
                                     /\ Append(c, q)[k] = c[k]
           /\ ToSet(Append(v, i)) = ToSet(v) \cup {i}
<1> DEFINE l == Len(v)
<1>1. l \in Nat /\ DOMAIN v = 1 .. l
  BY LenProperties
<1>2. /\ Append(v, i) \in Seq(S) /\ Len(Append(v, i)) = l + 1
      /\ \A k \in 1 .. l : Append(v, i)[k] = v[k]
      /\ Append(v, i)[l + 1] = i
  BY <1>1, AppendProperties
<1>3. /\ Append(c, q) \in Seq(Int) /\ Len(Append(c, q)) = l + 1
      /\ \A k \in 1 .. l : Append(c, q)[k] = c[k]
      /\ Append(c, q)[l + 1] = q
  BY <1>1, AppendProperties
<1>4. ToSet(Append(v, i)) = ToSet(v) \cup {i}
  <2>1. DOMAIN Append(v, i) = 1 .. l + 1
    BY <1>2, LenProperties
  <2>2. 1 .. l + 1 = (1 .. l) \cup {l + 1}
    BY <1>1
  <2>3. QED
    BY <1>1, <1>2, <2>1, <2>2 DEF ToSet
<1>5. QED
  BY <1>1, <1>2, <1>3, <1>4

\* The words that the k-th threshold gives are the share of its place, but for
\* one.
CloseTo(value, cdf, weights, total, k) ==
    LET hits == cdf[k] - (IF k = 1 THEN -1 ELSE cdf[k - 1])
        share == weights[value[k]] * (WordMax + 1)
    IN  /\ hits * total <= share + total
        /\ share <= hits * total + total

\* The hot list after n turns.
TinyOK(made, count, weights, total) ==
    LET l == Len(made.value)
        o == ByWeight(weights)
    IN  /\ made \in Lists(Positive(weights)) /\ Len(made.cdf) = l
        /\ \A k \in 1 .. l : \E j \in 1 .. count : made.value[k] = o[j]
        /\ \A j, k \in 1 .. l : made.value[j] = made.value[k] => j = k
        /\ made.mass = MassOf(weights, ToSet(made.value))
        /\ l > 0 => made.cdf[l] = Threshold(made.mass, total)
        /\ count > 0 => l > 0
        /\ total = MassOf(weights, DOMAIN weights) =>
              \A k \in 1 .. l : CloseTo(made.value, made.cdf, weights, total, k)

\* A turn puts a place on the list that is not on it, or leaves the list alone.
LEMMA TinyTurn ==
    ASSUME NEW weights \in Seq(Nat), NEW total \in Int, total > 0, NEW made,
           NEW count \in 1 .. Len(ByWeight(weights)), TinyOK(made, count - 1, weights, total)
    PROVE  TinyOK(AddTiny(made, ByWeight(weights)[count], weights, total), count, weights, total)
<1> DEFINE P == Positive(weights)
           o == ByWeight(weights)
           i == o[count]
           l == Len(made.value)
<1>1. /\ Len(o) \in Nat /\ count \in 1 .. Len(o) /\ count - 1 \in Nat /\ i \in P
      /\ \A j, k \in 1 .. Len(o) : o[j] = o[k] => j = k
  <2>1. /\ o \in Seq(P) /\ Len(o) \in Nat
        /\ \A j, k \in 1 .. Len(o) : o[j] = o[k] => j = k
    BY OrderFacts
  <2>2. count \in 1 .. Len(o)
    OBVIOUS
  <2> HIDE DEF o
  <2>3. QED
    BY <2>1, <2>2, ElementOfSeq
<1>2. /\ made \in Lists(P) /\ Len(made.cdf) = l
      /\ \A k \in 1 .. l : \E j \in 1 .. count - 1 : made.value[k] = o[j]
      /\ \A j, k \in 1 .. l : made.value[j] = made.value[k] => j = k
      /\ made.mass = MassOf(weights, ToSet(made.value))
      /\ l > 0 => made.cdf[l] = Threshold(made.mass, total)
      /\ total = MassOf(weights, DOMAIN weights) =>
            \A k \in 1 .. l : CloseTo(made.value, made.cdf, weights, total, k)
  BY DEF TinyOK
<1>3. CASE made.cdf # <<>> /\ AddTiny(made, i, weights, total) = made
  <2>1. \A k \in 1 .. l : \E j \in 1 .. count : made.value[k] = o[j]
    <3>1. 1 .. count - 1 \subseteq 1 .. count
      BY <1>1
    <3> HIDE DEF o, l
    <3>2. QED
      BY <1>2, <3>1
  <2>2. l > 0
    <3>1. made.value \in Seq(P) /\ made.cdf \in Seq(Int)
      BY <1>2 DEF Lists
    <3>2. l \in Nat /\ l # 0
      BY <1>2, <1>3, <3>1, LenProperties, EmptySeq
    <3> HIDE DEF l
    <3>3. QED
      BY <3>2
  <2>3. QED
    BY <1>2, <1>3, <2>1, <2>2 DEF TinyOK
<1>4. CASE AddTiny(made, i, weights, total) = AddTinyAlways(made, i, weights, total)
  <2> DEFINE w == weights[i]
             q == Threshold(made.mass + w, total)
             more == [value |-> Append(made.value, i), cdf |-> Append(made.cdf, q),
                      mass |-> made.mass + w]
  <2>1. AddTiny(made, i, weights, total) = more
    BY <1>4 DEF AddTinyAlways
  <2>2. /\ DOMAIN weights = 1 .. Len(weights) /\ Len(weights) \in Nat
        /\ P \subseteq DOMAIN weights /\ w \in Nat /\ made.mass \in Nat
        /\ \A k \in DOMAIN weights : weights[k] \in Nat
        /\ IsFiniteSet(DOMAIN weights)
    <3>1. /\ DOMAIN weights = 1 .. Len(weights) /\ Len(weights) \in Nat
          /\ \A k \in DOMAIN weights : weights[k] \in Nat
      BY LenProperties, ElementOfSeq
    <3>2. IsFiniteSet(DOMAIN weights)
      BY <3>1, FS_Interval
    <3>3. P \subseteq DOMAIN weights
      BY DEF Positive, P
    <3>4. made.mass \in Nat
      BY <1>2 DEF Lists
    <3>5. QED
      BY <1>1, <3>1, <3>2, <3>3, <3>4
  <2>3. q \in Int
    <3>1. \A a, b \in Int : Threshold(a, b) \in 0 .. WordMax
      BY ThresholdIsWord
    <3>2. made.mass + w \in Int
      BY <2>2
    <3>3. QED
      BY <3>1, <3>2
  <2> HIDE DEF i, w, q, o, P
  <2>4. made.mass + w \in Nat
    BY <2>2
  <2>5. /\ more \in Lists(P) /\ l \in Nat
        /\ DOMAIN made.value = 1 .. l
        /\ Len(more.value) = l + 1 /\ Len(more.cdf) = l + 1
        /\ more.value[l + 1] = i /\ more.cdf[l + 1] = q
        /\ more.mass = made.mass + w
        /\ \A k \in 1 .. l : /\ more.value[k] = made.value[k]
                             /\ more.cdf[k] = made.cdf[k]
        /\ ToSet(more.value) = ToSet(made.value) \cup {i}
    <3> DEFINE v == made.value
               c == made.cdf
    <3>1. /\ more.value = Append(v, i) /\ more.cdf = Append(c, q)
          /\ more.mass = made.mass + w
      OBVIOUS
    <3>2. v \in Seq(P) /\ c \in Seq(Int) /\ Len(c) = Len(v) /\ l = Len(v)
      BY <1>2 DEF Lists
    <3> HIDE DEF v, c, l
    <3>3. /\ Append(v, i) \in Seq(P) /\ Append(c, q) \in Seq(Int)
          /\ l \in Nat /\ DOMAIN v = 1 .. l
          /\ Len(Append(v, i)) = l + 1 /\ Len(Append(c, q)) = l + 1
          /\ Append(v, i)[l + 1] = i /\ Append(c, q)[l + 1] = q
          /\ \A k \in 1 .. l : Append(v, i)[k] = v[k] /\ Append(c, q)[k] = c[k]
          /\ ToSet(Append(v, i)) = ToSet(v) \cup {i}
      BY <1>1, <2>3, <3>2, Longer
    <3>4. more \in Lists(P)
      BY <2>4, <3>3 DEF Lists, v, c
    <3> HIDE DEF more
    <3>5. QED
      BY <3>1, <3>3, <3>4 DEF v, c
  <2> HIDE DEF more, l
  <2>6. \A k \in 1 .. l : made.value[k] # i
    BY <1>1, <1>2 DEF i
  <2>7. ToSet(made.value) \in SUBSET DOMAIN weights /\ i \notin ToSet(made.value)
    <3>1. \A k \in 1 .. l : made.value[k] \in P
      BY <1>2, <2>5, ElementOfSeq DEF Lists, l
    <3>2. QED
      BY <2>2, <2>5, <2>6, <3>1 DEF ToSet
  <2>8. more.mass = MassOf(weights, ToSet(more.value))
    <3>1. IsFiniteSet(ToSet(made.value))
      BY <2>2, <2>7, FS_Subset
    <3>2. \A y \in ToSet(made.value) : weights[y] \in Nat
      BY <2>2, <2>7
    <3>3. SumFunctionOnSet(weights, ToSet(made.value) \cup {i}) =
             SumFunctionOnSet(weights, ToSet(made.value)) + weights[i]
      BY <2>2, <2>7, <3>1, <3>2, SumAdd DEF w
    <3>4. MassOf(weights, ToSet(more.value)) =
             SumFunctionOnSet(weights, ToSet(made.value) \cup {i})
      BY <2>5, Zenon DEF MassOf
    <3>5. made.mass = SumFunctionOnSet(weights, ToSet(made.value))
      BY <1>2 DEF MassOf
    <3>6. QED
      BY <2>5, <3>3, <3>4, <3>5 DEF w
  <2>9. \A j, k \in 1 .. l + 1 : more.value[j] = more.value[k] => j = k
    <3>1. 1 .. l + 1 = (1 .. l) \cup {l + 1}
      BY <2>5
    <3>2. QED
      BY <1>2, <2>5, <2>6, <3>1 DEF l
  <2>10. \A k \in 1 .. l + 1 : \E j \in 1 .. count : more.value[k] = o[j]
    <3>1. 1 .. l + 1 = (1 .. l) \cup {l + 1}
      BY <2>5
    <3>2. count \in 1 .. count /\ more.value[l + 1] = o[count]
      BY <1>1, <2>5 DEF i
    <3>3. \A k \in 1 .. l : \E j \in 1 .. count : more.value[k] = o[j]
      <4>1. 1 .. count - 1 \subseteq 1 .. count
        BY <1>1
      <4>2. \A k \in 1 .. l : \E j \in 1 .. count - 1 : made.value[k] = o[j]
        BY <1>2 DEF l
      <4>3. \A k \in 1 .. l : \E j \in 1 .. count : made.value[k] = o[j]
        BY <4>1, <4>2
      <4>4. QED
        BY <2>5, <4>3
    <3>4. QED
      BY <3>1, <3>2, <3>3
  <2>11. ASSUME total = MassOf(weights, DOMAIN weights), NEW k \in 1 .. l + 1
         PROVE  CloseTo(more.value, more.cdf, weights, total, k)
    <3>1. CASE k \in 1 .. l
      <4>1. CloseTo(made.value, made.cdf, weights, total, k)
        BY <1>2, <2>11, <3>1 DEF l
      <4>2. more.value[k] = made.value[k] /\ more.cdf[k] = made.cdf[k]
        BY <2>5, <3>1
      <4>3. k # 1 => more.cdf[k - 1] = made.cdf[k - 1]
        BY <2>5, <3>1
      <4>4. QED
        BY <4>1, <4>2, <4>3 DEF CloseTo
    <3>2. CASE k = l + 1
      <4>1. made.mass + w <= total /\ total \in Nat \ {0}
        <5>1. ToSet(more.value) \in SUBSET DOMAIN weights
          BY <1>1, <2>2, <2>5, <2>7 DEF i
        <5>2. MassOf(weights, ToSet(more.value)) <= MassOf(weights, DOMAIN weights)
          BY <2>2, <5>1, SumPart DEF MassOf
        <5>3. QED
          BY <2>5, <2>8, <2>11, <5>2
      <4>2. more.value[k] = i /\ more.cdf[k] = q
        BY <2>5, <3>2
      <4>3. CASE l = 0
        <5>1. made.mass = 0
          <6>1. ToSet(made.value) = {}
            BY <2>5, <4>3 DEF ToSet
          <6>2. QED
            BY <1>2, <6>1, SumOfNone DEF MassOf
        <5>2. k = 1 /\ q = Threshold(w, total) /\ w <= total
          <6>1. made.mass + w = w
            BY <2>2, <5>1
          <6>2. QED
            BY <3>2, <4>1, <4>3, <6>1 DEF q
        <5>3. /\ (q + 1) * total <= w * (WordMax + 1) + total
              /\ w * (WordMax + 1) <= (q + 1) * total + total
          BY <2>2, <4>1, <5>2, FirstShareClose
        <5>4. q - (-1) = q + 1
          BY <2>3
        <5>5. QED
          BY <4>2, <5>2, <5>3, <5>4 DEF CloseTo, w
      <4>4. CASE l # 0
        <5> DEFINE p == Threshold(made.mass, total)
        <5>1. k # 1 /\ more.cdf[k - 1] = p
          <6>1. l > 0 /\ l \in 1 .. l /\ k - 1 = l /\ k # 1
            BY <2>5, <3>2, <4>4
          <6>2. made.cdf[l] = p
            BY <1>2, <6>1 DEF l
          <6>3. more.cdf[l] = made.cdf[l]
            BY <2>5, <6>1
          <6> HIDE DEF p
          <6>4. QED
            BY <6>1, <6>2, <6>3
        <5>2. /\ (q - p) * total <= w * (WordMax + 1) + total
              /\ w * (WordMax + 1) <= (q - p) * total + total
          BY <2>2, <4>1, SharesClose DEF q
        <5> HIDE DEF p
        <5>3. QED
          BY <4>2, <5>1, <5>2 DEF CloseTo, w
      <4>5. QED
        BY <4>3, <4>4
    <3>3. QED
      BY <2>5, <3>1, <3>2
  <2>12. more.cdf[l + 1] = Threshold(more.mass, total)
    BY <2>5 DEF q
  <2>13. TinyOK(more, count, weights, total)
    <3>1. Len(more.value) > 0
      BY <2>5
    <3>2. QED
      BY <3>1, <2>5, <2>8, <2>9, <2>10, <2>11, <2>12 DEF TinyOK, o, P
  <2>14. QED
    BY <2>1, <2>13 DEF i, o
<1>5. QED
  BY <1>3, <1>4 DEF AddTiny

\* A turn of the hot list gives a list.
LEMMA TinyTurnType ==
    ASSUME NEW S, NEW made \in Lists(S), NEW i \in S, NEW weights \in Seq(Nat),
           S \subseteq DOMAIN weights, NEW total \in Int
    PROVE  AddTiny(made, i, weights, total) \in Lists(S)
<1> DEFINE q == Threshold(made.mass + weights[i], total)
           m == made.mass + weights[i]
<1>1. /\ made.value \in Seq(S) /\ made.cdf \in Seq(Int) /\ made.mass \in Nat
      /\ weights[i] \in Nat
  BY LenProperties, ElementOfSeq DEF Lists
<1>2. q \in Int /\ m \in Nat
  <2>1. \A a, b \in Int : Threshold(a, b) \in 0 .. WordMax
    BY ThresholdIsWord
  <2>2. m \in Nat /\ m \in Int
    BY <1>1
  <2> HIDE DEF m
  <2>3. Threshold(m, total) \in 0 .. WordMax
    BY <2>1, <2>2
  <2>4. QED
    BY <2>2, <2>3 DEF m
<1> HIDE DEF q, m
<1>3. Append(made.value, i) \in Seq(S) /\ Append(made.cdf, q) \in Seq(Int)
  BY <1>1, <1>2, AppendProperties
<1>4. [value |-> Append(made.value, i), cdf |-> Append(made.cdf, q), mass |-> m]
         \in Lists(S)
  BY <1>2, <1>3 DEF Lists
<1>5. QED
  BY <1>4 DEF AddTiny, AddTinyAlways, q, m

\* Nothing is a list.
LEMMA EmptyFacts ==
    ASSUME NEW S
    PROVE  /\ EmptyList \in Lists(S)
           /\ Len(EmptyList.value) = 0 /\ Len(EmptyList.cdf) = 0
           /\ EmptyList.mass = 0 /\ ToSet(EmptyList.value) = {}
BY DEF EmptyList, Lists, ToSet

\* The loop of the hot list.
LEMMA TinyFacts ==
    ASSUME NEW weights \in Seq(Nat), NEW total \in Int, total > 0
    PROVE  \E count \in 0 .. Len(ByWeight(weights)) :
              /\ TinyOK(TinyList(weights, total), count, weights, total)
              /\ Len(ByWeight(weights)) > 0 => count > 0
<1> DEFINE P == Positive(weights)
           o == ByWeight(weights)
           L == Len(o)
           Loop(g) == g = [count \in 0 .. L |->
                             IF count = 0 THEN EmptyList
                             ELSE AddTiny(g[count - 1], o[count], weights, total)]
           turn == CHOOSE g : Loop(g)
           last == Min({TinyLen, L})
<1>1. o \in Seq(P) /\ L \in Nat /\ \A count \in 1 .. L : o[count] \in P
  <2>1. o \in Seq(P) /\ Len(o) \in Nat
    BY OrderFacts
  <2> HIDE DEF o, P
  <2>2. QED
    BY <2>1, ElementOfSeq
<1>2. TinyList(weights, total) = turn[last]
  BY Zenon DEF TinyList
<1>3. last \in 0 .. L /\ (L > 0 => last > 0)
  <2>1. last = IF TinyLen <= L THEN TinyLen ELSE L
    <3> DEFINE e == IF TinyLen <= L THEN TinyLen ELSE L
    <3>1. e \in {TinyLen, L} /\ \A y \in {TinyLen, L} : e <= y
      BY <1>1, LengthsAssumption
    <3>2. \A x \in {TinyLen, L} : (\A y \in {TinyLen, L} : x <= y) => x = e
      BY <1>1, LengthsAssumption
    <3> HIDE DEF e, L
    <3>3. QED
      BY <3>1, <3>2 DEF Min, e
  <2> HIDE DEF last, L
  <2>2. QED
    BY <1>1, <2>1, LengthsAssumption
<1> HIDE DEF last, o
<1>4. Loop(turn)
  <2> DEFINE F == [count \in 1 .. L |-> [x \in Lists(P) |-> AddTiny(x, o[count], weights, total)]]
  <2>1. P \subseteq DOMAIN weights /\ EmptyList \in Lists(P)
    BY EmptyFacts DEF Positive
  <2>2. \A x \in Lists(P) : \A count \in 1 .. L : /\ F[count][x] \in Lists(P)
                                            /\ F[count][x] = AddTiny(x, o[count], weights, total)
    <3> HIDE DEF P, L
    <3>1. \A x \in Lists(P) : \A count \in 1 .. L : AddTiny(x, o[count], weights, total) \in Lists(P)
      BY <1>1, <2>1, TinyTurnType
    <3>2. QED
      BY <3>1
  <2> HIDE DEF F, P, L
  <2>3. PICK g \in [0 .. L -> Lists(P)] : LoopStates(EmptyList, L, F, g)
    BY <1>1, <2>1, <2>2, LoopExists
  <2>4. \A count \in 0 .. L : g[count] = IF count = 0 THEN EmptyList
                                ELSE AddTiny(g[count - 1], o[count], weights, total)
    <3> SUFFICES ASSUME NEW count \in 0 .. L
                 PROVE  g[count] = IF count = 0 THEN EmptyList
                               ELSE AddTiny(g[count - 1], o[count], weights, total)
      OBVIOUS
    <3>1. g[count] = IF count = 0 THEN EmptyList ELSE F[count][g[count - 1]]
      BY <2>3, Zenon DEF LoopStates
    <3>2. CASE count = 0
      BY <3>1, <3>2
    <3>3. CASE count # 0
      <4>1. count \in 1 .. L /\ count - 1 \in 0 .. L
        BY <1>1, <3>3
      <4>2. g[count - 1] \in Lists(P)
        BY <2>3, <4>1
      <4>3. QED
        BY <2>2, <3>1, <3>3, <4>1, <4>2
    <3>4. QED
      BY <3>2, <3>3
  <2>5. g = [count \in 0 .. L |-> g[count]]
    BY <2>3
  <2>6. Loop(g)
    BY <2>4, <2>5, Zenon
  <2> HIDE DEF Loop
  <2>7. QED
    BY <2>6
<1> HIDE DEF turn
<1>5. /\ turn[0] = EmptyList
      /\ \A count \in 1 .. L : turn[count] = AddTiny(turn[count - 1], o[count], weights, total)
  <2>1. \A count \in 0 .. L : turn[count] = IF count = 0 THEN EmptyList
                                   ELSE AddTiny(turn[count - 1], o[count], weights, total)
    BY <1>4, Zenon
  <2> HIDE DEF L
  <2>2. QED
    BY <1>1, <2>1
<1> DEFINE Wrong == {count \in 0 .. L : ~TinyOK(turn[count], count, weights, total)}
<1>6. ASSUME Wrong # {} PROVE FALSE
  <2>1. PICK count \in Wrong : \A k \in Wrong : count <= k
    <3>1. Wrong \subseteq Nat
      BY <1>1
    <3> HIDE DEF Wrong
    <3>2. QED
      BY <1>6, <3>1, LeastNatural
  <2>2. count # 0
    <3>1. /\ EmptyList \in Lists(P) /\ Len(EmptyList.value) = 0
          /\ Len(EmptyList.cdf) = 0 /\ EmptyList.mass = 0
          /\ ToSet(EmptyList.value) = {}
      BY EmptyFacts
    <3>2. EmptyList.mass = MassOf(weights, ToSet(EmptyList.value))
      BY <3>1, SumOfNone DEF MassOf
    <3>3. TinyOK(EmptyList, 0, weights, total)
      BY <3>1, <3>2 DEF TinyOK
    <3>4. QED
      BY <1>5, <2>1, <3>3
  <2>3. count \in 1 .. L /\ count - 1 \in 0 .. L /\ count - 1 \notin Wrong
    BY <1>1, <2>1, <2>2
  <2>4. TinyOK(turn[count - 1], count - 1, weights, total)
    BY <2>3
  <2>5. TinyOK(turn[count], count, weights, total)
    <3>1. turn[count] = AddTiny(turn[count - 1], o[count], weights, total)
      BY <1>5, <2>3
    <3>2. TinyOK(AddTiny(turn[count - 1], o[count], weights, total), count, weights, total)
      BY <2>3, <2>4, TinyTurn DEF o
    <3>3. QED
      BY <3>1, <3>2
  <2>6. QED
    BY <2>1, <2>5
<1>7. TinyOK(turn[last], last, weights, total)
  BY <1>3, <1>6
<1>8. QED
  BY <1>2, <1>3, <1>7 DEF o

-----------------------------------------------------------------------------
\* The tail after n turns: its places are not used, and it has one once there
\* was one that is not.
TailOK(made, count, weights, used) ==
    LET l == Len(made.value)
        o == ByWeight(weights)
    IN  /\ made \in Lists(Positive(weights)) /\ Len(made.cdf) = l
        /\ \A k \in 1 .. l : /\ made.value[k] \notin used
                             /\ \E j \in 1 .. count : made.value[k] = o[j]
        /\ \A j, k \in 1 .. l : made.value[j] = made.value[k] => j = k
        /\ (\E j \in 1 .. count : o[j] \notin used) => l > 0

\* A turn of the tail's loop, and what it does.
TailTurnOf(made, i, weights, used, mass) ==
    IF i \in used THEN made ELSE AddTail(made, i, weights, mass)

\* A turn of the tail gives a list: the one it had, or one with a place more.
LEMMA TailTurnType ==
    ASSUME NEW S, NEW made \in Lists(S), NEW i \in S, NEW weights \in Seq(Nat),
           S \subseteq DOMAIN weights, NEW mass \in Int, NEW used
    PROVE  LET result == TailTurnOf(made, i, weights, used, mass)
           IN  /\ result \in Lists(S)
               /\ \/ result = made /\ (i \in used \/ Len(made.cdf) > 0)
                  \/ /\ i \notin used
                     /\ result.value = Append(made.value, i)
                     /\ \E q \in Int : result.cdf = Append(made.cdf, q)
<1> DEFINE m == made.mass + weights[i]
           q == Threshold(m, mass)
           result == TailTurnOf(made, i, weights, used, mass)
<1>1. /\ made.value \in Seq(S) /\ made.cdf \in Seq(Int) /\ made.mass \in Nat
      /\ weights[i] \in Nat
  BY LenProperties, ElementOfSeq DEF Lists
<1>2. q \in Int /\ m \in Nat
  <2>1. \A a, b \in Int : Threshold(a, b) \in 0 .. WordMax
    BY ThresholdIsWord
  <2>2. m \in Nat /\ m \in Int
    BY <1>1
  <2> HIDE DEF m
  <2>3. Threshold(m, mass) \in 0 .. WordMax
    BY <2>1, <2>2
  <2>4. QED
    BY <2>2, <2>3 DEF m
<1>3. CASE i \in used
  BY <1>3 DEF TailTurnOf
<1>4. CASE i \notin used /\ (Len(made.cdf) = TailMax \/ Full(made))
  <2>1. result = made
    BY <1>4 DEF TailTurnOf, AddTail
  <2>2. Len(made.cdf) > 0
    <3>1. Len(made.cdf) \in Nat /\ (Len(made.cdf) = 0 => made.cdf = <<>>)
      BY <1>1, LenProperties, EmptySeq
    <3>2. QED
      BY <1>4, <3>1, LengthsAssumption DEF Full
  <2>3. QED
    BY <2>1, <2>2
<1>5. CASE i \notin used /\ ~(Len(made.cdf) = TailMax \/ Full(made))
  <2>1. result = [value |-> Append(made.value, i), cdf |-> Append(made.cdf, q),
                mass |-> m]
    BY <1>5 DEF TailTurnOf, AddTail
  <2> HIDE DEF q, m, result
  <2>2. Append(made.value, i) \in Seq(S) /\ Append(made.cdf, q) \in Seq(Int)
    BY <1>1, <1>2, AppendProperties
  <2>3. result \in Lists(S)
    BY <1>2, <2>1, <2>2 DEF Lists
  <2>4. result.value = Append(made.value, i) /\ result.cdf = Append(made.cdf, q)
    BY <2>1
  <2>5. QED
    BY <1>2, <1>5, <2>3, <2>4 DEF result
<1>6. QED
  BY <1>3, <1>4, <1>5

\* A turn keeps what the tail promises.
LEMMA TailTurn ==
    ASSUME NEW weights \in Seq(Nat), NEW mass \in Int, NEW used, NEW made,
           NEW count \in 1 .. Len(ByWeight(weights)), TailOK(made, count - 1, weights, used)
    PROVE  TailOK(TailTurnOf(made, ByWeight(weights)[count], weights, used, mass),
                  count, weights, used)
<1> DEFINE P == Positive(weights)
           o == ByWeight(weights)
           i == o[count]
           l == Len(made.value)
           result == TailTurnOf(made, i, weights, used, mass)
<1>1. /\ Len(o) \in Nat /\ count \in 1 .. Len(o) /\ count - 1 \in Nat /\ i \in P
      /\ \A j, k \in 1 .. Len(o) : o[j] = o[k] => j = k
  <2>1. /\ o \in Seq(P) /\ Len(o) \in Nat
        /\ \A j, k \in 1 .. Len(o) : o[j] = o[k] => j = k
    BY OrderFacts
  <2>2. count \in 1 .. Len(o)
    OBVIOUS
  <2> HIDE DEF o
  <2>3. QED
    BY <2>1, <2>2, ElementOfSeq
<1>2. /\ made \in Lists(P) /\ Len(made.cdf) = l
      /\ \A k \in 1 .. l : /\ made.value[k] \notin used
                           /\ \E j \in 1 .. count - 1 : made.value[k] = o[j]
      /\ \A j, k \in 1 .. l : made.value[j] = made.value[k] => j = k
      /\ (\E j \in 1 .. count - 1 : o[j] \notin used) => l > 0
  BY DEF TailOK
<1>3. P \subseteq DOMAIN weights
  BY DEF Positive
<1>4. /\ result \in Lists(P)
      /\ \/ result = made /\ (i \in used \/ Len(made.cdf) > 0)
         \/ /\ i \notin used
            /\ result.value = Append(made.value, i)
            /\ \E q \in Int : result.cdf = Append(made.cdf, q)
  <2> HIDE DEF i, P
  <2>1. made \in Lists(P) /\ i \in P
    BY <1>1, <1>2
  <2>2. QED
    BY <1>3, <2>1, TailTurnType, SMTT(30)
<1>5. /\ made.value \in Seq(P) /\ made.cdf \in Seq(Int) /\ l \in Nat
  BY <1>2, LenProperties DEF Lists
<1>6. 1 .. count = (1 .. count - 1) \cup {count}
  BY <1>1
<1> HIDE DEF o, P, result
<1>7. CASE result = made /\ (i \in used \/ Len(made.cdf) > 0)
  <2>1. \A k \in 1 .. l : \E j \in 1 .. count : made.value[k] = o[j]
    BY <1>2, <1>6
  <2>2. (\E j \in 1 .. count : o[j] \notin used) => l > 0
    BY <1>2, <1>6, <1>7
  <2>3. TailOK(result, count, weights, used)
    BY <1>2, <1>7, <2>1, <2>2 DEF TailOK, o, P
  <2>4. QED
    BY <2>3 DEF result, o
<1>8. ASSUME i \notin used, result.value = Append(made.value, i),
             NEW q \in Int, result.cdf = Append(made.cdf, q)
      PROVE  TailOK(result, count, weights, used)
  <2> DEFINE v == made.value
             c == made.cdf
  <2>1. v \in Seq(P) /\ c \in Seq(Int) /\ Len(c) = Len(v) /\ l = Len(v)
    BY <1>2, <1>5
  <2> HIDE DEF v, c, l, i
  <2>2. /\ Len(Append(v, i)) = l + 1 /\ Len(Append(c, q)) = l + 1
        /\ Append(v, i)[l + 1] = i
        /\ \A k \in 1 .. l : Append(v, i)[k] = v[k]
    BY <1>1, <2>1, Longer
  <2>3. \A k \in 1 .. l : v[k] # i
    BY <1>1, <1>2 DEF v, i
  <2>4. 1 .. l + 1 = (1 .. l) \cup {l + 1}
    BY <1>5
  <2>5. ASSUME NEW k \in 1 .. l + 1
        PROVE  /\ Append(v, i)[k] \notin used
               /\ \E j \in 1 .. count : Append(v, i)[k] = o[j]
    <3>1. CASE k \in 1 .. l
      BY <1>2, <1>6, <2>2, <3>1 DEF v
    <3>2. CASE k = l + 1
      BY <1>1, <1>6, <1>8, <2>2, <3>2 DEF i
    <3>3. QED
      BY <2>4, <3>1, <3>2
  <2>6. \A j, k \in 1 .. l + 1 : Append(v, i)[j] = Append(v, i)[k] => j = k
    BY <1>2, <2>2, <2>3, <2>4, SMTT(30) DEF v
  <2>7. l + 1 > 0
    BY <1>5
  <2>8. result.value = Append(v, i) /\ result.cdf = Append(c, q)
    BY <1>8 DEF v, c
  <2>9. /\ Len(result.value) = l + 1 /\ Len(result.cdf) = l + 1
        /\ \A k \in 1 .. l + 1 : /\ result.value[k] \notin used
                                 /\ \E j \in 1 .. count : result.value[k] = o[j]
        /\ \A j, k \in 1 .. l + 1 : result.value[j] = result.value[k] => j = k
    BY <2>2, <2>5, <2>6, <2>8, SMTT(30)
  <2>10. QED
    BY <1>4, <2>7, <2>9 DEF TailOK, o, P
<1>9. QED
  BY <1>4, <1>7, <1>8 DEF result, o

\* The loop of the tail.
LEMMA TailFacts ==
    ASSUME NEW weights \in Seq(Nat), NEW mass \in Int, NEW used
    PROVE  TailOK(TailList(weights, used, mass), Len(ByWeight(weights)), weights, used)
<1> DEFINE P == Positive(weights)
           o == ByWeight(weights)
           L == Len(o)
           Turn(x, count) == TailTurnOf(x, o[count], weights, used, mass)
           Loop(g) == g = [count \in 0 .. L |->
                             IF count = 0 THEN EmptyList
                             ELSE IF o[count] \in used THEN g[count - 1]
                             ELSE AddTail(g[count - 1], o[count], weights, mass)]
           turn == CHOOSE g : Loop(g)
<1>1. o \in Seq(P) /\ L \in Nat /\ \A count \in 1 .. L : o[count] \in P
  <2>1. o \in Seq(P) /\ Len(o) \in Nat
    BY OrderFacts
  <2> HIDE DEF o, P
  <2>2. QED
    BY <2>1, ElementOfSeq
<1>2. TailList(weights, used, mass) = turn[L]
  BY Zenon DEF TailList
<1> HIDE DEF o
<1>3. Loop(turn)
  <2> DEFINE F == [count \in 1 .. L |-> [x \in Lists(P) |-> Turn(x, count)]]
  <2>1. P \subseteq DOMAIN weights /\ EmptyList \in Lists(P)
    BY EmptyFacts DEF Positive
  <2>2. \A x \in Lists(P) : \A count \in 1 .. L : F[count][x] \in Lists(P) /\ F[count][x] = Turn(x, count)
    <3> HIDE DEF P, L
    <3>1. \A x \in Lists(P) : \A count \in 1 .. L : Turn(x, count) \in Lists(P)
      BY <1>1, <2>1, TailTurnType
    <3> HIDE DEF Turn
    <3>2. QED
      BY <3>1
  <2> HIDE DEF F, P, L
  <2>3. PICK g \in [0 .. L -> Lists(P)] : LoopStates(EmptyList, L, F, g)
    BY <1>1, <2>1, <2>2, LoopExists
  <2>4. \A count \in 0 .. L : g[count] = IF count = 0 THEN EmptyList
                                ELSE IF o[count] \in used THEN g[count - 1]
                                ELSE AddTail(g[count - 1], o[count], weights, mass)
    <3> SUFFICES ASSUME NEW count \in 0 .. L
                 PROVE  g[count] = IF count = 0 THEN EmptyList
                               ELSE IF o[count] \in used THEN g[count - 1]
                               ELSE AddTail(g[count - 1], o[count], weights, mass)
      OBVIOUS
    <3>1. g[count] = IF count = 0 THEN EmptyList ELSE F[count][g[count - 1]]
      BY <2>3, Zenon DEF LoopStates
    <3>2. CASE count = 0
      BY <3>1, <3>2
    <3>3. CASE count # 0
      <4>1. count \in 1 .. L /\ count - 1 \in 0 .. L
        BY <1>1, <3>3
      <4>2. g[count - 1] \in Lists(P)
        BY <2>3, <4>1
      <4>3. g[count] = Turn(g[count - 1], count)
        BY <2>2, <3>1, <3>3, <4>1, <4>2
      <4>4. QED
        BY <3>3, <4>3 DEF TailTurnOf
    <3>4. QED
      BY <3>2, <3>3
  <2>5. g = [count \in 0 .. L |-> g[count]]
    BY <2>3
  <2>6. Loop(g)
    BY <2>4, <2>5, Zenon
  <2> HIDE DEF Loop
  <2>7. QED
    BY <2>6
<1> HIDE DEF turn
<1>4. /\ turn[0] = EmptyList
      /\ \A count \in 1 .. L : turn[count] = Turn(turn[count - 1], count)
  <2>1. \A count \in 0 .. L : turn[count] = IF count = 0 THEN EmptyList
                                   ELSE IF o[count] \in used THEN turn[count - 1]
                                   ELSE AddTail(turn[count - 1], o[count], weights, mass)
    BY <1>3, Zenon
  <2> HIDE DEF L
  <2>2. QED
    BY <1>1, <2>1 DEF TailTurnOf
<1> DEFINE Wrong == {count \in 0 .. L : ~TailOK(turn[count], count, weights, used)}
<1>5. ASSUME Wrong # {} PROVE FALSE
  <2>1. PICK count \in Wrong : \A k \in Wrong : count <= k
    <3>1. Wrong \subseteq Nat
      BY <1>1
    <3> HIDE DEF Wrong
    <3>2. QED
      BY <1>5, <3>1, LeastNatural
  <2>2. count # 0
    <3>1. /\ EmptyList \in Lists(P) /\ Len(EmptyList.value) = 0
          /\ Len(EmptyList.cdf) = 0
      BY EmptyFacts
    <3>2. TailOK(EmptyList, 0, weights, used)
      BY <3>1 DEF TailOK
    <3>3. QED
      BY <1>4, <2>1, <3>2
  <2>3. count \in 1 .. L /\ count - 1 \in 0 .. L /\ count - 1 \notin Wrong
    BY <1>1, <2>1, <2>2
  <2>4. TailOK(turn[count - 1], count - 1, weights, used)
    BY <2>3
  <2>5. TailOK(turn[count], count, weights, used)
    <3>1. turn[count] = Turn(turn[count - 1], count)
      BY <1>4, <2>3
    <3>2. TailOK(Turn(turn[count - 1], count), count, weights, used)
      BY <2>3, <2>4, TailTurn DEF o
    <3>3. QED
      BY <3>1, <3>2
  <2>6. QED
    BY <2>1, <2>5
<1>6. TailOK(turn[L], L, weights, used)
  BY <1>1, <1>5
<1>7. QED
  BY <1>2, <1>6 DEF o

-----------------------------------------------------------------------------
\* A list that ends with the maximum has a value for every word.
LEMMA FindFacts ==
    ASSUME NEW S, NoValue \notin S, NEW value \in Seq(S), NEW cdf \in Seq(Int),
           Len(cdf) = Len(value), NEW u \in Words
    PROVE  /\ Find(u, value, cdf) \in S \cup {NoValue}
           /\ Len(value) > 0 /\ cdf[Len(value)] = WordMax =>
                 Find(u, value, cdf) # NoValue
<1> DEFINE l == Len(value)
           hits == {i \in DOMAIN cdf : u <= cdf[i]}
<1>1. l \in Nat /\ DOMAIN cdf = 1 .. l /\ \A k \in 1 .. l : value[k] \in S
  BY LenProperties, ElementOfSeq
<1>2. ASSUME hits # {}
      PROVE  value[Min(hits)] \in S
  <2>1. hits \subseteq 1 .. l /\ hits \subseteq Nat
    BY <1>1
  <2> HIDE DEF hits
  <2>2. \E x \in hits : \A y \in hits : x <= y
    BY <1>2, <2>1, LeastNatural
  <2>3. Min(hits) \in hits
    BY <2>2 DEF Min
  <2>4. QED
    BY <1>1, <2>1, <2>3
<1>3. Find(u, value, cdf) = IF hits = {} THEN NoValue ELSE value[Min(hits)]
  BY DEF Find
<1>4. ASSUME l > 0, cdf[l] = WordMax
      PROVE  hits # {}
  <2>1. l \in DOMAIN cdf /\ u <= cdf[l]
    BY <1>1, <1>4, LengthsAssumption DEF Words
  <2>2. QED
    BY <2>1
<1> HIDE DEF hits
<1>5. QED
  BY <1>2, <1>3, <1>4

\* Forcing writes the last threshold, and no other.
LEMMA ForcedFacts ==
    ASSUME NEW cdf \in Seq(Int), Len(cdf) > 0
    PROVE  /\ Forced(cdf) \in Seq(Int) /\ Len(Forced(cdf)) = Len(cdf)
           /\ Forced(cdf)[Len(cdf)] = WordMax
           /\ cdf[Len(cdf)] = WordMax => Forced(cdf) = cdf
<1> DEFINE l == Len(cdf)
<1>1. l \in Nat /\ DOMAIN cdf = 1 .. l /\ l \in 1 .. l /\ WordMax \in Int
  BY LenProperties, LengthsAssumption
<1>2. Forced(cdf) = [cdf EXCEPT ![l] = WordMax]
  BY DEF Forced
<1>3. Forced(cdf) \in Seq(Int) /\ Len(Forced(cdf)) = l
  BY <1>1, <1>2, ExceptSeq
<1>4. Forced(cdf)[l] = WordMax
  BY <1>1, <1>2
<1>5. ASSUME cdf[l] = WordMax PROVE Forced(cdf) = cdf
  <2>1. cdf = [k \in 1 .. l |-> cdf[k]]
    BY <1>1, SeqDef
  <2>2. QED
    BY <1>1, <1>2, <1>5, <2>1
<1>6. QED
  BY <1>3, <1>4, <1>5

\* Where there is mass there is a place of positive weight.
LEMMA MassSomewhere ==
    ASSUME NEW S, IsFiniteSet(S), NEW f, \A x \in S : f[x] \in Nat,
           SumFunctionOnSet(f, S) # 0
    PROVE  \E x \in S : f[x] > 0
<1> SUFFICES ASSUME \A x \in S : ~(f[x] > 0) PROVE FALSE
  OBVIOUS
<1>1. Units(f, S) = {}
  BY DEF Units
<1>2. SumFunctionOnSet(f, S) = 0
  BY <1>1, SumIsUnits, FS_EmptySet
<1>3. QED
  BY <1>2

\* A row has its values once, one for every pair of words, and the words of a
\* hot value are the share of its weight.
LEMMA RowFacts ==
    ASSUME NEW weights \in Seq(Nat), NEW slip \in Int, Row(weights, slip) # NoRow
    PROVE  LET row == Row(weights, slip)
           IN  /\ AlwaysSamples(row)
               /\ \A u, v \in Words : Sample1D(row, u, v) \in DOMAIN weights
               /\ OneEntryPerValue(row)
               /\ slip = 0 => HotSharesClose(row, weights)
<1> DEFINE P == Positive(weights)
           D == DOMAIN weights
           o == ByWeight(weights)
           total == MassOf(weights, D) + slip
           tiny == TinyList(weights, total)
           used == ToSet(tiny.value)
           rest == MassOf(weights, D \ used)
           tail == IF rest > 0 THEN TailList(weights, used, rest + slip) ELSE EmptyList
           tv == tiny.value
           tc == IF tail.cdf = <<>> THEN Forced(tiny.cdf) ELSE tiny.cdf
           lv == tail.value
           lc == IF tail.cdf = <<>> THEN <<>> ELSE Forced(tail.cdf)
           row == [tiny_value |-> tv, tiny_cdf |-> tc,
                   tail_value |-> lv, tail_cdf |-> lc]
<1>1. Row(weights, slip) =
         IF total <= 0 \/ tiny.value = <<>> THEN NoRow ELSE row
  BY Zenon DEF Row
<1>2. /\ \A k \in D : weights[k] \in Nat /\ k \in Nat /\ k # 0
      /\ IsFiniteSet(D) /\ P \in SUBSET D /\ NoValue \notin P
  <2>1. /\ D = 1 .. Len(weights) /\ Len(weights) \in Nat
        /\ \A k \in D : weights[k] \in Nat
    BY LenProperties, ElementOfSeq
  <2>2. IsFiniteSet(D)
    BY <2>1, FS_Interval
  <2> HIDE DEF D
  <2>3. \A k \in D : k \in Nat /\ k # 0
    BY <2>1
  <2>4. P \in SUBSET D
    BY DEF Positive, D
  <2>5. QED
    BY <2>1, <2>2, <2>3, <2>4 DEF NoValue
<1> HIDE DEF row, tiny
<1>3. /\ MassOf(weights, D) \in Nat /\ total \in Int
      /\ total > 0 /\ tiny.value # <<>> /\ Row(weights, slip) = row
  <2>1. MassOf(weights, D) \in Nat
    BY <1>2, SumType DEF MassOf
  <2>2. total \in Int
    BY <2>1
  <2> HIDE DEF total, D
  <2>3. ~(total <= 0 \/ tiny.value = <<>>)
    BY <1>1
  <2>4. QED
    BY <1>1, <2>1, <2>2, <2>3
<1>4. PICK count \in 0 .. Len(o) : TinyOK(tiny, count, weights, total)
  BY <1>3, TinyFacts DEF tiny
<1> HIDE DEF D, P, o, total
<1> DEFINE l == Len(tv)
<1>5. /\ tv \in Seq(P) /\ tiny.cdf \in Seq(Int) /\ Len(tiny.cdf) = l
      /\ l \in Nat /\ l > 0 /\ DOMAIN tv = 1 .. l
      /\ \A j, k \in 1 .. l : tv[j] = tv[k] => j = k
      /\ \A k \in 1 .. l : tv[k] \in used
      /\ tiny.mass = MassOf(weights, used)
      /\ tiny.cdf[l] = Threshold(tiny.mass, total)
      /\ total = MassOf(weights, D) =>
            \A k \in 1 .. l : CloseTo(tv, tiny.cdf, weights, total, k)
  <2>1. tiny \in Lists(P) /\ Len(tiny.cdf) = l
    BY <1>4 DEF TinyOK, P
  <2>2. /\ tv \in Seq(P) /\ tiny.cdf \in Seq(Int)
    BY <2>1 DEF Lists
  <2>3. /\ l \in Nat /\ DOMAIN tv = 1 .. l /\ l > 0
    BY <1>3, <2>2, LenProperties, EmptySeq
  <2>4. \A k \in 1 .. l : tv[k] \in used
    BY <2>3 DEF ToSet
  <2>5. /\ \A j, k \in 1 .. l : tv[j] = tv[k] => j = k
        /\ tiny.mass = MassOf(weights, used)
        /\ l > 0 => tiny.cdf[l] = Threshold(tiny.mass, total)
        /\ total = MassOf(weights, D) =>
              \A k \in 1 .. l : CloseTo(tv, tiny.cdf, weights, total, k)
    BY <1>4 DEF TinyOK, D
  <2>6. QED
    BY <2>1, <2>2, <2>3, <2>4, <2>5
<1>6. /\ used \in SUBSET D /\ IsFiniteSet(used) /\ IsFiniteSet(D \ used)
      /\ rest \in Nat
      /\ MassOf(weights, D) = MassOf(weights, used) + rest
  <2>1. used \in SUBSET D
    BY <1>2, <1>5, ElementOfSeq DEF ToSet
  <2> HIDE DEF used
  <2>2. IsFiniteSet(used) /\ IsFiniteSet(D \ used)
    BY <1>2, <2>1, FS_Subset
  <2>3. rest \in Nat
    BY <1>2, <2>2, SumType DEF MassOf
  <2>4. used \cap (D \ used) = {} /\ used \cup (D \ used) = D
    BY <2>1
  <2>5. SumFunctionOnSet(weights, used \cup (D \ used)) =
           SumFunctionOnSet(weights, used) + SumFunctionOnSet(weights, D \ used)
    BY <1>2, <2>2, <2>4, SumUnion
  <2>6. MassOf(weights, D) = MassOf(weights, used) + rest
    BY <2>4, <2>5, Zenon DEF MassOf
  <2>7. QED
    BY <2>1, <2>2, <2>3, <2>6
<1> HIDE DEF used
<1>7. /\ tail \in Lists(P) /\ Len(tail.cdf) = Len(lv)
      /\ \A k \in 1 .. Len(lv) : lv[k] \notin used
      /\ \A j, k \in 1 .. Len(lv) : lv[j] = lv[k] => j = k
      /\ rest > 0 => Len(lv) > 0
  <2>1. CASE rest > 0
    <3> DEFINE x == TailList(weights, used, rest + slip)
    <3>1. TailOK(x, Len(o), weights, used)
      BY <1>6, TailFacts DEF o
    <3>2. x = tail
      BY <2>1
    <3> HIDE DEF x
    <3>3. \E j \in 1 .. Len(o) : o[j] \notin used
      <4>1. PICK i \in D \ used : weights[i] > 0
        <5>1. \A y \in D \ used : weights[y] \in Nat
          BY <1>2
        <5>2. SumFunctionOnSet(weights, D \ used) # 0
          BY <1>6, <2>1 DEF MassOf
        <5>3. QED
          BY <1>6, <5>1, <5>2, MassSomewhere
      <4>2. i \in P
        BY <4>1 DEF P, D, Positive
      <4>3. \E k \in 1 .. Len(o) : o[k] = i
        BY <4>2, OrderFacts DEF P, o
      <4>4. QED
        BY <4>1, <4>3
    <3>4. /\ x \in Lists(P) /\ Len(x.cdf) = Len(x.value)
          /\ \A k \in 1 .. Len(x.value) : x.value[k] \notin used
          /\ \A j, k \in 1 .. Len(x.value) : x.value[j] = x.value[k] => j = k
          /\ (\E j \in 1 .. Len(o) : o[j] \notin used) => Len(x.value) > 0
      BY <3>1 DEF TailOK, P, o
    <3> HIDE DEF tail
    <3>5. QED
      BY <3>2, <3>3, <3>4
  <2>2. CASE ~(rest > 0)
    <3>1. tail = EmptyList
      BY <2>2
    <3>2. /\ EmptyList \in Lists(P)
          /\ Len(EmptyList.value) = 0 /\ Len(EmptyList.cdf) = 0
      BY EmptyFacts
    <3> HIDE DEF tail, rest
    <3>3. QED
      BY <2>2, <3>1, <3>2
  <2>3. QED
    BY <2>1, <2>2
<1> HIDE DEF tail, rest
<1>8. /\ lv \in Seq(P) /\ tail.cdf \in Seq(Int) /\ Len(lv) \in Nat
      /\ tail.cdf = <<>> <=> Len(lv) = 0
  <2>1. lv \in Seq(P) /\ tail.cdf \in Seq(Int)
    BY <1>7 DEF Lists
  <2>2. QED
    BY <1>7, <2>1, LenProperties, EmptySeq
<1>9. /\ tc \in Seq(Int) /\ Len(tc) = l
      /\ Len(lv) = 0 => tc[l] = WordMax
  BY <1>5, <1>8, ForcedFacts
<1>10. /\ lc \in Seq(Int) /\ Len(lc) = Len(lv)
       /\ Len(lv) > 0 => lc[Len(lv)] = WordMax
  <2>1. CASE Len(lv) = 0
    BY <1>8, <2>1, EmptySeq
  <2>2. CASE Len(lv) # 0
    <3>1. Len(tail.cdf) > 0 /\ lc = Forced(tail.cdf)
      BY <1>7, <1>8, <2>2
    <3>2. QED
      BY <1>7, <1>8, <3>1, ForcedFacts
  <2>3. QED
    BY <2>1, <2>2
<1>11. /\ row.tiny_value = tv /\ row.tiny_cdf = tc
       /\ row.tail_value = lv /\ row.tail_cdf = lc
  BY DEF row
<1>12. ASSUME slip = 0
       PROVE  HotSharesClose(row, weights)
  <2>1. total = MassOf(weights, D)
    BY <1>3, <1>12 DEF total
  <2>2. tc = tiny.cdf
    <3>1. CASE tail.cdf = <<>>
      <4>1. rest = 0
        BY <1>6, <1>7, <1>8, <3>1
      <4>2. MassOf(weights, used) \in Nat
        BY <1>2, <1>6, SumType DEF MassOf
      <4>3. tiny.mass = total
        BY <1>5, <1>6, <2>1, <4>1, <4>2
      <4>4. tiny.cdf[l] = WordMax
        BY <1>3, <1>5, <4>3 DEF Threshold
      <4>5. QED
        BY <1>5, <3>1, <4>4, ForcedFacts
    <3>2. CASE tail.cdf # <<>>
      BY <3>2
    <3>3. QED
      BY <3>1, <3>2
  <2> HIDE DEF tc, tv, l
  <2>3. \A k \in 1 .. l : CloseTo(tv, tc, weights, total, k)
    BY <1>5, <2>1, <2>2
  <2>4. DOMAIN row.tiny_cdf = 1 .. l
    BY <1>9, <1>11, LenProperties
  <2>5. \A k \in 1 .. l : /\ Hits(row, k) = tc[k] - (IF k = 1 THEN -1 ELSE tc[k - 1])
                         /\ weights[row.tiny_value[k]] = weights[tv[k]]
    BY <1>11, Zenon DEF Hits
  <2>6. QED
    BY <2>1, <2>3, <2>4, <2>5 DEF HotSharesClose, CloseTo, D
<1> HIDE DEF tc, lc, tv, lv
<1>13. AlwaysSamples(row) /\ \A u, v \in Words : Sample1D(row, u, v) \in D
  <2> SUFFICES ASSUME NEW u \in Words, NEW v \in Words
               PROVE  Sample1D(row, u, v) # NoValue /\ Sample1D(row, u, v) \in D
    BY DEF AlwaysSamples
  <2> DEFINE hot == Find(u, tv, tc)
             cold == Find(v, lv, lc)
  <2>1. Sample1D(row, u, v) = IF hot # NoValue THEN hot ELSE cold
    BY <1>11 DEF Sample1D
  <2>2. Len(lv) = 0 => hot # NoValue
    BY <1>2, <1>5, <1>9, FindFacts DEF tv
  <2>3. Len(lv) > 0 => cold # NoValue
    BY <1>2, <1>8, <1>10, FindFacts DEF lv
  <2>4. hot \in P \cup {NoValue} /\ cold \in P \cup {NoValue}
    BY <1>2, <1>5, <1>8, <1>9, <1>10, FindFacts DEF tv, lv
  <2>5. P \subseteq D
    BY <1>2
  <2> HIDE DEF hot, cold, P, D
  <2>6. QED
    BY <1>8, <2>1, <2>2, <2>3, <2>4, <2>5 DEF lv
<1>14. OneEntryPerValue(row)
  <2> DEFINE both == tv \o lv
             k0 == Len(lv)
  <2>1. /\ tv \in Seq(P) /\ lv \in Seq(P) /\ l \in Nat /\ k0 \in Nat
    BY <1>5, <1>8 DEF tv, lv
  <2> HIDE DEF l, k0
  <2>2. /\ both \in Seq(P) /\ Len(both) = l + k0
        /\ \A k \in 1 .. l + k0 : both[k] = IF k <= l THEN tv[k] ELSE lv[k - l]
    BY <2>1, ConcatProperties DEF l, k0
  <2>3. DOMAIN both = 1 .. l + k0
    BY <2>2, LenProperties
  <2> HIDE DEF both
  <2>4. ASSUME NEW i \in 1 .. l + k0, NEW j \in 1 .. l + k0, both[i] = both[j]
        PROVE  i = j
    <3>1. \A k \in 1 .. l + k0 : \/ k \in 1 .. l /\ both[k] = tv[k] /\ tv[k] \in used
                                \/ /\ k - l \in 1 .. k0 /\ both[k] = lv[k - l]
                                   /\ lv[k - l] \notin used
      <4> TAKE k \in 1 .. l + k0
      <4>1. CASE k <= l
        <5>1. k \in 1 .. l /\ both[k] = tv[k]
          BY <2>1, <2>2, <4>1
        <5>2. QED
          BY <1>5, <5>1 DEF l, tv
      <4>2. CASE ~(k <= l)
        <5>1. k - l \in 1 .. k0 /\ both[k] = lv[k - l]
          BY <2>1, <2>2, <4>2
        <5>2. QED
          BY <1>7, <5>1 DEF k0, lv
      <4>3. QED
        BY <4>1, <4>2
    <3>2. CASE i \in 1 .. l /\ j \in 1 .. l /\ both[i] = tv[i] /\ both[j] = tv[j]
      BY <1>5, <2>4, <3>2 DEF l, tv
    <3>3. CASE /\ i - l \in 1 .. k0 /\ j - l \in 1 .. k0
               /\ both[i] = lv[i - l] /\ both[j] = lv[j - l]
      <4>1. i - l = j - l
        BY <1>7, <2>4, <3>3 DEF k0, lv
      <4>2. QED
        BY <2>1, <4>1
    <3>4. QED
      BY <2>4, <3>1, <3>2, <3>3
  <2>5. QED
    BY <1>11, <2>3, <2>4 DEF OneEntryPerValue, both
<1>15. QED
  BY <1>3, <1>12, <1>13, <1>14 DEF D

\* A row is made where there is mass.
LEMMA RowMade ==
    ASSUME NEW weights \in Seq(Nat), MassOf(weights, DOMAIN weights) # 0
    PROVE  Row(weights, 0) # NoRow
<1> DEFINE D == DOMAIN weights
           o == ByWeight(weights)
           total == MassOf(weights, D) + 0
           tiny == TinyList(weights, total)
<1>1. IsFiniteSet(D) /\ \A k \in D : weights[k] \in Nat
  <2>1. D = 1 .. Len(weights) /\ Len(weights) \in Nat /\ \A k \in D : weights[k] \in Nat
    BY LenProperties, ElementOfSeq
  <2>2. QED
    BY <2>1, FS_Interval
<1>2. total \in Int /\ total > 0
  <2>1. MassOf(weights, D) \in Nat
    BY <1>1, SumType DEF MassOf
  <2>2. QED
    BY <2>1
<1>3. Len(o) > 0
  <2>1. PICK i \in D : weights[i] > 0
    BY <1>1, MassSomewhere DEF MassOf
  <2>2. i \in Positive(weights)
    BY <2>1 DEF Positive
  <2>3. PICK k \in 1 .. Len(o) : o[k] = i
    BY <2>2, OrderFacts
  <2>4. Len(o) \in Nat /\ k \in 1 .. Len(o)
    BY <2>3, OrderFacts
  <2> HIDE DEF o
  <2>5. QED
    BY <2>4
<1> HIDE DEF total
<1>4. tiny.value # <<>>
  <2>1. PICK count \in 0 .. Len(o) : TinyOK(tiny, count, weights, total) /\ count > 0
    BY <1>2, <1>3, TinyFacts
  <2>2. Len(tiny.value) > 0
    BY <2>1 DEF TinyOK
  <2> HIDE DEF tiny
  <2>3. QED
    BY <2>2
<1> DEFINE used == ToSet(tiny.value)
           rest == MassOf(weights, D \ used)
           tail == IF rest > 0 THEN TailList(weights, used, rest + 0) ELSE EmptyList
           row == [tiny_value |-> tiny.value,
                   tiny_cdf |-> IF tail.cdf = <<>> THEN Forced(tiny.cdf) ELSE tiny.cdf,
                   tail_value |-> tail.value,
                   tail_cdf |-> IF tail.cdf = <<>> THEN <<>> ELSE Forced(tail.cdf)]
<1>5. Row(weights, 0) = IF total <= 0 \/ tiny.value = <<>> THEN NoRow ELSE row
  BY Zenon DEF Row, total
<1>6. row # NoRow
  <2>1. DOMAIN row # {}
    OBVIOUS
  <2>2. DOMAIN NoRow = {}
    BY DEF NoRow
  <2> HIDE DEF row
  <2>3. QED
    BY <2>1, <2>2
<1> HIDE DEF tiny, row
<1>7. QED
  BY <1>2, <1>4, <1>5, <1>6

-----------------------------------------------------------------------------
\* The weights stay those that exp() gives on the platform.
LEMMA PlatformStays == Spec => [](platform \in Platforms)
<1>1. Init => platform \in Platforms
  BY DEF Init
<1>2. platform \in Platforms /\ [Next]_vars => (platform \in Platforms)'
  BY DEF Next, vars, Refuse, Call, Step, Lock, Search, Allocate, AllocateFails,
         StartBuild, BuildRow, BuildFails, FreeEntry, Push, Unlock
<1>3. QED
  BY <1>1, <1>2, PTL DEF Spec

\* Every draw from a table that a thread was given finds a value, whatever the
\* weights and the rounding of their sums, and however the calls interleave; a
\* value has one entry, and where the sums are exact the share of its weight.
THEOREM GivenTablesSample == Spec => []GivenTableSamples
<1>1. CacheInv /\ platform \in Platforms => GivenTableSamples
  <2> SUFFICES ASSUME CacheInv, platform \in Platforms,
                      NEW t \in Threads, given[t] # NULL
               PROVE  LET e == cell[given[t]]
                      IN  /\ Len(e.rows) = Classes
                          /\ \A j \in 1 .. Classes :
                                /\ AlwaysSamples(e.rows[j])
                                /\ OneEntryPerValue(e.rows[j])
                                /\ platform[e.bits][j].slip = 0 =>
                                      HotSharesClose(e.rows[j], platform[e.bits][j].weights)
    BY DEF GivenTableSamples
  <2> DEFINE e == cell[given[t]]
  <2>1. given[t] \in ToSet(list)
    BY DEF CacheInv, ThreadInv, ThreadOK
  <2>2. given[t] \in Cells
    BY <2>1, ListFacts
  <2>3. /\ e.bits \in Sigmas /\ Len(e.rows) = Classes
        /\ \A j \in 1 .. Classes : e.rows[j] = RowOf(e.bits, j) /\ e.rows[j] # NoRow
    BY <2>1, <2>2, ListedComplete
  <2> HIDE DEF e
  <2>4. ASSUME NEW j \in 1 .. Classes
        PROVE  /\ AlwaysSamples(e.rows[j])
               /\ OneEntryPerValue(e.rows[j])
               /\ platform[e.bits][j].slip = 0 =>
                     HotSharesClose(e.rows[j], platform[e.bits][j].weights)
    <3> DEFINE w == platform[e.bits][j].weights
               d == platform[e.bits][j].slip
    <3>1. w \in Seq(Nat) /\ d \in Int
      BY <2>3, PlatformsAssumption
    <3>2. e.rows[j] = Row(w, d) /\ Row(w, d) # NoRow
      BY <2>3 DEF RowOf
    <3> HIDE DEF w, d
    <3>3. /\ AlwaysSamples(Row(w, d))
          /\ OneEntryPerValue(Row(w, d))
          /\ d = 0 => HotSharesClose(Row(w, d), w)
      BY <3>1, <3>2, RowFacts
    <3>4. QED
      BY <3>2, <3>3 DEF w, d
  <2>5. QED
    BY <2>3, <2>4 DEF e
<1>2. QED
  BY <1>1, CacheInvariance, PlatformStays, PTL

-----------------------------------------------------------------------------
(***************************************************************************)
(* E8BlockSampler: the geometry of a block.                                *)
(***************************************************************************)
Vectors == [Axes -> Int]

LEMMA DotType ==
    ASSUME NEW x \in Vectors, NEW y \in Vectors
    PROVE  Dot(x, y) \in Int
BY DEF Vectors, Axes, Dot

\* A base and multiples of steps.
LEMMA AlongType ==
    ASSUME NEW base \in Vectors, NEW cs \in Vectors, NEW steps,
           \A v \in Axes : \A b \in Axes : steps[v][b] \in Int
    PROVE  /\ Along(base, cs, steps) \in Vectors
           /\ \A b \in Axes : Along(base, cs, steps)[b] =
                 base[b] + (cs[1] * steps[1][b] + cs[2] * steps[2][b] + cs[3] * steps[3][b]
                            + cs[4] * steps[4][b] + cs[5] * steps[5][b] + cs[6] * steps[6][b]
                            + cs[7] * steps[7][b] + cs[8] * steps[8][b])
<1>1. ASSUME NEW b \in Axes
      PROVE  /\ base[b] + Dot(cs, [v \in Axes |-> steps[v][b]]) \in Int
             /\ Dot(cs, [v \in Axes |-> steps[v][b]]) =
                  cs[1] * steps[1][b] + cs[2] * steps[2][b] + cs[3] * steps[3][b]
                  + cs[4] * steps[4][b] + cs[5] * steps[5][b] + cs[6] * steps[6][b]
                  + cs[7] * steps[7][b] + cs[8] * steps[8][b]
  <2>1. [v \in Axes |-> steps[v][b]] \in Vectors
    BY DEF Vectors
  <2>2. Dot(cs, [v \in Axes |-> steps[v][b]]) \in Int /\ base[b] \in Int
    BY <2>1, DotType DEF Vectors
  <2>3. QED
    BY <2>2 DEF Dot, Axes
<1>2. QED
  BY <1>1 DEF Along, Vectors

\* The coordinates of P z.
Image(z, x) ==
    /\ x[1] = 2 * z[1] - 2 * z[4] + z[5] - z[6] - z[7] + z[8]
    /\ x[2] = 2 * z[1] + 2 * z[2] - z[5] + z[6] - z[7] - z[8]
    /\ x[3] = 2 * z[2] + 2 * z[3] + z[5] - z[6] + z[7] - z[8]
    /\ x[4] = 2 * z[3] + 2 * z[4] + z[5] + z[6] - z[7] + z[8]
    /\ x[5] = z[5] - z[6] - z[7] - z[8] /\ x[6] = z[5] + z[6] - z[7] - z[8]
    /\ x[7] = z[5] + z[6] + z[7] - z[8] /\ x[8] = z[5] + z[6] + z[7] + z[8]

LEMMA ImageForm ==
    ASSUME NEW z \in Vectors
    PROVE  BlockApplyP(z) \in Vectors /\ Image(z, BlockApplyP(z))
<1>1. \A b \in Axes : z[b] \in Int
  BY DEF Vectors
<1>2. /\ BlockApplyP(z)[1] = 2 * z[1] - 2 * z[4] + z[5] - z[6] - z[7] + z[8]
      /\ BlockApplyP(z)[2] = 2 * z[1] + 2 * z[2] - z[5] + z[6] - z[7] - z[8]
  <2>1. BlockApplyP(z)[1] = 2 * z[1] - 2 * z[4] + z[5] - z[6] - z[7] + z[8]
    BY <1>1 DEF BlockApplyP, Axes
  <2>2. BlockApplyP(z)[2] = 2 * z[1] + 2 * z[2] - z[5] + z[6] - z[7] - z[8]
    BY <1>1 DEF BlockApplyP, Axes
  <2>3. QED
    BY <2>1, <2>2
<1>3. /\ BlockApplyP(z)[3] = 2 * z[2] + 2 * z[3] + z[5] - z[6] + z[7] - z[8]
      /\ BlockApplyP(z)[4] = 2 * z[3] + 2 * z[4] + z[5] + z[6] - z[7] + z[8]
  BY <1>1 DEF BlockApplyP, Axes
<1>4. /\ BlockApplyP(z)[5] = z[5] - z[6] - z[7] - z[8]
      /\ BlockApplyP(z)[6] = z[5] + z[6] - z[7] - z[8]
  BY <1>1 DEF BlockApplyP, Axes
<1>5. /\ BlockApplyP(z)[7] = z[5] + z[6] + z[7] - z[8]
      /\ BlockApplyP(z)[8] = z[5] + z[6] + z[7] + z[8]
  BY <1>1 DEF BlockApplyP, Axes
<1>6. BlockApplyP(z) \in Vectors
  <2>1. DOMAIN BlockApplyP(z) = Axes /\ BlockApplyP(z) = [b \in Axes |-> BlockApplyP(z)[b]]
    BY DEF BlockApplyP, Axes
  <2>2. \A b \in Axes : BlockApplyP(z)[b] \in Int
    BY <1>1, <1>2, <1>3, <1>4, <1>5 DEF Axes
  <2>3. QED
    BY <2>1, <2>2 DEF Vectors
<1>7. QED
  BY <1>2, <1>3, <1>4, <1>5, <1>6 DEF Image

\* A vector in the basis of x: on a pair of axes two of its vectors stand.
Stepped(offset, cs, x) ==
    /\ x[1] = offset[1] - 4 * cs[1] - 4 * cs[2]
    /\ x[2] = offset[2] - 4 * cs[3] - 4 * cs[4]
    /\ x[3] = offset[3] - 4 * cs[5] - 4 * cs[6]
    /\ x[4] = offset[4] - 4 * cs[7] - 4 * cs[8]
    /\ x[5] = offset[5] - 4 * cs[3] + 4 * cs[4]
    /\ x[6] = offset[6] - 4 * cs[5] + 4 * cs[6]
    /\ x[7] = offset[7] - 4 * cs[7] + 4 * cs[8]
    /\ x[8] = offset[8] - 4 * cs[1] + 4 * cs[2]

LEMMA BasisForm ==
    ASSUME NEW v \in Axes, NEW b \in Axes
    PROVE  ProductBasis[v][b] =
              IF b = (v + 1) \div 2 THEN -4
              ELSE IF b # (IF (v + 1) \div 2 = 1 THEN 8 ELSE (v + 1) \div 2 + 3) THEN 0
              ELSE IF v % 2 = 1 THEN -4 ELSE 4
BY DEF ProductBasis, Axes

LEMMA ReconstructXForm ==
    ASSUME NEW offset \in Vectors, NEW cs \in Vectors
    PROVE  /\ ReconstructX(offset, cs) \in Vectors
           /\ Stepped(offset, cs, ReconstructX(offset, cs))
<1> DEFINE x == ReconstructX(offset, cs)
<1>1. \A v \in Axes : \A b \in Axes : ProductBasis[v][b] \in Int
  BY BasisForm DEF Axes
<1>2. /\ x \in Vectors
      /\ \A b \in Axes : x[b] =
            offset[b] + (cs[1] * ProductBasis[1][b] + cs[2] * ProductBasis[2][b] + cs[3] * ProductBasis[3][b]
                    + cs[4] * ProductBasis[4][b] + cs[5] * ProductBasis[5][b] + cs[6] * ProductBasis[6][b]
                    + cs[7] * ProductBasis[7][b] + cs[8] * ProductBasis[8][b])
  BY <1>1, AlongType DEF ReconstructX
<1> HIDE DEF x
<1>3. x[1] = offset[1] - 4 * cs[1] - 4 * cs[2]
  BY <1>2, BasisForm DEF Vectors, Axes
<1>4. x[2] = offset[2] - 4 * cs[3] - 4 * cs[4]
  BY <1>2, BasisForm DEF Vectors, Axes
<1>5. x[3] = offset[3] - 4 * cs[5] - 4 * cs[6]
  BY <1>2, BasisForm DEF Vectors, Axes
<1>6. x[4] = offset[4] - 4 * cs[7] - 4 * cs[8]
  BY <1>2, BasisForm DEF Vectors, Axes
<1>7. x[5] = offset[5] - 4 * cs[3] + 4 * cs[4]
  BY <1>2, BasisForm DEF Vectors, Axes
<1>8. x[6] = offset[6] - 4 * cs[5] + 4 * cs[6]
  BY <1>2, BasisForm DEF Vectors, Axes
<1>9. x[7] = offset[7] - 4 * cs[7] + 4 * cs[8]
  BY <1>2, BasisForm DEF Vectors, Axes
<1>10. x[8] = offset[8] - 4 * cs[1] + 4 * cs[2]
  BY <1>2, BasisForm DEF Vectors, Axes
<1>11. QED
  BY <1>2, <1>3, <1>4, <1>5, <1>6, <1>7, <1>8, <1>9, <1>10 DEF Stepped, x

\* The same of the vector itself.
Moved(base, cs, z) ==
    /\ z[1] = base[1] - 2 * cs[2] - 2 * cs[3] + 4 * cs[5] - 2 * cs[6] - 4 * cs[7] + 2 * cs[8]
    /\ z[2] = base[2] - 2 * cs[1] + 4 * cs[2] - 2 * cs[3] - 2 * cs[5] + 4 * cs[7] - 2 * cs[8]
    /\ z[3] = base[3] + 2 * cs[1] - 4 * cs[2] + 4 * cs[3] - 2 * cs[4] - 2 * cs[5] - 2 * cs[7]
    /\ z[4] = base[4] + 2 * cs[2] - 4 * cs[3] + 2 * cs[4] + 4 * cs[5] - 2 * cs[6] - 2 * cs[7]
    /\ z[5] = base[5] - 2 * cs[1] + 2 * cs[2] - 2 * cs[3] + 2 * cs[4]
    /\ z[6] = base[6] + 2 * cs[3] - 2 * cs[4] - 2 * cs[5] + 2 * cs[6]
    /\ z[7] = base[7] + 2 * cs[5] - 2 * cs[6] - 2 * cs[7] + 2 * cs[8]
    /\ z[8] = base[8] - 2 * cs[1] + 2 * cs[2] + 2 * cs[7] - 2 * cs[8]

LEMMA ReconstructZForm ==
    ASSUME NEW base \in Vectors, NEW cs \in Vectors
    PROVE  /\ ReconstructZ(base, cs) \in Vectors
           /\ Moved(base, cs, ReconstructZ(base, cs))
<1> DEFINE z == ReconstructZ(base, cs)
<1>1. \A v \in Axes : \A b \in Axes : DeltaZ[v][b] \in Int
  BY DEF Axes, DeltaZ
<1>2. /\ z \in Vectors
      /\ \A b \in Axes : z[b] =
            base[b] + (cs[1] * DeltaZ[1][b] + cs[2] * DeltaZ[2][b] + cs[3] * DeltaZ[3][b]
                    + cs[4] * DeltaZ[4][b] + cs[5] * DeltaZ[5][b] + cs[6] * DeltaZ[6][b]
                    + cs[7] * DeltaZ[7][b] + cs[8] * DeltaZ[8][b])
  BY <1>1, AlongType DEF ReconstructZ
<1> HIDE DEF z
<1>3. z[1] = base[1] - 2 * cs[2] - 2 * cs[3] + 4 * cs[5] - 2 * cs[6] - 4 * cs[7] + 2 * cs[8]
  BY <1>2 DEF Vectors, Axes, DeltaZ
<1>4. z[2] = base[2] - 2 * cs[1] + 4 * cs[2] - 2 * cs[3] - 2 * cs[5] + 4 * cs[7] - 2 * cs[8]
  BY <1>2 DEF Vectors, Axes, DeltaZ
<1>5. z[3] = base[3] + 2 * cs[1] - 4 * cs[2] + 4 * cs[3] - 2 * cs[4] - 2 * cs[5] - 2 * cs[7]
  BY <1>2 DEF Vectors, Axes, DeltaZ
<1>6. z[4] = base[4] + 2 * cs[2] - 4 * cs[3] + 2 * cs[4] + 4 * cs[5] - 2 * cs[6] - 2 * cs[7]
  BY <1>2 DEF Vectors, Axes, DeltaZ
<1>7. z[5] = base[5] - 2 * cs[1] + 2 * cs[2] - 2 * cs[3] + 2 * cs[4]
  BY <1>2 DEF Vectors, Axes, DeltaZ
<1>8. z[6] = base[6] + 2 * cs[3] - 2 * cs[4] - 2 * cs[5] + 2 * cs[6]
  BY <1>2 DEF Vectors, Axes, DeltaZ
<1>9. z[7] = base[7] + 2 * cs[5] - 2 * cs[6] - 2 * cs[7] + 2 * cs[8]
  BY <1>2 DEF Vectors, Axes, DeltaZ
<1>10. z[8] = base[8] - 2 * cs[1] + 2 * cs[2] + 2 * cs[7] - 2 * cs[8]
  BY <1>2 DEF Vectors, Axes, DeltaZ
<1>11. QED
  BY <1>2, <1>3, <1>4, <1>5, <1>6, <1>7, <1>8, <1>9, <1>10 DEF Moved, z

\* P of what the coordinates make of a block is what they make of P of it.
LEMMA SameChange ==
    ASSUME NEW base \in Vectors, NEW cs \in Vectors
    PROVE  BlockApplyP(ReconstructZ(base, cs)) = ReconstructX(BlockApplyP(base), cs)
<1> DEFINE z == ReconstructZ(base, cs)
           o == BlockApplyP(base)
           x == BlockApplyP(z)
           y == ReconstructX(o, cs)
<1>1. z \in Vectors /\ Moved(base, cs, z)
  BY ReconstructZForm
<1>2. o \in Vectors /\ Image(base, o)
  BY ImageForm
<1>3. x \in Vectors /\ Image(z, x)
  BY <1>1, ImageForm
<1>4. y \in Vectors /\ Stepped(o, cs, y)
  BY <1>2, ReconstructXForm
<1> HIDE DEF z, o, x, y
<1>6. \A b \in Axes : x[b] = y[b]
  <2>1. x[1] = y[1]
    BY <1>1, <1>2, <1>3, <1>4 DEF Moved, Image, Stepped, Vectors, Axes
  <2>2. x[2] = y[2]
    BY <1>1, <1>2, <1>3, <1>4 DEF Moved, Image, Stepped, Vectors, Axes
  <2>3. x[3] = y[3]
    BY <1>1, <1>2, <1>3, <1>4 DEF Moved, Image, Stepped, Vectors, Axes
  <2>4. x[4] = y[4]
    BY <1>1, <1>2, <1>3, <1>4 DEF Moved, Image, Stepped, Vectors, Axes
  <2>5. x[5] = y[5]
    BY <1>1, <1>2, <1>3, <1>4 DEF Moved, Image, Stepped, Vectors, Axes
  <2>6. x[6] = y[6]
    BY <1>1, <1>2, <1>3, <1>4 DEF Moved, Image, Stepped, Vectors, Axes
  <2>7. x[7] = y[7]
    BY <1>1, <1>2, <1>3, <1>4 DEF Moved, Image, Stepped, Vectors, Axes
  <2>8. x[8] = y[8]
    BY <1>1, <1>2, <1>3, <1>4 DEF Moved, Image, Stepped, Vectors, Axes
  <2>9. QED
    BY <2>1, <2>2, <2>3, <2>4, <2>5, <2>6, <2>7, <2>8 DEF Axes
<1>7. QED
  BY <1>3, <1>4, <1>6 DEF Vectors, x, y, z, o

\* Four times the vector is got back from P of it.
LEMMA SolvedImage ==
    ASSUME NEW z \in Vectors
    PROVE  Solved(BlockApplyP(z)) = [b \in Axes |-> 4 * z[b]]
<1> DEFINE x == BlockApplyP(z)
<1>1. x \in Vectors /\ Image(z, x)
  BY ImageForm
<1> HIDE DEF x
<1>3. \A b \in Axes : Dot(PInvNum[b], x) = 4 * z[b]
  <2>1. Dot(PInvNum[1], x) = 4 * z[1]
    BY <1>1 DEF Image, Vectors, Axes, PInvNum, Dot
  <2>2. Dot(PInvNum[2], x) = 4 * z[2]
    BY <1>1 DEF Image, Vectors, Axes, PInvNum, Dot
  <2>3. Dot(PInvNum[3], x) = 4 * z[3]
    BY <1>1 DEF Image, Vectors, Axes, PInvNum, Dot
  <2>4. Dot(PInvNum[4], x) = 4 * z[4]
    BY <1>1 DEF Image, Vectors, Axes, PInvNum, Dot
  <2>5. Dot(PInvNum[5], x) = 4 * z[5]
    BY <1>1 DEF Image, Vectors, Axes, PInvNum, Dot
  <2>6. Dot(PInvNum[6], x) = 4 * z[6]
    BY <1>1 DEF Image, Vectors, Axes, PInvNum, Dot
  <2>7. Dot(PInvNum[7], x) = 4 * z[7]
    BY <1>1 DEF Image, Vectors, Axes, PInvNum, Dot
  <2>8. Dot(PInvNum[8], x) = 4 * z[8]
    BY <1>1 DEF Image, Vectors, Axes, PInvNum, Dot
  <2>9. QED
    BY <2>1, <2>2, <2>3, <2>4, <2>5, <2>6, <2>7, <2>8 DEF Axes
<1>4. QED
  BY <1>3 DEF Solved, Axes, x

\* The product with a vector of the basis, which has two coordinates.
LEMMA DotBasis ==
    ASSUME NEW x \in Vectors
    PROVE  /\ Dot(x, ProductBasis[1]) = -4 * x[1] - 4 * x[8]
           /\ Dot(x, ProductBasis[2]) = 4 * x[8] - 4 * x[1]
           /\ Dot(x, ProductBasis[3]) = -4 * x[2] - 4 * x[5]
           /\ Dot(x, ProductBasis[4]) = 4 * x[5] - 4 * x[2]
           /\ Dot(x, ProductBasis[5]) = -4 * x[3] - 4 * x[6]
           /\ Dot(x, ProductBasis[6]) = 4 * x[6] - 4 * x[3]
           /\ Dot(x, ProductBasis[7]) = -4 * x[4] - 4 * x[7]
           /\ Dot(x, ProductBasis[8]) = 4 * x[7] - 4 * x[4]
<1>1. Dot(x, ProductBasis[1]) = -4 * x[1] - 4 * x[8]
  BY BasisForm DEF Dot, Vectors, Axes
<1>2. Dot(x, ProductBasis[2]) = 4 * x[8] - 4 * x[1]
  BY BasisForm DEF Dot, Vectors, Axes
<1>3. Dot(x, ProductBasis[3]) = -4 * x[2] - 4 * x[5]
  BY BasisForm DEF Dot, Vectors, Axes
<1>4. Dot(x, ProductBasis[4]) = 4 * x[5] - 4 * x[2]
  BY BasisForm DEF Dot, Vectors, Axes
<1>5. Dot(x, ProductBasis[5]) = -4 * x[3] - 4 * x[6]
  BY BasisForm DEF Dot, Vectors, Axes
<1>6. Dot(x, ProductBasis[6]) = 4 * x[6] - 4 * x[3]
  BY BasisForm DEF Dot, Vectors, Axes
<1>7. Dot(x, ProductBasis[7]) = -4 * x[4] - 4 * x[7]
  BY BasisForm DEF Dot, Vectors, Axes
<1>8. Dot(x, ProductBasis[8]) = 4 * x[7] - 4 * x[4]
  BY BasisForm DEF Dot, Vectors, Axes
<1>9. QED
  BY <1>1, <1>2, <1>3, <1>4, <1>5, <1>6, <1>7, <1>8

\* Of a vector in the basis, each coordinate is got back.
LEMMA Coordinates ==
    ASSUME NEW offset \in Vectors, NEW cs \in Vectors, NEW v \in Axes
    PROVE  Dot(ReconstructX(offset, cs), ProductBasis[v]) - Dot(offset, ProductBasis[v])
              = 32 * cs[v]
<1> DEFINE x == ReconstructX(offset, cs)
<1>1. x \in Vectors /\ Stepped(offset, cs, x)
  BY ReconstructXForm
<1> HIDE DEF x
<1>2. Dot(x, ProductBasis[1]) - Dot(offset, ProductBasis[1]) = 32 * cs[1]
  <2>1. /\ Dot(x, ProductBasis[1]) = -4 * x[1] - 4 * x[8]
        /\ Dot(offset, ProductBasis[1]) = -4 * offset[1] - 4 * offset[8]
    BY <1>1, DotBasis
  <2>2. QED
    BY <1>1, <2>1 DEF Stepped, Vectors, Axes
<1>3. Dot(x, ProductBasis[2]) - Dot(offset, ProductBasis[2]) = 32 * cs[2]
  <2>1. /\ Dot(x, ProductBasis[2]) = 4 * x[8] - 4 * x[1]
        /\ Dot(offset, ProductBasis[2]) = 4 * offset[8] - 4 * offset[1]
    BY <1>1, DotBasis
  <2>2. QED
    BY <1>1, <2>1 DEF Stepped, Vectors, Axes
<1>4. Dot(x, ProductBasis[3]) - Dot(offset, ProductBasis[3]) = 32 * cs[3]
  <2>1. /\ Dot(x, ProductBasis[3]) = -4 * x[2] - 4 * x[5]
        /\ Dot(offset, ProductBasis[3]) = -4 * offset[2] - 4 * offset[5]
    BY <1>1, DotBasis
  <2>2. QED
    BY <1>1, <2>1 DEF Stepped, Vectors, Axes
<1>5. Dot(x, ProductBasis[4]) - Dot(offset, ProductBasis[4]) = 32 * cs[4]
  <2>1. /\ Dot(x, ProductBasis[4]) = 4 * x[5] - 4 * x[2]
        /\ Dot(offset, ProductBasis[4]) = 4 * offset[5] - 4 * offset[2]
    BY <1>1, DotBasis
  <2>2. QED
    BY <1>1, <2>1 DEF Stepped, Vectors, Axes
<1>6. Dot(x, ProductBasis[5]) - Dot(offset, ProductBasis[5]) = 32 * cs[5]
  <2>1. /\ Dot(x, ProductBasis[5]) = -4 * x[3] - 4 * x[6]
        /\ Dot(offset, ProductBasis[5]) = -4 * offset[3] - 4 * offset[6]
    BY <1>1, DotBasis
  <2>2. QED
    BY <1>1, <2>1 DEF Stepped, Vectors, Axes
<1>7. Dot(x, ProductBasis[6]) - Dot(offset, ProductBasis[6]) = 32 * cs[6]
  <2>1. /\ Dot(x, ProductBasis[6]) = 4 * x[6] - 4 * x[3]
        /\ Dot(offset, ProductBasis[6]) = 4 * offset[6] - 4 * offset[3]
    BY <1>1, DotBasis
  <2>2. QED
    BY <1>1, <2>1 DEF Stepped, Vectors, Axes
<1>8. Dot(x, ProductBasis[7]) - Dot(offset, ProductBasis[7]) = 32 * cs[7]
  <2>1. /\ Dot(x, ProductBasis[7]) = -4 * x[4] - 4 * x[7]
        /\ Dot(offset, ProductBasis[7]) = -4 * offset[4] - 4 * offset[7]
    BY <1>1, DotBasis
  <2>2. QED
    BY <1>1, <2>1 DEF Stepped, Vectors, Axes
<1>9. Dot(x, ProductBasis[8]) - Dot(offset, ProductBasis[8]) = 32 * cs[8]
  <2>1. /\ Dot(x, ProductBasis[8]) = 4 * x[7] - 4 * x[4]
        /\ Dot(offset, ProductBasis[8]) = 4 * offset[7] - 4 * offset[4]
    BY <1>1, DotBasis
  <2>2. QED
    BY <1>1, <2>1 DEF Stepped, Vectors, Axes
<1>10. QED
  BY <1>2, <1>3, <1>4, <1>5, <1>6, <1>7, <1>8, <1>9 DEF Axes, x

\* The centres of an offset that is P of a vector are quarters.
LEMMA CentersAreQuarters ==
    ASSUME NEW z \in Vectors, NEW v \in Axes
    PROVE  /\ CenterNum32(BlockApplyP(z), v) \in Int
           /\ Num32(Quarters(CenterNum32(BlockApplyP(z), v))) = CenterNum32(BlockApplyP(z), v)
<1> DEFINE x == BlockApplyP(z)
<1>1. x \in Vectors /\ Image(z, x)
  BY ImageForm
<1> HIDE DEF x
<1>2. \E k \in Int : -Dot(x, ProductBasis[v]) = 8 * k
  <2>1. CASE v = 1
    <3> DEFINE k == z[1] - z[4] + z[5] + z[8]
    <3>1. Dot(x, ProductBasis[1]) = -4 * x[1] - 4 * x[8]
      BY <1>1, DotBasis
    <3>2. k \in Int /\ -Dot(x, ProductBasis[1]) = 8 * k
      BY <1>1, <3>1 DEF Image, Vectors, Axes
    <3>3. QED
      BY <2>1, <3>2
  <2>2. CASE v = 2
    <3> DEFINE k == z[1] - z[4] - z[6] - z[7]
    <3>1. Dot(x, ProductBasis[2]) = 4 * x[8] - 4 * x[1]
      BY <1>1, DotBasis
    <3>2. k \in Int /\ -Dot(x, ProductBasis[2]) = 8 * k
      BY <1>1, <3>1 DEF Image, Vectors, Axes
    <3>3. QED
      BY <2>2, <3>2
  <2>3. CASE v = 3
    <3> DEFINE k == z[1] + z[2] - z[7] - z[8]
    <3>1. Dot(x, ProductBasis[3]) = -4 * x[2] - 4 * x[5]
      BY <1>1, DotBasis
    <3>2. k \in Int /\ -Dot(x, ProductBasis[3]) = 8 * k
      BY <1>1, <3>1 DEF Image, Vectors, Axes
    <3>3. QED
      BY <2>3, <3>2
  <2>4. CASE v = 4
    <3> DEFINE k == z[1] + z[2] - z[5] + z[6]
    <3>1. Dot(x, ProductBasis[4]) = 4 * x[5] - 4 * x[2]
      BY <1>1, DotBasis
    <3>2. k \in Int /\ -Dot(x, ProductBasis[4]) = 8 * k
      BY <1>1, <3>1 DEF Image, Vectors, Axes
    <3>3. QED
      BY <2>4, <3>2
  <2>5. CASE v = 5
    <3> DEFINE k == z[2] + z[3] + z[5] - z[8]
    <3>1. Dot(x, ProductBasis[5]) = -4 * x[3] - 4 * x[6]
      BY <1>1, DotBasis
    <3>2. k \in Int /\ -Dot(x, ProductBasis[5]) = 8 * k
      BY <1>1, <3>1 DEF Image, Vectors, Axes
    <3>3. QED
      BY <2>5, <3>2
  <2>6. CASE v = 6
    <3> DEFINE k == z[2] + z[3] - z[6] + z[7]
    <3>1. Dot(x, ProductBasis[6]) = 4 * x[6] - 4 * x[3]
      BY <1>1, DotBasis
    <3>2. k \in Int /\ -Dot(x, ProductBasis[6]) = 8 * k
      BY <1>1, <3>1 DEF Image, Vectors, Axes
    <3>3. QED
      BY <2>6, <3>2
  <2>7. CASE v = 7
    <3> DEFINE k == z[3] + z[4] + z[5] + z[6]
    <3>1. Dot(x, ProductBasis[7]) = -4 * x[4] - 4 * x[7]
      BY <1>1, DotBasis
    <3>2. k \in Int /\ -Dot(x, ProductBasis[7]) = 8 * k
      BY <1>1, <3>1 DEF Image, Vectors, Axes
    <3>3. QED
      BY <2>7, <3>2
  <2>8. CASE v = 8
    <3> DEFINE k == z[3] + z[4] - z[7] + z[8]
    <3>1. Dot(x, ProductBasis[8]) = 4 * x[7] - 4 * x[4]
      BY <1>1, DotBasis
    <3>2. k \in Int /\ -Dot(x, ProductBasis[8]) = 8 * k
      BY <1>1, <3>1 DEF Image, Vectors, Axes
    <3>3. QED
      BY <2>8, <3>2
  <2>9. QED
    BY <2>1, <2>2, <2>3, <2>4, <2>5, <2>6, <2>7, <2>8 DEF Axes
<1>3. QED
  <2>1. PICK k \in Int : -Dot(x, ProductBasis[v]) = 8 * k
    BY <1>2
  <2>2. (8 * k) \div 8 = k
    OBVIOUS
  <2>3. QED
    BY <2>1, <2>2 DEF CenterNum32, Quarters, Num32, x

\* The squared norm on a pair of axes.
LEMMA PairNorm ==
    ASSUME NEW a \in Int, NEW b \in Int, NEW c \in Int, NEW d \in Int
    PROVE  /\ (a - 4 * c - 4 * d) * (a - 4 * c - 4 * d) + (b - 4 * c + 4 * d) * (b - 4 * c + 4 * d)
                = a * a + b * b + NormShare(c, -(-4 * a - 4 * b)) + NormShare(d, -(4 * b - 4 * a))
           /\ NormShare(c, -(-4 * a - 4 * b)) \in Int /\ NormShare(d, -(4 * b - 4 * a)) \in Int
BY DEF NormShare

\* What each coordinate adds to the squared norm, and those up to the k-th.
Shares(offset, cs) == [v \in Axes |-> NormShare(cs[v], CenterNum32(offset, v))]
Upto(s, k) ==
    LET part(v) == IF v <= k THEN s[v] ELSE 0
    IN  part(1) + part(2) + part(3) + part(4) + part(5) + part(6) + part(7) + part(8)

LEMMA NormExact ==
    ASSUME NEW offset \in Vectors, NEW cs \in Vectors
    PROVE  /\ NormOf(ReconstructX(offset, cs)) = NormOf(offset) + Upto(Shares(offset, cs), 8)
           /\ NormOf(ReconstructX(offset, cs)) \in Nat
<1> DEFINE x == ReconstructX(offset, cs)
           s == Shares(offset, cs)
           o == offset
<1>1. x \in Vectors /\ Stepped(o, cs, x)
  BY ReconstructXForm
<1> HIDE DEF x
<1>2. /\ x[1] * x[1] + x[8] * x[8] = o[1] * o[1] + o[8] * o[8] + s[1] + s[2]
      /\ s[1] \in Int /\ s[2] \in Int
  <2> DEFINE a == o[1]  b == o[8]  c == cs[1]  d == cs[2]
  <2>1. a \in Int /\ b \in Int /\ c \in Int /\ d \in Int
    BY DEF Vectors, Axes
  <2>2. x[1] = a - 4 * c - 4 * d /\ x[8] = b - 4 * c + 4 * d
    BY <1>1 DEF Stepped
  <2>3. /\ CenterNum32(o, 1) = -(-4 * a - 4 * b)
        /\ CenterNum32(o, 2) = -(4 * b - 4 * a)
    BY DotBasis DEF CenterNum32
  <2>4. s[1] = NormShare(c, CenterNum32(o, 1)) /\ s[2] = NormShare(d, CenterNum32(o, 2))
    BY DEF Shares, Axes
  <2> HIDE DEF a, b, c, d, s
  <2>5. /\ (a - 4 * c - 4 * d) * (a - 4 * c - 4 * d) + (b - 4 * c + 4 * d) * (b - 4 * c + 4 * d)
              = a * a + b * b + NormShare(c, -(-4 * a - 4 * b)) + NormShare(d, -(4 * b - 4 * a))
        /\ NormShare(c, -(-4 * a - 4 * b)) \in Int /\ NormShare(d, -(4 * b - 4 * a)) \in Int
    BY <2>1, PairNorm, Zenon
  <2>6. s[1] = NormShare(c, -(-4 * a - 4 * b)) /\ s[2] = NormShare(d, -(4 * b - 4 * a))
    BY <2>3, <2>4, Zenon
  <2>7. x[1] * x[1] + x[8] * x[8] = a * a + b * b + s[1] + s[2]
    BY <2>2, <2>5, <2>6, Zenon
  <2>8. QED
    BY <2>5, <2>6, <2>7, Zenon DEF a, b
<1>3. /\ x[2] * x[2] + x[5] * x[5] = o[2] * o[2] + o[5] * o[5] + s[3] + s[4]
      /\ s[3] \in Int /\ s[4] \in Int
  <2> DEFINE a == o[2]  b == o[5]  c == cs[3]  d == cs[4]
  <2>1. a \in Int /\ b \in Int /\ c \in Int /\ d \in Int
    BY DEF Vectors, Axes
  <2>2. x[2] = a - 4 * c - 4 * d /\ x[5] = b - 4 * c + 4 * d
    BY <1>1 DEF Stepped
  <2>3. /\ CenterNum32(o, 3) = -(-4 * a - 4 * b)
        /\ CenterNum32(o, 4) = -(4 * b - 4 * a)
    BY DotBasis DEF CenterNum32
  <2>4. s[3] = NormShare(c, CenterNum32(o, 3)) /\ s[4] = NormShare(d, CenterNum32(o, 4))
    BY DEF Shares, Axes
  <2> HIDE DEF a, b, c, d, s
  <2>5. /\ (a - 4 * c - 4 * d) * (a - 4 * c - 4 * d) + (b - 4 * c + 4 * d) * (b - 4 * c + 4 * d)
              = a * a + b * b + NormShare(c, -(-4 * a - 4 * b)) + NormShare(d, -(4 * b - 4 * a))
        /\ NormShare(c, -(-4 * a - 4 * b)) \in Int /\ NormShare(d, -(4 * b - 4 * a)) \in Int
    BY <2>1, PairNorm, Zenon
  <2>6. s[3] = NormShare(c, -(-4 * a - 4 * b)) /\ s[4] = NormShare(d, -(4 * b - 4 * a))
    BY <2>3, <2>4, Zenon
  <2>7. x[2] * x[2] + x[5] * x[5] = a * a + b * b + s[3] + s[4]
    BY <2>2, <2>5, <2>6, Zenon
  <2>8. QED
    BY <2>5, <2>6, <2>7, Zenon DEF a, b
<1>4. /\ x[3] * x[3] + x[6] * x[6] = o[3] * o[3] + o[6] * o[6] + s[5] + s[6]
      /\ s[5] \in Int /\ s[6] \in Int
  <2> DEFINE a == o[3]  b == o[6]  c == cs[5]  d == cs[6]
  <2>1. a \in Int /\ b \in Int /\ c \in Int /\ d \in Int
    BY DEF Vectors, Axes
  <2>2. x[3] = a - 4 * c - 4 * d /\ x[6] = b - 4 * c + 4 * d
    BY <1>1 DEF Stepped
  <2>3. /\ CenterNum32(o, 5) = -(-4 * a - 4 * b)
        /\ CenterNum32(o, 6) = -(4 * b - 4 * a)
    BY DotBasis DEF CenterNum32
  <2>4. s[5] = NormShare(c, CenterNum32(o, 5)) /\ s[6] = NormShare(d, CenterNum32(o, 6))
    BY DEF Shares, Axes
  <2> HIDE DEF a, b, c, d, s
  <2>5. /\ (a - 4 * c - 4 * d) * (a - 4 * c - 4 * d) + (b - 4 * c + 4 * d) * (b - 4 * c + 4 * d)
              = a * a + b * b + NormShare(c, -(-4 * a - 4 * b)) + NormShare(d, -(4 * b - 4 * a))
        /\ NormShare(c, -(-4 * a - 4 * b)) \in Int /\ NormShare(d, -(4 * b - 4 * a)) \in Int
    BY <2>1, PairNorm, Zenon
  <2>6. s[5] = NormShare(c, -(-4 * a - 4 * b)) /\ s[6] = NormShare(d, -(4 * b - 4 * a))
    BY <2>3, <2>4, Zenon
  <2>7. x[3] * x[3] + x[6] * x[6] = a * a + b * b + s[5] + s[6]
    BY <2>2, <2>5, <2>6, Zenon
  <2>8. QED
    BY <2>5, <2>6, <2>7, Zenon DEF a, b
<1>5. /\ x[4] * x[4] + x[7] * x[7] = o[4] * o[4] + o[7] * o[7] + s[7] + s[8]
      /\ s[7] \in Int /\ s[8] \in Int
  <2> DEFINE a == o[4]  b == o[7]  c == cs[7]  d == cs[8]
  <2>1. a \in Int /\ b \in Int /\ c \in Int /\ d \in Int
    BY DEF Vectors, Axes
  <2>2. x[4] = a - 4 * c - 4 * d /\ x[7] = b - 4 * c + 4 * d
    BY <1>1 DEF Stepped
  <2>3. /\ CenterNum32(o, 7) = -(-4 * a - 4 * b)
        /\ CenterNum32(o, 8) = -(4 * b - 4 * a)
    BY DotBasis DEF CenterNum32
  <2>4. s[7] = NormShare(c, CenterNum32(o, 7)) /\ s[8] = NormShare(d, CenterNum32(o, 8))
    BY DEF Shares, Axes
  <2> HIDE DEF a, b, c, d, s
  <2>5. /\ (a - 4 * c - 4 * d) * (a - 4 * c - 4 * d) + (b - 4 * c + 4 * d) * (b - 4 * c + 4 * d)
              = a * a + b * b + NormShare(c, -(-4 * a - 4 * b)) + NormShare(d, -(4 * b - 4 * a))
        /\ NormShare(c, -(-4 * a - 4 * b)) \in Int /\ NormShare(d, -(4 * b - 4 * a)) \in Int
    BY <2>1, PairNorm, Zenon
  <2>6. s[7] = NormShare(c, -(-4 * a - 4 * b)) /\ s[8] = NormShare(d, -(4 * b - 4 * a))
    BY <2>3, <2>4, Zenon
  <2>7. x[4] * x[4] + x[7] * x[7] = a * a + b * b + s[7] + s[8]
    BY <2>2, <2>5, <2>6, Zenon
  <2>8. QED
    BY <2>5, <2>6, <2>7, Zenon DEF a, b
<1>6. s \in Vectors
  <2>1. \A v \in Axes : s[v] \in Int
    BY <1>2, <1>3, <1>4, <1>5 DEF Axes
  <2>2. QED
    BY <2>1 DEF Shares, Vectors
<1> HIDE DEF s
<1>7. NormOf(x) = NormOf(o) + Upto(s, 8)
  <2>1. NormOf(x) = (x[1] * x[1] + x[8] * x[8]) + (x[2] * x[2] + x[5] * x[5])
                    + (x[3] * x[3] + x[6] * x[6]) + (x[4] * x[4] + x[7] * x[7])
    BY <1>1 DEF NormOf, Dot, Vectors, Axes
  <2>2. NormOf(x) = (o[1] * o[1] + o[8] * o[8] + s[1] + s[2])
                    + (o[2] * o[2] + o[5] * o[5] + s[3] + s[4])
                    + (o[3] * o[3] + o[6] * o[6] + s[5] + s[6])
                    + (o[4] * o[4] + o[7] * o[7] + s[7] + s[8])
    BY <2>1, <1>2, <1>3, <1>4, <1>5, Zenon
  <2>3. QED
    BY <1>6, <2>2 DEF NormOf, Dot, Upto, Vectors, Axes
<1>8. NormOf(x) \in Nat
  <2>1. \A a \in Int : a * a \in Nat
    OBVIOUS
  <2>2. /\ x[1] * x[1] \in Nat /\ x[2] * x[2] \in Nat /\ x[3] * x[3] \in Nat /\ x[4] * x[4] \in Nat
        /\ x[5] * x[5] \in Nat /\ x[6] * x[6] \in Nat /\ x[7] * x[7] \in Nat /\ x[8] * x[8] \in Nat
    BY <1>1, <2>1 DEF Vectors, Axes
  <2>3. QED
    BY <2>2 DEF NormOf, Dot
<1>9. QED
  BY <1>7, <1>8 DEF s, x

-----------------------------------------------------------------------------
\* The representative of a component, and its block in a coset.
LEMMA RepForm ==
    ASSUME NEW c \in Components
    PROVE  Rep(c) \in Labels /\ Rep(c) \in Vectors /\ Syndrome(Rep(c)) = c
<1>1. Rep(c) \in Labels
  BY DEF Rep, Labels, Axes, Components
<1>2. Labels \subseteq Vectors
  BY DEF Labels, Vectors
<1>3. /\ Dot(CheckRows[1], Rep(c)) % 2 = c % 2 /\ Dot(CheckRows[2], Rep(c)) % 2 = (c \div 2) % 2
      /\ Dot(CheckRows[3], Rep(c)) % 2 = (c \div 4) % 2
      /\ Dot(CheckRows[4], Rep(c)) % 2 = (c \div 8) % 2
  BY DEF Rep, CheckRows, Dot, Components
<1>4. Syndrome(Rep(c)) = (c % 2) + 2 * ((c \div 2) % 2) + 4 * ((c \div 4) % 2) + 8 * ((c \div 8) % 2)
  BY <1>3 DEF Syndrome, Parity
<1>5. (c % 2) + 2 * ((c \div 2) % 2) + 4 * ((c \div 4) % 2) + 8 * ((c \div 8) % 2) = c
  BY DEF Components
<1>6. QED
  BY <1>1, <1>2, <1>4, <1>5

\* What the parity checks add up.
LEMMA DotCheckRows ==
    ASSUME NEW p \in Vectors
    PROVE  /\ Dot(CheckRows[1], p) = p[1] + p[2] + p[3] + p[4] + p[5] + p[6] + p[7] + p[8]
           /\ Dot(CheckRows[2], p) = p[2] + p[4] + p[6] + p[8]
           /\ Dot(CheckRows[3], p) = p[3] + p[4] + p[7] + p[8]
           /\ Dot(CheckRows[4], p) = p[5] + p[6] + p[7] + p[8]
<1>1. Dot(CheckRows[1], p) = p[1] + p[2] + p[3] + p[4] + p[5] + p[6] + p[7] + p[8]
  BY DEF CheckRows, Dot, Vectors, Axes
<1>2. Dot(CheckRows[2], p) = p[2] + p[4] + p[6] + p[8]
  BY DEF CheckRows, Dot, Vectors, Axes
<1>3. Dot(CheckRows[3], p) = p[3] + p[4] + p[7] + p[8]
  BY DEF CheckRows, Dot, Vectors, Axes
<1>4. Dot(CheckRows[4], p) = p[5] + p[6] + p[7] + p[8]
  BY DEF CheckRows, Dot, Vectors, Axes
<1>5. QED
  BY <1>1, <1>2, <1>3, <1>4

LEMMA BaseForm ==
    ASSUME NEW tau \in Labels, NEW c \in Components
    PROVE  /\ BaseBlock(tau, c) \in Vectors
           /\ \A b \in Axes : BaseBlock(tau, c)[b] = tau[b] + 2 * Rep(c)[b]
<1>1. \A b \in Axes : tau[b] \in Int /\ Rep(c)[b] \in Int
  BY RepForm DEF Labels, Vectors
<1>2. QED
  BY <1>1 DEF BaseBlock, Vectors

\* P of the block is the offset in the tables.
LEMMA OffsetOfBase ==
    ASSUME NEW tau \in Labels, NEW c \in Components
    PROVE  Offset(tau, c) \in Vectors /\ BlockApplyP(BaseBlock(tau, c)) = Offset(tau, c)
<1> DEFINE z == BaseBlock(tau, c)
           p == Rep(c)
           x == BlockApplyP(z)
           xt == BlockApplyP(tau)
           xp == BlockApplyP(p)
<1>1. tau \in Vectors /\ p \in Vectors /\ z \in Vectors
  BY RepForm, BaseForm DEF Labels, Vectors
<1>2. \A b \in Axes : z[b] = tau[b] + 2 * p[b]
  BY BaseForm
<1>3. x \in Vectors /\ Image(z, x) /\ xt \in Vectors /\ Image(tau, xt) /\ xp \in Vectors /\ Image(p, xp)
  BY <1>1, ImageForm
<1>4. Offset(tau, c) = [b \in Axes |-> xt[b] + 2 * xp[b]]
  BY DEF Offset
<1> HIDE DEF z, p, x, xt, xp
<1>5. /\ z[1] = tau[1] + 2 * p[1] /\ z[2] = tau[2] + 2 * p[2] /\ z[3] = tau[3] + 2 * p[3]
      /\ z[4] = tau[4] + 2 * p[4] /\ z[5] = tau[5] + 2 * p[5] /\ z[6] = tau[6] + 2 * p[6]
      /\ z[7] = tau[7] + 2 * p[7] /\ z[8] = tau[8] + 2 * p[8]
  BY <1>2 DEF Axes
<1>6. /\ x[1] = xt[1] + 2 * xp[1] /\ x[2] = xt[2] + 2 * xp[2]
  BY <1>1, <1>3, <1>5 DEF Image, Vectors, Axes
<1>7. /\ x[3] = xt[3] + 2 * xp[3] /\ x[4] = xt[4] + 2 * xp[4]
  BY <1>1, <1>3, <1>5 DEF Image, Vectors, Axes
<1>8. /\ x[5] = xt[5] + 2 * xp[5] /\ x[6] = xt[6] + 2 * xp[6]
  BY <1>1, <1>3, <1>5 DEF Image, Vectors, Axes
<1>9. /\ x[7] = xt[7] + 2 * xp[7] /\ x[8] = xt[8] + 2 * xp[8]
  BY <1>1, <1>3, <1>5 DEF Image, Vectors, Axes
<1>10. \A b \in Axes : x[b] = xt[b] + 2 * xp[b]
  BY <1>6, <1>7, <1>8, <1>9 DEF Axes
<1>11. QED
  BY <1>3, <1>4, <1>10 DEF Vectors, x, z

\* Half of what the coordinates add to a block.
HalfChange(cs, m) ==
    /\ m[1] = -cs[2] - cs[3] + 2 * cs[5] - cs[6] - 2 * cs[7] + cs[8]
    /\ m[2] = -cs[1] + 2 * cs[2] - cs[3] - cs[5] + 2 * cs[7] - cs[8]
    /\ m[3] = cs[1] - 2 * cs[2] + 2 * cs[3] - cs[4] - cs[5] - cs[7]
    /\ m[4] = cs[2] - 2 * cs[3] + cs[4] + 2 * cs[5] - cs[6] - cs[7]
    /\ m[5] = -cs[1] + cs[2] - cs[3] + cs[4]
    /\ m[6] = cs[3] - cs[4] - cs[5] + cs[6]
    /\ m[7] = cs[5] - cs[6] - cs[7] + cs[8]
    /\ m[8] = -cs[1] + cs[2] + cs[7] - cs[8]

\* It passes the parity checks, so that the component stays; and the coset does.
LEMMA ComponentKept ==
    ASSUME NEW tau \in Labels, NEW c \in Components, NEW cs \in Vectors, NEW z,
           z = ReconstructZ(BaseBlock(tau, c), cs)
    PROVE  /\ z \in Vectors /\ \A v \in Axes : z[v] % 2 = tau[v]
           /\ Syndrome([v \in Axes |-> ((z[v] - tau[v]) \div 2) % 2]) = c
<1> DEFINE p == Rep(c)
           base == BaseBlock(tau, c)
           m == [v \in Axes |-> (z[v] - base[v]) \div 2]
           h == [v \in Axes |-> (z[v] - tau[v]) \div 2]
           q == [v \in Axes |-> h[v] \div 2]
           lift == [v \in Axes |-> ((z[v] - tau[v]) \div 2) % 2]
<1>1. tau \in Vectors /\ p \in Vectors /\ base \in Vectors /\ Syndrome(p) = c
  BY RepForm, BaseForm DEF Labels, Vectors
<1>2. \A v \in Axes : base[v] = tau[v] + 2 * p[v] /\ tau[v] \in {0, 1}
  BY BaseForm DEF Labels
<1>3. z \in Vectors /\ Moved(base, cs, z)
  BY <1>1, ReconstructZForm
<1> HIDE DEF p, base
<1>4. /\ z[1] - base[1] = 2 * (-cs[2] - cs[3] + 2 * cs[5] - cs[6] - 2 * cs[7] + cs[8])
      /\ z[2] - base[2] = 2 * (-cs[1] + 2 * cs[2] - cs[3] - cs[5] + 2 * cs[7] - cs[8])
      /\ z[3] - base[3] = 2 * (cs[1] - 2 * cs[2] + 2 * cs[3] - cs[4] - cs[5] - cs[7])
      /\ z[4] - base[4] = 2 * (cs[2] - 2 * cs[3] + cs[4] + 2 * cs[5] - cs[6] - cs[7])
  BY <1>1, <1>3 DEF Moved, Vectors, Axes
<1>5. /\ z[5] - base[5] = 2 * (-cs[1] + cs[2] - cs[3] + cs[4])
      /\ z[6] - base[6] = 2 * (cs[3] - cs[4] - cs[5] + cs[6])
      /\ z[7] - base[7] = 2 * (cs[5] - cs[6] - cs[7] + cs[8])
      /\ z[8] - base[8] = 2 * (-cs[1] + cs[2] + cs[7] - cs[8])
  BY <1>1, <1>3 DEF Moved, Vectors, Axes
<1>6. \A k \in Int : (2 * k) \div 2 = k
  OBVIOUS
<1>7. m \in Vectors /\ HalfChange(cs, m) /\ \A v \in Axes : z[v] - base[v] = 2 * m[v]
  <2>1. HalfChange(cs, m)
    BY <1>4, <1>5, <1>6 DEF HalfChange, Vectors, Axes
  <2>2. \A v \in Axes : m[v] \in Int
    BY <1>1, <1>3 DEF Vectors
  <2>3. m \in Vectors
    BY <2>2 DEF Vectors
  <2>4. \A v \in Axes : z[v] - base[v] = 2 * m[v]
    BY <1>4, <1>5, <2>1 DEF HalfChange, Axes
  <2>5. QED
    BY <2>1, <2>3, <2>4
<1> HIDE DEF m
<1>8. ASSUME NEW v \in Axes
      PROVE  h[v] = p[v] + m[v] /\ z[v] % 2 = tau[v]
  <2>1. z[v] - tau[v] = 2 * (p[v] + m[v]) /\ p[v] + m[v] \in Int /\ tau[v] \in {0, 1} /\ z[v] \in Int
    BY <1>1, <1>2, <1>3, <1>7 DEF Vectors
  <2>2. QED
    BY <2>1, <1>6
<1>9. h \in Vectors /\ q \in Vectors /\ lift \in Vectors
  BY <1>1, <1>3 DEF Vectors
<1>19. \A v \in Axes : lift[v] = h[v] % 2 /\ q[v] = h[v] \div 2
  OBVIOUS
<1> HIDE DEF h, q, lift
<1>10. \A v \in Axes : lift[v] = p[v] + m[v] - 2 * q[v]
  <2>1. ASSUME NEW v \in Axes
        PROVE  lift[v] = p[v] + m[v] - 2 * q[v]
    <3>1. h[v] \in Int /\ h[v] % 2 = h[v] - 2 * (h[v] \div 2)
      BY <1>9 DEF Vectors
    <3>2. lift[v] = h[v] - 2 * q[v]
      BY <3>1, <1>19, Zenon
    <3>3. p[v] \in Int /\ m[v] \in Int /\ q[v] \in Int /\ h[v] = p[v] + m[v]
      BY <1>1, <1>7, <1>8, <1>9 DEF Vectors
    <3>4. QED
      BY <3>2, <3>3
  <2>2. QED
    BY <2>1
<1>11. /\ lift[1] = p[1] + m[1] - 2 * q[1] /\ lift[2] = p[2] + m[2] - 2 * q[2]
       /\ lift[3] = p[3] + m[3] - 2 * q[3] /\ lift[4] = p[4] + m[4] - 2 * q[4]
       /\ lift[5] = p[5] + m[5] - 2 * q[5] /\ lift[6] = p[6] + m[6] - 2 * q[6]
       /\ lift[7] = p[7] + m[7] - 2 * q[7] /\ lift[8] = p[8] + m[8] - 2 * q[8]
  BY <1>10 DEF Axes
<1>12. \A a, k \in Int : (a + 2 * k) % 2 = a % 2
  OBVIOUS
<1>13. Parity(CheckRows[1], lift) = Parity(CheckRows[1], p)
  <2> DEFINE k == -cs[1] + cs[2] - cs[3] + cs[5] - cs[6] - cs[7]
                  - (q[1] + q[2] + q[3] + q[4] + q[5] + q[6] + q[7] + q[8])
  <2>1. /\ Dot(CheckRows[1], lift) = lift[1] + lift[2] + lift[3] + lift[4] + lift[5] + lift[6] + lift[7] + lift[8]
        /\ Dot(CheckRows[1], p) = p[1] + p[2] + p[3] + p[4] + p[5] + p[6] + p[7] + p[8]
    BY <1>1, <1>9, DotCheckRows
  <2>2. Dot(CheckRows[1], lift) = Dot(CheckRows[1], p) + 2 * k
    <3>1. m[1] + m[2] + m[3] + m[4] + m[5] + m[6] + m[7] + m[8]
             = 2 * (-cs[1] + cs[2] - cs[3] + cs[5] - cs[6] - cs[7])
      BY <1>7 DEF HalfChange, Vectors, Axes
    <3>2. lift[1] + lift[2] + lift[3] + lift[4] + lift[5] + lift[6] + lift[7] + lift[8]
          = (p[1] + p[2] + p[3] + p[4] + p[5] + p[6] + p[7] + p[8])
            + (m[1] + m[2] + m[3] + m[4] + m[5] + m[6] + m[7] + m[8])
            - 2 * (q[1] + q[2] + q[3] + q[4] + q[5] + q[6] + q[7] + q[8])
      <4>1. lift[1] + lift[2] + lift[3] + lift[4]
            = (p[1] + p[2] + p[3] + p[4]) + (m[1] + m[2] + m[3] + m[4]) - 2 * (q[1] + q[2] + q[3] + q[4])
        BY <1>1, <1>7, <1>9, <1>11 DEF Vectors, Axes
      <4>2. lift[5] + lift[6] + lift[7] + lift[8]
            = (p[5] + p[6] + p[7] + p[8]) + (m[5] + m[6] + m[7] + m[8]) - 2 * (q[5] + q[6] + q[7] + q[8])
        BY <1>1, <1>7, <1>9, <1>11 DEF Vectors, Axes
      <4>3. ASSUME NEW f \in Vectors
            PROVE  /\ f[1] + f[2] + f[3] + f[4] \in Int /\ f[5] + f[6] + f[7] + f[8] \in Int
                   /\ f[1] + f[2] + f[3] + f[4] + f[5] + f[6] + f[7] + f[8]
                        = (f[1] + f[2] + f[3] + f[4]) + (f[5] + f[6] + f[7] + f[8])
        BY DEF Vectors, Axes
      <4> DEFINE lo(f) == f[1] + f[2] + f[3] + f[4]
                 hi(f) == f[5] + f[6] + f[7] + f[8]
                 all(f) == f[1] + f[2] + f[3] + f[4] + f[5] + f[6] + f[7] + f[8]
      <4>4. /\ lo(lift) = lo(p) + lo(m) - 2 * lo(q) /\ hi(lift) = hi(p) + hi(m) - 2 * hi(q)
            /\ \A f \in Vectors : lo(f) \in Int /\ hi(f) \in Int /\ all(f) = lo(f) + hi(f)
        BY <4>1, <4>2, <4>3
      <4> HIDE DEF lo, hi, all
      <4>5. all(lift) = all(p) + all(m) - 2 * all(q)
        BY <1>1, <1>7, <1>9, <4>4
      <4>6. QED
        BY <4>5 DEF all
    <3>3. QED
      BY <1>1, <1>9, <2>1, <3>1, <3>2 DEF Vectors, Axes
  <2>3. k \in Int /\ Dot(CheckRows[1], p) \in Int
    BY <1>1, <1>9, <2>1 DEF Vectors, Axes
  <2>4. QED
    BY <2>2, <2>3, <1>12 DEF Parity
<1>14. Parity(CheckRows[2], lift) = Parity(CheckRows[2], p)
  <2> DEFINE k == -cs[1] + 2 * cs[2] - cs[3] + cs[7] - cs[8] - (q[2] + q[4] + q[6] + q[8])
  <2>1. /\ Dot(CheckRows[2], lift) = lift[2] + lift[4] + lift[6] + lift[8]
        /\ Dot(CheckRows[2], p) = p[2] + p[4] + p[6] + p[8]
    BY <1>1, <1>9, DotCheckRows
  <2>2. Dot(CheckRows[2], lift) = Dot(CheckRows[2], p) + 2 * k
    BY <1>1, <1>7, <1>9, <1>11, <2>1 DEF HalfChange, Vectors, Axes
  <2>3. k \in Int /\ Dot(CheckRows[2], p) \in Int
    BY <1>1, <1>9, <2>1 DEF Vectors, Axes
  <2>4. QED
    BY <2>2, <2>3, <1>12 DEF Parity
<1>15. Parity(CheckRows[3], lift) = Parity(CheckRows[3], p)
  <2> DEFINE k == cs[5] - cs[6] - cs[7] - (q[3] + q[4] + q[7] + q[8])
  <2>1. /\ Dot(CheckRows[3], lift) = lift[3] + lift[4] + lift[7] + lift[8]
        /\ Dot(CheckRows[3], p) = p[3] + p[4] + p[7] + p[8]
    BY <1>1, <1>9, DotCheckRows
  <2>2. Dot(CheckRows[3], lift) = Dot(CheckRows[3], p) + 2 * k
    BY <1>1, <1>7, <1>9, <1>11, <2>1 DEF HalfChange, Vectors, Axes
  <2>3. k \in Int /\ Dot(CheckRows[3], p) \in Int
    BY <1>1, <1>9, <2>1 DEF Vectors, Axes
  <2>4. QED
    BY <2>2, <2>3, <1>12 DEF Parity
<1>16. Parity(CheckRows[4], lift) = Parity(CheckRows[4], p)
  <2> DEFINE k == -cs[1] + cs[2] - (q[5] + q[6] + q[7] + q[8])
  <2>1. /\ Dot(CheckRows[4], lift) = lift[5] + lift[6] + lift[7] + lift[8]
        /\ Dot(CheckRows[4], p) = p[5] + p[6] + p[7] + p[8]
    BY <1>1, <1>9, DotCheckRows
  <2>2. Dot(CheckRows[4], lift) = Dot(CheckRows[4], p) + 2 * k
    BY <1>1, <1>7, <1>9, <1>11, <2>1 DEF HalfChange, Vectors, Axes
  <2>3. k \in Int /\ Dot(CheckRows[4], p) \in Int
    BY <1>1, <1>9, <2>1 DEF Vectors, Axes
  <2>4. QED
    BY <2>2, <2>3, <1>12 DEF Parity
<1>17. Syndrome(lift) = c
  BY <1>1, <1>13, <1>14, <1>15, <1>16 DEF Syndrome
<1>18. QED
  BY <1>3, <1>8, <1>17 DEF lift

\* So a block that is made of its component and its coordinates is right.
LEMMA BlockMade ==
    ASSUME NEW tau \in Labels, NEW c \in Components, NEW cs \in Vectors, NEW z,
           z = ReconstructZ(BaseBlock(tau, c), cs)
    PROVE  /\ z \in Vectors /\ Offset(tau, c) \in Vectors
           /\ \A v \in Axes :
                 /\ z[v] % 2 = tau[v]
                 /\ Dot(BlockApplyP(z), ProductBasis[v]) - Dot(Offset(tau, c), ProductBasis[v]) = 32 * cs[v]
           /\ SolveP(ReconstructX(Offset(tau, c), cs), tau) = z
           /\ Syndrome([v \in Axes |-> ((z[v] - tau[v]) \div 2) % 2]) = c
           /\ NormOf(Offset(tau, c)) + Upto(Shares(Offset(tau, c), cs), 8) = BlockNorm2(z)
           /\ BlockNorm2(z) \in Nat
<1> DEFINE o == Offset(tau, c)
           x == ReconstructX(o, cs)
<1>1. /\ z \in Vectors /\ \A v \in Axes : z[v] % 2 = tau[v]
      /\ Syndrome([v \in Axes |-> ((z[v] - tau[v]) \div 2) % 2]) = c
  BY ComponentKept
<1>2. o \in Vectors /\ BlockApplyP(z) = x
  BY OffsetOfBase, BaseForm, SameChange
<1>3. \A v \in Axes : Dot(x, ProductBasis[v]) - Dot(o, ProductBasis[v]) = 32 * cs[v]
  BY <1>2, Coordinates
<1>4. NormOf(x) = NormOf(o) + Upto(Shares(o, cs), 8) /\ NormOf(x) \in Nat
  BY <1>2, NormExact
<1>5. BlockNorm2(z) = NormOf(x)
  BY <1>2 DEF BlockNorm2, NormOf
<1>6. Solved(x) = [b \in Axes |-> 4 * z[b]]
  BY <1>1, <1>2, SolvedImage
<1> HIDE DEF o, x
<1>7. SolveP(x, tau) = z
  <2> DEFINE num == Solved(x)
             y == [b \in 1 .. 8 |-> num[b] \div 4]
  <2>1. \A b \in 1 .. 8 : z[b] \in Int /\ num[b] = 4 * z[b]
    BY <1>1, <1>6 DEF Vectors, Axes
  <2>2. \A k \in Int : (4 * k) % 4 = 0 /\ (4 * k) \div 4 = k
    OBVIOUS
  <2>3. \A b \in 1 .. 8 : num[b] % 4 = 0 /\ num[b] \div 4 = z[b]
    BY <2>1, <2>2
  <2> HIDE DEF num
  <2>4. y = z
    BY <2>3, <1>1 DEF Vectors, Axes
  <2>5. \A b \in 1 .. 8 : num[b] % 4 = 0 /\ y[b] % 2 = tau[b]
    BY <1>1, <2>3, <2>4 DEF Axes
  <2>6. SolveP(x, tau) = IF (\A b \in 1 .. 8 : num[b] % 4 = 0 /\ y[b] % 2 = tau[b]) /\ BlockApplyP(y) = x
                         THEN y ELSE NoBlock
    BY DEF SolveP, num
  <2>7. QED
    BY <1>2, <2>4, <2>5, <2>6
<1>8. QED
  BY <1>1, <1>2, <1>3, <1>4, <1>5, <1>7 DEF o, x

-----------------------------------------------------------------------------
(***************************************************************************)
(* Sets in an order.                                                       *)
(***************************************************************************)
StrictOrder(S, before) ==
    /\ \A x \in S : <<x, x>> \notin before
    /\ \A x, y, z \in S : <<x, y>> \in before /\ <<y, z>> \in before => <<x, z>> \in before
    /\ \A x, y \in S : x # y => <<x, y>> \in before \/ <<y, x>> \in before

\* A finite set, sorted, stands in a sequence of which each element is once, at
\* the place that those before it leave.
LEMMA SortedFacts ==
    ASSUME NEW S, IsFiniteSet(S), NEW before, StrictOrder(S, before)
    PROVE  LET o == Sorted(S, before)
               m == Cardinality(S)
           IN  /\ m \in Nat /\ o \in [1 .. m -> S] /\ o \in Seq(S) /\ Len(o) = m
               /\ \A j, k \in 1 .. m : o[j] = o[k] => j = k
               /\ \A x \in S : \E k \in 1 .. m : o[k] = x
               /\ \A j, k \in 1 .. m : <<o[j], o[k]>> \in before <=> j < k
<1> DEFINE m == Cardinality(S)
           Ahead(x) == {y \in S : <<y, x>> \in before}
           rank(x) == Cardinality(Ahead(x)) + 1
           ranks == [x \in S |-> rank(x)]
<1>1. m \in Nat
  BY FS_CardinalityType
<1>2. ASSUME NEW x \in S
      PROVE  IsFiniteSet(Ahead(x)) /\ Cardinality(Ahead(x)) \in Nat /\ rank(x) \in 1 .. m
  <2>1. Ahead(x) \in SUBSET S /\ x \notin Ahead(x)
    BY DEF StrictOrder
  <2>2. IsFiniteSet(Ahead(x)) /\ Cardinality(Ahead(x)) <= m /\ Cardinality(Ahead(x)) # m
    BY <2>1, FS_Subset
  <2>3. Cardinality(Ahead(x)) \in Nat
    BY <2>2, FS_CardinalityType
  <2>4. QED
    BY <1>1, <2>2, <2>3
<1>3. ASSUME NEW x \in S, NEW y \in S, <<x, y>> \in before
      PROVE  rank(x) < rank(y)
  <2>1. Ahead(x) \in SUBSET Ahead(y) /\ x \in Ahead(y) /\ x \notin Ahead(x)
    BY <1>3 DEF StrictOrder
  <2>2. /\ Cardinality(Ahead(x)) <= Cardinality(Ahead(y))
        /\ Cardinality(Ahead(x)) # Cardinality(Ahead(y))
    BY <1>2, <2>1, FS_Subset
  <2>3. Cardinality(Ahead(x)) \in Nat /\ Cardinality(Ahead(y)) \in Nat
    BY <1>2
  <2> HIDE DEF Ahead
  <2>4. QED
    BY <2>2, <2>3
<1>4. ASSUME NEW x \in S, NEW y \in S, x # y
      PROVE  rank(x) # rank(y)
  <2>1. <<x, y>> \in before \/ <<y, x>> \in before
    BY <1>4 DEF StrictOrder
  <2>2. rank(x) < rank(y) \/ rank(y) < rank(x)
    BY <1>3, <2>1
  <2>3. rank(x) \in 1 .. m /\ rank(y) \in 1 .. m
    BY <1>2
  <2> HIDE DEF rank
  <2>4. QED
    BY <2>2, <2>3
<1> HIDE DEF rank
<1>5. ranks \in Injection(S, 1 .. m)
  BY <1>2, <1>4 DEF Injection, IsInjective
<1>6. ranks \in Surjection(S, 1 .. m)
  <2>1. IsFiniteSet(1 .. m) /\ Cardinality(1 .. m) = m
    BY <1>1, FS_Interval
  <2>2. QED
    BY <1>5, <2>1, FS_Injection
<1>7. \A k \in 1 .. m : \E x \in S : rank(x) = k
  BY <1>6 DEF Surjection
<1> DEFINE o == [k \in 1 .. m |-> CHOOSE x \in S : Cardinality(Ahead(x)) = k - 1]
<1>8. ASSUME NEW k \in 1 .. m
      PROVE  o[k] \in S /\ rank(o[k]) = k
  <2>1. PICK x \in S : rank(x) = k
    BY <1>7
  <2>2. Cardinality(Ahead(x)) = k - 1
    BY <1>1, <1>2, <2>1 DEF rank
  <2> HIDE DEF Ahead
  <2>3. o[k] \in S /\ Cardinality(Ahead(o[k])) = k - 1
    BY <2>2
  <2>4. QED
    BY <1>1, <2>3 DEF rank
<1>9. o \in [1 .. m -> S]
  BY <1>8
<1>10. o \in Seq(S) /\ Len(o) = m
  <2> HIDE DEF o, m
  <2>1. o \in Seq(S)
    BY <1>1, <1>9
  <2>2. QED
    BY <1>1, <1>9, <2>1
<1>11. Sorted(S, before) = o
  <2>1. Sorted(S, before) = <<>> \o o
    BY Zenon DEF Sorted, Tabulated
  <2> HIDE DEF o
  <2>2. <<>> \o o = o
    BY <1>10, ConcatEmptySeq
  <2>3. QED
    BY <2>1, <2>2
<1> HIDE DEF o
<1>12. \A j, k \in 1 .. m : o[j] = o[k] => j = k
  BY <1>8
<1>13. \A x \in S : \E k \in 1 .. m : o[k] = x
  <2> SUFFICES ASSUME NEW x \in S PROVE \E k \in 1 .. m : o[k] = x
    OBVIOUS
  <2>1. rank(x) \in 1 .. m
    BY <1>2
  <2>2. o[rank(x)] \in S /\ rank(o[rank(x)]) = rank(x)
    BY <1>8, <2>1
  <2>3. o[rank(x)] = x
    BY <1>4, <2>2
  <2>4. QED
    BY <2>1, <2>3
<1>14. ASSUME NEW j \in 1 .. m, NEW k \in 1 .. m
       PROVE  <<o[j], o[k]>> \in before <=> j < k
  <2>1. o[j] \in S /\ o[k] \in S /\ rank(o[j]) = j /\ rank(o[k]) = k
    BY <1>8
  <2>2. <<o[j], o[k]>> \in before => j < k
    BY <1>3, <2>1
  <2>3. <<o[k], o[j]>> \in before => k < j
    BY <1>3, <2>1
  <2>4. j # k => <<o[j], o[k]>> \in before \/ <<o[k], o[j]>> \in before
    BY <1>12, <2>1 DEF StrictOrder
  <2>5. QED
    BY <2>2, <2>3, <2>4
<1>15. QED
  BY <1>1, <1>9, <1>10, <1>11, <1>12, <1>13, <1>14

LEMMA NearerOrder ==
    ASSUME NEW S, S \subseteq Int, NEW q \in Int
    PROVE  StrictOrder(S, Nearer(S, q))
<1>1. \A x \in S : x \in Int /\ Distance(x, q) \in Int
  BY DEF Distance
<1>2. \A x, y \in S :
         <<x, y>> \in Nearer(S, q) <=>
            \/ Distance(x, q) < Distance(y, q)
            \/ Distance(x, q) = Distance(y, q) /\ x < y
  BY DEF Nearer
<1>3. QED
  BY <1>1, <1>2 DEF StrictOrder

LEMMA HeavierOrder ==
    ASSUME NEW S, S \subseteq Int, NEW masses, DOMAIN masses = S,
           \A x \in S : masses[x] \in Nat
    PROVE  StrictOrder(S, Heavier(masses))
<1>1. \A x, y \in S :
         <<x, y>> \in Heavier(masses) <=>
            \/ masses[x] > masses[y]
            \/ masses[x] = masses[y] /\ x < y
  BY DEF Heavier
<1>2. QED
  BY <1>1 DEF StrictOrder

-----------------------------------------------------------------------------
(***************************************************************************)
(* How masses are rounded.                                                 *)
(***************************************************************************)
\* What is closed of a side, and has an outermost and an innermost outcome.
Closed(U, beyond) == \A x \in U : beyond[x] \subseteq U
Side(A, beyond) ==
    /\ \A x \in A : x \in beyond[x]
    /\ \A U \in SUBSET A : U # {} /\ Closed(U, beyond) =>
          \E x \in U : beyond[x] = U /\ \A y \in U \ {x} : x \notin beyond[y]

\* A measure of the parts of a side, and what it gives each outcome.
Measure(F, A) ==
    /\ F[{}] = 0 /\ \A U \in SUBSET A : F[U] \in Nat
    /\ \A U, V \in SUBSET A : U \subseteq V => F[U] <= F[V]
Leaves(out, F, A, beyond) ==
    \A x \in A : beyond[x] \subseteq A => out[x] = F[beyond[x]] - F[beyond[x] \ {x}]

\* Where each outcome of a side gets what those beyond it leave of their share,
\* those of a closed part have their share.
LEMMA SideSum ==
    ASSUME NEW A, IsFiniteSet(A), NEW beyond, Side(A, beyond),
           NEW F, Measure(F, A), NEW out, Leaves(out, F, A, beyond),
           NEW W \in SUBSET A, Closed(W, beyond)
    PROVE  /\ \A x \in W : out[x] \in Nat
           /\ SumFunctionOnSet(out, W) = F[W]
<1>1. \A x \in A : beyond[x] \subseteq A => out[x] \in Nat
  <2> SUFFICES ASSUME NEW x \in A, beyond[x] \subseteq A PROVE out[x] \in Nat
    OBVIOUS
  <2>1. /\ beyond[x] \in SUBSET A /\ beyond[x] \ {x} \in SUBSET A
        /\ beyond[x] \ {x} \subseteq beyond[x]
    OBVIOUS
  <2>2. /\ F[beyond[x]] \in Nat /\ F[beyond[x] \ {x}] \in Nat
        /\ F[beyond[x] \ {x}] <= F[beyond[x]]
    BY <2>1 DEF Measure
  <2>3. out[x] = F[beyond[x]] - F[beyond[x] \ {x}]
    BY DEF Leaves
  <2>4. QED
    BY <2>2, <2>3
<1> DEFINE Good(U) == SumFunctionOnSet(out, U) = F[U]
           Bad == {k \in Nat : \E U \in SUBSET A : Closed(U, beyond) /\ Cardinality(U) = k /\ ~Good(U)}
<1>2. ASSUME Bad # {} PROVE FALSE
  <2>1. PICK k \in Bad : \A j \in Bad : k <= j
    <3>1. Bad \subseteq Nat
      OBVIOUS
    <3> HIDE DEF Bad
    <3>2. QED
      BY <1>2, <3>1, LeastNatural
  <2>2. PICK U \in SUBSET A : Closed(U, beyond) /\ Cardinality(U) = k /\ ~Good(U)
    BY <2>1
  <2>3. U # {}
    BY <2>2, SumOfNone DEF Measure
  <2>4. PICK x \in U : beyond[x] = U /\ \A y \in U \ {x} : x \notin beyond[y]
    BY <2>2, <2>3 DEF Side
  <2> DEFINE V == U \ {x}
  <2>5. V \in SUBSET A /\ Closed(V, beyond)
    BY <2>2, <2>4 DEF Closed
  <2>6. IsFiniteSet(U) /\ IsFiniteSet(V) /\ Cardinality(V) = k - 1 /\ k \in Nat /\ k - 1 \in Nat
    <3>1. IsFiniteSet(U)
      BY FS_Subset
    <3>2. IsFiniteSet(V) /\ Cardinality(V) = Cardinality(U) - 1
      BY <3>1, FS_RemoveElement
    <3>3. Cardinality(V) \in Nat
      BY <3>2, FS_CardinalityType
    <3>4. QED
      BY <2>1, <2>2, <3>1, <3>2, <3>3
  <2>7. Good(V)
    <3>1. k - 1 \notin Bad
      BY <2>1, <2>6
    <3> HIDE DEF Good
    <3>2. QED
      BY <2>5, <2>6, <3>1
  <2>8. \A y \in U : out[y] \in Nat
    BY <1>1, <2>2 DEF Closed
  <2>9. SumFunctionOnSet(out, V \cup {x}) = SumFunctionOnSet(out, V) + out[x]
    <3>1. x \notin V /\ out[x] \in Nat /\ \A y \in V : out[y] \in Nat
      BY <2>8
    <3> HIDE DEF V
    <3>2. QED
      BY <2>6, <3>1, SumAdd
  <2>10. V \cup {x} = U
    OBVIOUS
  <2>11. out[x] = F[U] - F[V]
    BY <2>2, <2>4 DEF Leaves
  <2>12. F[U] \in Nat /\ F[V] \in Nat
    BY <2>5 DEF Measure
  <2>13. SumFunctionOnSet(out, U) = F[V] + out[x]
    BY <2>7, <2>9, <2>10, Zenon
  <2> HIDE DEF V
  <2>14. QED
    BY <2>2, <2>11, <2>12, <2>13
<1>3. IsFiniteSet(W) /\ Cardinality(W) \in Nat
  BY FS_Subset, FS_CardinalityType
<1>4. Good(W)
  <2> HIDE DEF Good
  <2>1. QED
    BY <1>2, <1>3
<1>5. QED
  BY <1>1, <1>4 DEF Closed

\* The share of a set of outcomes.
ShareOf(masses, words, S) ==
    (SumFunctionOnSet(masses, S) * words) \div SumFunctionOnSet(masses, DOMAIN masses)

LEMMA ShareFacts ==
    ASSUME NEW D, IsFiniteSet(D), NEW masses, DOMAIN masses = D, \A x \in D : masses[x] \in Nat,
           SumFunctionOnSet(masses, D) # 0, NEW words \in Nat
    PROVE  /\ SumFunctionOnSet(masses, D) \in Nat \ {0}
           /\ ShareOf(masses, words, {}) = 0 /\ ShareOf(masses, words, D) = words
           /\ \A U \in SUBSET D : ShareOf(masses, words, U) \in Nat
           /\ \A U, V \in SUBSET D : U \subseteq V => ShareOf(masses, words, U) <= ShareOf(masses, words, V)
           /\ \A U, V \in SUBSET D : U \cap V = {} =>
                 ShareOf(masses, words, U) + ShareOf(masses, words, V) <= words
<1> DEFINE total == SumFunctionOnSet(masses, D)
           mass(U) == SumFunctionOnSet(masses, U)
<1>1. total \in Nat \ {0}
  BY SumType
<1>2. \A U \in SUBSET D : IsFiniteSet(U) /\ mass(U) \in Nat
  <2> SUFFICES ASSUME NEW U \in SUBSET D PROVE IsFiniteSet(U) /\ mass(U) \in Nat
    OBVIOUS
  <2>1. IsFiniteSet(U)
    BY FS_Subset
  <2>2. QED
    BY <2>1, SumType
<1>3. \A U : ShareOf(masses, words, U) = (mass(U) * words) \div total
  BY DEF ShareOf
<1>4. mass({}) = 0 /\ mass(D) = total
  BY SumOfNone
<1>5. ASSUME NEW U \in SUBSET D, NEW V \in SUBSET D, U \subseteq V
      PROVE  mass(U) <= mass(V)
  <2>1. IsFiniteSet(V) /\ \A x \in V : masses[x] \in Nat
    BY <1>2
  <2>2. QED
    BY <1>5, <2>1, SumPart
<1>6. ASSUME NEW U \in SUBSET D, NEW V \in SUBSET D, U \cap V = {}
      PROVE  mass(U) + mass(V) <= total
  <2>1. IsFiniteSet(U) /\ IsFiniteSet(V) /\ U \cup V \in SUBSET D /\ \A x \in U \cup V : masses[x] \in Nat
    BY <1>2
  <2>2. mass(U \cup V) = mass(U) + mass(V)
    BY <1>6, <2>1, SumUnion
  <2>3. mass(U \cup V) <= mass(D)
    BY <1>5, <2>1
  <2>4. QED
    BY <1>4, <2>2, <2>3, Zenon
<1> HIDE DEF total, mass
<1>7. ShareOf(masses, words, {}) = 0
  BY <1>1, <1>3, <1>4
<1>8. ShareOf(masses, words, D) = words
  <2>1. ShareOf(masses, words, D) = (total * words) \div total
    BY <1>3, <1>4, Zenon
  <2>2. total * words = words * total
    BY <1>1
  <2>3. QED
    BY <1>1, <2>1, <2>2, Cancel
<1>9. \A U \in SUBSET D : ShareOf(masses, words, U) \in Nat
  <2> SUFFICES ASSUME NEW U \in SUBSET D PROVE ShareOf(masses, words, U) \in Nat
    OBVIOUS
  <2>1. mass(U) * words \in Nat
    BY <1>2
  <2>2. QED
    BY <1>1, <1>3, <2>1, DivBounds
<1>10. ASSUME NEW U \in SUBSET D, NEW V \in SUBSET D, U \subseteq V
       PROVE  ShareOf(masses, words, U) <= ShareOf(masses, words, V)
  <2>1. mass(U) <= mass(V) /\ mass(U) \in Nat /\ mass(V) \in Nat
    BY <1>2, <1>5, <1>10
  <2>2. words * mass(U) <= words * mass(V) /\ words * mass(U) \in Nat /\ words * mass(V) \in Nat
    BY <2>1, MulMono
  <2>3. mass(U) * words = words * mass(U) /\ mass(V) * words = words * mass(V)
    BY <2>1
  <2>4. (mass(U) * words) \div total <= (mass(V) * words) \div total
    BY <1>1, <2>2, <2>3, DivMono
  <2>5. QED
    BY <1>3, <2>4
<1>11. ASSUME NEW U \in SUBSET D, NEW V \in SUBSET D, U \cap V = {}
       PROVE  ShareOf(masses, words, U) + ShareOf(masses, words, V) <= words
  <2> DEFINE a == mass(U)
             b == mass(V)
             p == (a * words) \div total
             q == (b * words) \div total
  <2>1. a \in Nat /\ b \in Nat /\ a + b \in Nat /\ a + b <= total
    BY <1>2, <1>6, <1>11
  <2> HIDE DEF a, b
  <2>2. words * (a + b) <= words * total
    BY <1>1, <2>1, MulMono
  <2>3. a * words + b * words = words * (a + b) /\ a * words \in Nat /\ b * words \in Nat
    BY <2>1
  <2>4. p \in Nat /\ q \in Nat /\ total * p <= a * words /\ total * q <= b * words
    BY <1>1, <2>3, DivBounds
  <2> HIDE DEF p, q
  <2>5. total * (p + q) <= words * total
    <3>1. total * (p + q) = total * p + total * q
      BY <1>1, <2>4
    <3>2. total * p \in Nat /\ total * q \in Nat /\ words * total \in Nat
      BY <1>1, <2>4
    <3>3. QED
      BY <2>2, <2>3, <2>4, <3>1, <3>2
  <2>6. p + q <= words
    <3>1. (words * total) \div total = words
      BY <1>1, Cancel
    <3>2. words * total \in Nat /\ p + q \in Nat
      BY <1>1, <2>4
    <3>3. p + q <= (words * total) \div total
      BY <1>1, <2>5, <3>2, DivBounds
    <3>4. QED
      BY <3>1, <3>3
  <2>7. ShareOf(masses, words, U) = p /\ ShareOf(masses, words, V) = q
    BY <1>3 DEF p, q, a, b
  <2>8. QED
    BY <2>6, <2>7
<1>12. QED
  BY <1>1, <1>7, <1>8, <1>9, <1>10, <1>11 DEF total

\* Of the words, the outcomes of a part that is closed have their share, and all
\* together have all.
LEMMA RuleFacts ==
    ASSUME NEW D, IsFiniteSet(D), NEW masses, DOMAIN masses = D, \A x \in D : masses[x] \in Nat,
           SumFunctionOnSet(masses, D) # 0, NEW words \in Nat, NEW mode \in D, NEW beyond,
           NEW A, NEW B, A \cup B = D \ {mode}, A \cap B = {}, Side(A, beyond), Side(B, beyond),
           Closed(A, beyond), Closed(B, beyond)
    PROVE  LET mass == RuleMasses(masses, words, mode, beyond)
           IN  /\ mass \in [D -> Nat] /\ SumFunctionOnSet(mass, D) = words
               /\ \A U : (U \subseteq A \/ U \subseteq B) /\ Closed(U, beyond) =>
                     SumFunctionOnSet(mass, U) = ShareOf(masses, words, U)
<1> DEFINE out == [x \in D \ {mode} |-> ShareOf(masses, words, beyond[x])
                                         - ShareOf(masses, words, beyond[x] \ {x})]
           mass == [x \in D |-> IF x = mode THEN words - SumFunctionOnSet(out, DOMAIN out) ELSE out[x]]
           F(S) == [U \in SUBSET S |-> ShareOf(masses, words, U)]
<1>1. RuleMasses(masses, words, mode, beyond) = mass
  BY Zenon DEF RuleMasses, ShareOf
<1>2. \A S \in SUBSET (D \ {mode}) : Side(S, beyond) => \A U \in SUBSET S : Closed(U, beyond) =>
         /\ \A x \in U : out[x] \in Nat
         /\ SumFunctionOnSet(out, U) = ShareOf(masses, words, U)
  <2> SUFFICES ASSUME NEW S \in SUBSET (D \ {mode}), Side(S, beyond),
                      NEW U \in SUBSET S, Closed(U, beyond)
               PROVE  /\ \A x \in U : out[x] \in Nat
                      /\ SumFunctionOnSet(out, U) = ShareOf(masses, words, U)
    OBVIOUS
  <2>1. IsFiniteSet(S) /\ SUBSET S \subseteq SUBSET D
    <3>1. S \in SUBSET D
      OBVIOUS
    <3>2. QED
      BY <3>1, FS_Subset
  <2>2. \A V \in SUBSET S : F(S)[V] = ShareOf(masses, words, V)
    OBVIOUS
  <2>3. {} \in SUBSET S
    OBVIOUS
  <2>4. /\ ShareOf(masses, words, {}) = 0
        /\ \A V \in SUBSET S : ShareOf(masses, words, V) \in Nat
        /\ \A V, W \in SUBSET S : V \subseteq W => ShareOf(masses, words, V) <= ShareOf(masses, words, W)
    BY <2>1, ShareFacts
  <2>5. \A x \in S : beyond[x] \subseteq S => out[x] = F(S)[beyond[x]] - F(S)[beyond[x] \ {x}]
    <3> SUFFICES ASSUME NEW x \in S, beyond[x] \subseteq S
                 PROVE  out[x] = F(S)[beyond[x]] - F(S)[beyond[x] \ {x}]
      OBVIOUS
    <3>1. out[x] = ShareOf(masses, words, beyond[x]) - ShareOf(masses, words, beyond[x] \ {x})
      OBVIOUS
    <3>2. beyond[x] \in SUBSET S /\ beyond[x] \ {x} \in SUBSET S
      OBVIOUS
    <3> HIDE DEF out, F
    <3>3. QED
      BY <2>2, <3>1, <3>2
  <2> HIDE DEF out
  <2> DEFINE G == F(S)
  <2>6. Measure(G, S) /\ Leaves(out, G, S, beyond) /\ G[U] = ShareOf(masses, words, U)
    <3> HIDE DEF F
    <3>1. Measure(G, S)
      BY <2>2, <2>3, <2>4 DEF Measure
    <3>2. Leaves(out, G, S, beyond)
      BY <2>5 DEF Leaves
    <3>3. QED
      BY <2>2, <3>1, <3>2
  <2> HIDE DEF G
  <2>7. /\ \A x \in U : out[x] \in Nat
        /\ SumFunctionOnSet(out, U) = G[U]
    BY <2>1, <2>6, SideSum
  <2>8. QED
    BY <2>6, <2>7
<1>3. A \in SUBSET (D \ {mode}) /\ B \in SUBSET (D \ {mode})
  OBVIOUS
<1>4. /\ \A x \in A : out[x] \in Nat
      /\ SumFunctionOnSet(out, A) = ShareOf(masses, words, A)
      /\ \A x \in B : out[x] \in Nat
      /\ SumFunctionOnSet(out, B) = ShareOf(masses, words, B)
  <2> HIDE DEF out
  <2>1. QED
    BY <1>2, <1>3
<1>5. DOMAIN out = A \cup B
  OBVIOUS
<1> DEFINE others == SumFunctionOnSet(out, DOMAIN out)
<1> HIDE DEF out
<1>6. /\ \A x \in A \cup B : out[x] \in Nat
      /\ others \in Nat /\ others <= words
  <2>1. IsFiniteSet(A) /\ IsFiniteSet(B) /\ A \in SUBSET D /\ B \in SUBSET D
    BY <1>3, FS_Subset
  <2>2. \A x \in A \cup B : out[x] \in Nat
    BY <1>4
  <2>3. SumFunctionOnSet(out, A \cup B) = SumFunctionOnSet(out, A) + SumFunctionOnSet(out, B)
    BY <2>1, <2>2, SumUnion
  <2>4. /\ ShareOf(masses, words, A) + ShareOf(masses, words, B) <= words
        /\ ShareOf(masses, words, A) \in Nat /\ ShareOf(masses, words, B) \in Nat
    BY <2>1, ShareFacts
  <2>5. QED
    BY <1>4, <1>5, <2>2, <2>3, <2>4
<1>7. /\ mass[mode] = words - others /\ mass[mode] \in Nat
      /\ \A x \in A \cup B : mass[x] = out[x] /\ mass[x] \in Nat
  <2>1. mass[mode] = words - others
    OBVIOUS
  <2>2. \A x \in A \cup B : mass[x] = out[x]
    OBVIOUS
  <2> HIDE DEF mass, others
  <2>3. QED
    BY <1>6, <2>1, <2>2
<1>8. mass \in [D -> Nat]
  <2>1. \A x \in D : mass[x] \in Nat
    BY <1>7
  <2>2. mass = [x \in D |-> mass[x]]
    OBVIOUS
  <2> HIDE DEF mass
  <2>3. QED
    BY <2>1, <2>2
<1> HIDE DEF mass, others
<1>9. \A U \in SUBSET (A \cup B) : SumFunctionOnSet(mass, U) = SumFunctionOnSet(out, U)
  <2> SUFFICES ASSUME NEW U \in SUBSET (A \cup B)
               PROVE  SumFunctionOnSet(mass, U) = SumFunctionOnSet(out, U)
    OBVIOUS
  <2>1. IsFiniteSet(U)
    <3>1. U \in SUBSET D
      OBVIOUS
    <3>2. QED
      BY <3>1, FS_Subset
  <2>2. \A x \in U : mass[x] \in Nat /\ mass[x] = out[x]
    BY <1>7
  <2>3. QED
    BY <2>1, <2>2, SumAgree
<1>10. SumFunctionOnSet(mass, D) = words
  <2>1. IsFiniteSet(A \cup B) /\ mode \notin A \cup B /\ D = (A \cup B) \cup {mode}
    <3>1. A \cup B \in SUBSET D
      OBVIOUS
    <3>2. QED
      BY <3>1, FS_Subset
  <2>2. SumFunctionOnSet(mass, (A \cup B) \cup {mode}) = SumFunctionOnSet(mass, A \cup B) + mass[mode]
    BY <1>7, <2>1, SumAdd
  <2>3. A \cup B \in SUBSET (A \cup B)
    OBVIOUS
  <2>4. SumFunctionOnSet(mass, A \cup B) = SumFunctionOnSet(out, A \cup B)
    BY <1>9, <2>3
  <2>5. SumFunctionOnSet(mass, A \cup B) = others
    BY <1>5, <2>4, Zenon DEF others
  <2>6. SumFunctionOnSet(mass, D) = others + mass[mode]
    BY <2>1, <2>2, <2>5, Zenon
  <2>7. QED
    BY <1>6, <1>7, <2>6
<1>11. ASSUME NEW U, U \subseteq A \/ U \subseteq B, Closed(U, beyond)
       PROVE  SumFunctionOnSet(mass, U) = ShareOf(masses, words, U)
  <2>1. SumFunctionOnSet(out, U) = ShareOf(masses, words, U)
    BY <1>2, <1>3, <1>11
  <2>2. U \in SUBSET (A \cup B)
    BY <1>11
  <2>3. QED
    BY <1>9, <2>1, <2>2
<1>12. QED
  BY <1>1, <1>8, <1>10, <1>11

\* A finite set of integers has a largest and a smallest.
LEMMA Extremes ==
    ASSUME NEW S, S \subseteq Int, IsFiniteSet(S), S # {}
    PROVE  (\E x \in S : \A y \in S : y <= x) /\ (\E x \in S : \A y \in S : x <= y)
<1> DEFINE before == {p \in S \X S : p[1] < p[2]}
           m == Cardinality(S)
           o == Sorted(S, before)
<1>1. \A x, y \in S : <<x, y>> \in before <=> x < y
  OBVIOUS
<1> HIDE DEF before
<1>2. StrictOrder(S, before)
  BY <1>1 DEF StrictOrder
<1>3. /\ m \in Nat /\ o \in [1 .. m -> S]
      /\ \A x \in S : \E k \in 1 .. m : o[k] = x
      /\ \A j, k \in 1 .. m : <<o[j], o[k]>> \in before <=> j < k
  BY <1>2, SortedFacts
<1> HIDE DEF m, o
<1>4. \A j, k \in 1 .. m : o[j] \in S /\ o[k] \in S /\ (o[j] < o[k] <=> j < k)
  BY <1>1, <1>3
<1>5. m \in 1 .. m /\ 1 \in 1 .. m
  <2>1. PICK x \in S : TRUE
    OBVIOUS
  <2>2. PICK k \in 1 .. m : o[k] = x
    BY <1>3, <2>1
  <2>3. QED
    BY <1>3, <2>2
<1>6. ASSUME NEW y \in S PROVE y <= o[m] /\ o[1] <= y
  <2>1. PICK k \in 1 .. m : o[k] = y
    BY <1>3
  <2>2. ~(o[m] < o[k]) /\ ~(o[k] < o[1])
    <3>1. ~(m < k) /\ ~(k < 1)
      BY <1>3
    <3>2. QED
      BY <1>4, <1>5, <3>1
  <2>3. o[m] \in Int /\ o[1] \in Int /\ o[k] \in Int
    BY <1>4, <1>5
  <2>4. QED
    BY <2>1, <2>2, <2>3
<1>7. QED
  BY <1>4, <1>5, <1>6

\* What the values of a distribution get: all words, and none gets none.
Distributed(mass, S, words) ==
    /\ DOMAIN mass \subseteq S /\ IsFiniteSet(DOMAIN mass) /\ DOMAIN mass # {}
    /\ \A x \in DOMAIN mass : mass[x] \in Nat \ {0}
    /\ SumFunctionOnSet(mass, DOMAIN mass) = words

LEMMA ValueRuleFacts ==
    ASSUME NEW S, S \subseteq Int, IsFiniteSet(S), S # {}, NEW weights, DOMAIN weights = S,
           \A x \in S : weights[x] \in Nat \ {0}, NEW q \in Int, NEW words \in Nat \ {0}
    PROVE  Distributed(ValueRuleMasses(weights, q, words), S, words)
<1> DEFINE mode == Nearest(S, q)[1]
           beyond == [x \in S \ {mode} |-> IF x < mode THEN {y \in S : y <= x} ELSE {y \in S : y >= x}]
           all == RuleMasses(weights, words, mode, beyond)
           D == {y \in S : all[y] > 0}
           mass == [x \in D |-> all[x]]
           A == {x \in S : x < mode}
           B == {x \in S : x > mode}
<1>1. mode \in S
  <2>1. StrictOrder(S, Nearer(S, q))
    BY NearerOrder
  <2>2. Cardinality(S) \in Nat /\ Cardinality(S) # 0
    BY FS_EmptySet, FS_CardinalityType
  <2>3. Nearest(S, q) \in [1 .. Cardinality(S) -> S]
    BY <2>1, SortedFacts DEF Nearest
  <2>4. QED
    BY <2>2, <2>3
<1>2. ValueRuleMasses(weights, q, words) = mass
  BY Zenon DEF ValueRuleMasses
<1> HIDE DEF mode
<1>3. A \cup B = S \ {mode} /\ A \cap B = {} /\ A \subseteq Int /\ B \subseteq Int
  <2>1. mode \in Int /\ \A x \in S : x \in Int
    BY <1>1
  <2>2. \A x \in S : x # mode <=> x < mode \/ x > mode
    BY <2>1
  <2>3. \A x \in S : ~(x < mode /\ x > mode)
    BY <2>1
  <2>4. QED
    BY <2>1, <2>2, <2>3
<1>4. /\ \A x \in A : beyond[x] = {y \in S : y <= x}
      /\ \A x \in B : beyond[x] = {y \in S : y >= x}
  BY <1>1
<1>5. Closed(A, beyond) /\ Closed(B, beyond)
  <2>1. \A x \in A : \A y \in beyond[x] : y \in A
    BY <1>1, <1>4
  <2>2. \A x \in B : \A y \in beyond[x] : y \in B
    BY <1>1, <1>4
  <2> HIDE DEF A, B, beyond
  <2>3. QED
    BY <2>1, <2>2 DEF Closed
<1>6. Side(A, beyond)
  <2>1. \A x \in A : x \in beyond[x]
    BY <1>4
  <2>2. ASSUME NEW U \in SUBSET A, U # {}, Closed(U, beyond)
        PROVE  \E x \in U : beyond[x] = U /\ \A y \in U \ {x} : x \notin beyond[y]
    <3>1. U \subseteq Int /\ IsFiniteSet(U)
      <4>1. U \in SUBSET S
        OBVIOUS
      <4>2. QED
        BY <4>1, FS_Subset
    <3>2. PICK x \in U : \A y \in U : y <= x
      BY <2>2, <3>1, Extremes
    <3>3. beyond[x] = {y \in S : y <= x} /\ beyond[x] \subseteq U /\ U \subseteq S
      BY <1>4, <2>2 DEF Closed
    <3>4. beyond[x] = U
      BY <3>2, <3>3
    <3>5. \A y \in U \ {x} : beyond[y] = {b \in S : b <= y} /\ x \in Int /\ y \in Int /\ y <= x /\ y # x
      BY <1>4, <3>1, <3>2
    <3> HIDE DEF beyond
    <3>6. \A y \in U \ {x} : x \notin beyond[y]
      BY <3>5
    <3>7. QED
      BY <3>4, <3>6
  <2> HIDE DEF A, beyond
  <2>3. QED
    BY <2>1, <2>2 DEF Side
<1>7. Side(B, beyond)
  <2>1. \A x \in B : x \in beyond[x]
    BY <1>4
  <2>2. ASSUME NEW U \in SUBSET B, U # {}, Closed(U, beyond)
        PROVE  \E x \in U : beyond[x] = U /\ \A y \in U \ {x} : x \notin beyond[y]
    <3>1. U \subseteq Int /\ IsFiniteSet(U)
      <4>1. U \in SUBSET S
        OBVIOUS
      <4>2. QED
        BY <4>1, FS_Subset
    <3>2. PICK x \in U : \A y \in U : x <= y
      BY <2>2, <3>1, Extremes
    <3>3. beyond[x] = {y \in S : y >= x} /\ beyond[x] \subseteq U /\ U \subseteq S
      BY <1>4, <2>2 DEF Closed
    <3>4. beyond[x] = U
      BY <3>2, <3>3
    <3>5. \A y \in U \ {x} : beyond[y] = {b \in S : b >= y} /\ x \in Int /\ y \in Int /\ x <= y /\ y # x
      BY <1>4, <3>1, <3>2
    <3> HIDE DEF beyond
    <3>6. \A y \in U \ {x} : x \notin beyond[y]
      BY <3>5
    <3>7. QED
      BY <3>4, <3>6
  <2> HIDE DEF B, beyond
  <2>3. QED
    BY <2>1, <2>2 DEF Side
<1> HIDE DEF A, B, beyond
<1>8. SumFunctionOnSet(weights, S) # 0
  <2>1. SumFunctionOnSet(weights, S) \in Nat
    BY SumType
  <2>2. SumFunctionOnSet(weights, {mode}) = weights[mode]
    BY <1>1, UnitsOfOne, SumIsUnits, FS_Singleton
  <2>3. {mode} \in SUBSET S
    BY <1>1
  <2>4. SumFunctionOnSet(weights, {mode}) <= SumFunctionOnSet(weights, S)
    BY <2>3, SumPart
  <2>5. QED
    BY <1>1, <2>1, <2>2, <2>4
<1>9. all \in [S -> Nat] /\ SumFunctionOnSet(all, S) = words
  BY <1>1, <1>3, <1>5, <1>6, <1>7, <1>8, RuleFacts
<1> HIDE DEF all
<1>10. D \in SUBSET S /\ IsFiniteSet(D) /\ IsFiniteSet(S \ D) /\ S \ D \in SUBSET S
  BY FS_Subset
<1>11. SumFunctionOnSet(all, S \ D) = 0
  <2>1. \A x \in S \ D : all[x] \in Nat /\ ~(all[x] > 0)
    BY <1>9
  <2>2. QED
    BY <1>10, <2>1, MassSomewhere
<1>12. SumFunctionOnSet(all, D) = words
  <2>1. D \cap (S \ D) = {} /\ D \cup (S \ D) = S /\ \A x \in D \cup (S \ D) : all[x] \in Nat
    BY <1>9
  <2>2. SumFunctionOnSet(all, D \cup (S \ D)) = SumFunctionOnSet(all, D) + SumFunctionOnSet(all, S \ D)
    BY <1>10, <2>1, SumUnion
  <2>3. SumFunctionOnSet(all, D) \in Nat
    BY <1>10, <2>1, SumType
  <2>4. SumFunctionOnSet(all, S) = SumFunctionOnSet(all, D) + 0
    BY <1>11, <2>1, <2>2, Zenon
  <2>5. QED
    BY <1>9, <2>3, <2>4
<1>13. \A x \in D : mass[x] = all[x] /\ all[x] \in Nat \ {0}
  BY <1>9
<1>14. DOMAIN mass = D
  OBVIOUS
<1> HIDE DEF mass, D
<1>15. SumFunctionOnSet(mass, D) = SumFunctionOnSet(all, D)
  BY <1>10, <1>13, SumAgree
<1>16. D # {}
  BY <1>12, SumOfNone
<1>17. QED
  BY <1>2, <1>10, <1>12, <1>13, <1>14, <1>15, <1>16 DEF Distributed

\* Outcomes in a row, the first of which is the mode.
LEMMA RowRuleFacts ==
    ASSUME NEW k \in Nat \ {0}, NEW masses \in [1 .. k + 1 -> Nat], masses[1] # 0,
           NEW words \in Nat
    PROVE  LET mass == RuleMasses(masses, words, 1, [j \in 2 .. k + 1 |-> j .. k + 1])
           IN  /\ mass \in [1 .. k + 1 -> Nat] /\ SumFunctionOnSet(mass, 1 .. k + 1) = words
               /\ \A j \in 2 .. k + 1 :
                     SumFunctionOnSet(mass, j .. k + 1) = ShareOf(masses, words, j .. k + 1)
               /\ masses[k + 1] = 0 => mass[k + 1] = 0
<1> DEFINE D == 1 .. k + 1
           A == 2 .. k + 1
           beyond == [j \in 2 .. k + 1 |-> j .. k + 1]
           mass == RuleMasses(masses, words, 1, beyond)
<1>1. IsFiniteSet(D) /\ DOMAIN masses = D /\ 1 \in D /\ k + 1 \in D /\ k + 1 \in A
      /\ A \cup {} = D \ {1} /\ A \subseteq Int /\ A \in SUBSET D
      /\ \A x \in D : masses[x] \in Nat
  <2>1. IsFiniteSet(D)
    <3>1. 1 \in Int /\ k + 1 \in Int
      OBVIOUS
    <3>2. QED
      BY <3>1, FS_Interval
  <2>2. DOMAIN masses = D /\ \A x \in D : masses[x] \in Nat
    OBVIOUS
  <2>3. 1 \in D /\ k + 1 \in D /\ k + 1 \in A /\ A \subseteq Int /\ A \in SUBSET D
    OBVIOUS
  <2>4. A \cup {} = D \ {1}
    OBVIOUS
  <2>5. QED
    BY <2>1, <2>2, <2>3, <2>4
<1>2. \A j \in A : beyond[j] = j .. k + 1 /\ j \in beyond[j] /\ beyond[j] \subseteq A
  OBVIOUS
<1>3. Closed(A, beyond) /\ Closed({}, beyond) /\ Side({}, beyond)
  BY <1>2 DEF Closed, Side
<1>4. Side(A, beyond)
  <2>1. ASSUME NEW U \in SUBSET A, U # {}, Closed(U, beyond)
        PROVE  \E x \in U : beyond[x] = U /\ \A y \in U \ {x} : x \notin beyond[y]
    <3>1. U \subseteq Int /\ IsFiniteSet(U)
      <4>1. U \in SUBSET D
        OBVIOUS
      <4>2. QED
        BY <1>1, <4>1, FS_Subset
    <3>2. PICK x \in U : \A y \in U : x <= y
      BY <2>1, <3>1, Extremes
    <3>3. beyond[x] = x .. k + 1 /\ beyond[x] \subseteq U
      BY <1>2, <2>1 DEF Closed
    <3>4. beyond[x] = U
      <4>1. \A y \in U : y \in Int /\ x \in Int /\ x <= y /\ y <= k + 1
        BY <3>1, <3>2
      <4>2. \A y \in U : y \in x .. k + 1
        BY <4>1
      <4> HIDE DEF beyond
      <4>3. QED
        BY <3>3, <4>2
    <3>5. \A y \in U \ {x} : beyond[y] = y .. k + 1 /\ x \in Int /\ y \in Int /\ x <= y /\ y # x
      BY <1>2, <3>1, <3>2
    <3> HIDE DEF beyond
    <3>6. \A y \in U \ {x} : x \notin beyond[y]
      BY <3>5
    <3>7. QED
      BY <3>4, <3>6
  <2> HIDE DEF A, beyond
  <2>2. QED
    BY <1>2, <2>1 DEF Side
<1>5. SumFunctionOnSet(masses, D) # 0
  <2>1. SumFunctionOnSet(masses, D) \in Nat
    BY <1>1, SumType
  <2>2. SumFunctionOnSet(masses, {1}) = masses[1]
    BY <1>1, UnitsOfOne, SumIsUnits, FS_Singleton
  <2>3. {1} \in SUBSET D
    BY <1>1
  <2>4. SumFunctionOnSet(masses, {1}) <= SumFunctionOnSet(masses, D)
    BY <1>1, <2>3, SumPart
  <2>5. masses[1] \in Nat
    BY <1>1
  <2> HIDE DEF D
  <2>6. QED
    BY <2>1, <2>2, <2>4, <2>5
<1> HIDE DEF beyond, D
<1>6. /\ mass \in [D -> Nat] /\ SumFunctionOnSet(mass, D) = words
      /\ \A U : (U \subseteq A \/ U \subseteq {}) /\ Closed(U, beyond) =>
            SumFunctionOnSet(mass, U) = ShareOf(masses, words, U)
  <2> DEFINE B == {}
             mode == 1
  <2>1. /\ A \cap B = {} /\ A \cup B = D \ {mode} /\ Closed(B, beyond) /\ Side(B, beyond)
        /\ mode \in D /\ mass = RuleMasses(masses, words, mode, beyond)
        /\ Closed(A, beyond) /\ Side(A, beyond)
        /\ IsFiniteSet(D) /\ DOMAIN masses = D /\ \A x \in D : masses[x] \in Nat
    BY <1>1, <1>3, <1>4
  <2> HIDE DEF A, B, mode, mass
  <2> DEFINE all == RuleMasses(masses, words, mode, beyond)
  <2>2. /\ all \in [D -> Nat] /\ SumFunctionOnSet(all, D) = words
        /\ \A U : (U \subseteq A \/ U \subseteq B) /\ Closed(U, beyond) =>
              SumFunctionOnSet(all, U) = ShareOf(masses, words, U)
    BY <1>5, <2>1, RuleFacts
  <2> HIDE DEF all
  <2>3. mass = all
    BY <2>1 DEF all
  <2>4. QED
    BY <2>2, <2>3
<1> HIDE DEF mass
<1>7. \A j \in A : SumFunctionOnSet(mass, j .. k + 1) = ShareOf(masses, words, j .. k + 1)
  <2> SUFFICES ASSUME NEW j \in A
               PROVE  SumFunctionOnSet(mass, j .. k + 1) = ShareOf(masses, words, j .. k + 1)
    OBVIOUS
  <2>1. j .. k + 1 \subseteq A
    OBVIOUS
  <2>2. \A x \in j .. k + 1 : beyond[x] = x .. k + 1 /\ x .. k + 1 \subseteq j .. k + 1
    BY <1>2, <2>1
  <2>3. Closed(j .. k + 1, beyond)
    BY <2>2 DEF Closed
  <2>4. QED
    BY <1>6, <2>1, <2>3
<1>8. ASSUME masses[k + 1] = 0 PROVE mass[k + 1] = 0
  <2>1. k + 1 .. k + 1 = {k + 1}
    OBVIOUS
  <2>2. SumFunctionOnSet(mass, {k + 1}) = ShareOf(masses, words, {k + 1})
    BY <1>1, <1>7, <2>1
  <2>3. SumFunctionOnSet(masses, {k + 1}) = 0
    <3>1. masses[k + 1] \in Nat
      BY <1>1
    <3>2. SumFunctionOnSet(masses, {k + 1}) = masses[k + 1]
      BY <3>1, UnitsOfOne, SumIsUnits, FS_Singleton
    <3>3. QED
      BY <1>8, <3>2
  <2>4. SumFunctionOnSet(mass, {k + 1}) = mass[k + 1]
    <3>1. mass[k + 1] \in Nat
      BY <1>1, <1>6
    <3>2. QED
      BY <3>1, UnitsOfOne, SumIsUnits, FS_Singleton
  <2>5. SumFunctionOnSet(masses, DOMAIN masses) \in Nat \ {0}
    BY <1>1, <1>5, SumType
  <2>6. \A t \in Nat \ {0} : (0 * words) \div t = 0
    OBVIOUS
  <2>7. QED
    BY <2>2, <2>3, <2>4, <2>5, <2>6 DEF ShareOf
<1>9. QED
  BY <1>6, <1>7, <1>8 DEF mass, beyond, D

\* The sum over the first elements of a sequence is that over their set.
Listed(order, k) == {order[j] : j \in 1 .. k}
Summands(order, mass, k) == [j \in 1 .. k |-> mass[order[j]]]

LEMMA SumAlong ==
    ASSUME NEW m \in Nat, NEW D, NEW order \in [1 .. m -> D],
           \A j, k \in 1 .. m : order[j] = order[k] => j = k,
           NEW mass, \A x \in D : mass[x] \in Nat, NEW k \in 0 .. m
    PROVE  /\ SumFunctionOnSet(Summands(order, mass, k), 1 .. k)
                = SumFunctionOnSet(mass, Listed(order, k))
           /\ SumFunctionOnSet(mass, Listed(order, k)) \in Nat
<1> DEFINE f(i) == [j \in 1 .. i |-> mass[order[j]]]
           T(i) == {order[j] : j \in 1 .. i}
           G == {i \in 0 .. m : /\ IsFiniteSet(T(i))
                                /\ SumFunctionOnSet(f(i), 1 .. i) = SumFunctionOnSet(mass, T(i))}
<1>1. 0 \in G
  <2>1. T(0) = {} /\ 1 .. 0 = {} /\ 0 \in 0 .. m
    OBVIOUS
  <2>2. SumFunctionOnSet(f(0), 1 .. 0) = 0 /\ SumFunctionOnSet(mass, T(0)) = 0
    BY <2>1, SumOfNone, Zenon
  <2>3. IsFiniteSet(T(0))
    BY <2>1, FS_EmptySet
  <2> HIDE DEF f, T
  <2>4. QED
    BY <2>1, <2>2, <2>3
<1>2. ASSUME NEW i \in 1 .. m, i - 1 \in G PROVE i \in G
  <2>1. /\ IsFiniteSet(T(i - 1))
        /\ SumFunctionOnSet(f(i - 1), 1 .. i - 1) = SumFunctionOnSet(mass, T(i - 1))
    BY <1>2
  <2>2. T(i) = T(i - 1) \cup {order[i]} /\ order[i] \notin T(i - 1)
    OBVIOUS
  <2>3. order[i] \in D /\ \A y \in T(i - 1) : y \in D
    OBVIOUS
  <2>4. SumFunctionOnSet(mass, T(i - 1) \cup {order[i]}) = SumFunctionOnSet(mass, T(i - 1)) + mass[order[i]]
    <3> HIDE DEF T
    <3>1. QED
      BY <2>1, <2>2, <2>3, SumAdd
  <2>5. /\ \A v \in 1 .. i : f(i)[v] = mass[order[v]] /\ f(i)[v] \in Nat
        /\ \A v \in 1 .. i - 1 : f(i - 1)[v] = mass[order[v]] /\ f(i - 1)[v] = f(i)[v] /\ f(i)[v] \in Nat
    OBVIOUS
  <2>6. 1 <= i /\ i \in Int /\ i - 1 \in Int
    OBVIOUS
  <2> DEFINE g == f(i)
             h == f(i - 1)
  <2>7. /\ \A v \in 1 .. i : g[v] \in Nat
        /\ \A v \in 1 .. i - 1 : g[v] \in Nat /\ g[v] = h[v]
        /\ g[i] = mass[order[i]]
    <3>1. i \in 1 .. i
      OBVIOUS
    <3> HIDE DEF f
    <3>2. QED
      BY <2>5, <3>1
  <2> HIDE DEF g, h
  <2>8. SumFunctionOnSet(g, 1 .. i) = SumFunctionOnSet(g, 1 .. i - 1) + g[i]
    BY <2>6, <2>7, SumNext
  <2>9. SumFunctionOnSet(g, 1 .. i - 1) = SumFunctionOnSet(h, 1 .. i - 1)
    BY <2>6, <2>7, SumSame
  <2>10. SumFunctionOnSet(g, 1 .. i) = SumFunctionOnSet(mass, T(i))
    <3> HIDE DEF f, T
    <3>1. SumFunctionOnSet(h, 1 .. i - 1) = SumFunctionOnSet(mass, T(i - 1))
      BY <2>1 DEF h
    <3>2. QED
      BY <2>2, <2>4, <2>7, <2>8, <2>9, <3>1, Zenon
  <2>11. IsFiniteSet(T(i))
    <3> HIDE DEF T
    <3>1. QED
      BY <2>1, <2>2, FS_AddElement
  <2> HIDE DEF T, f
  <2>12. QED
    BY <2>10, <2>11 DEF g
<1>3. k \in G
  <2> HIDE DEF G
  <2>1. QED
    BY <1>1, <1>2, EveryTurn
<1>4. SumFunctionOnSet(mass, T(k)) \in Nat
  <2>1. \A x \in T(k) : mass[x] \in Nat
    OBVIOUS
  <2>2. IsFiniteSet(T(k))
    BY <1>3
  <2> HIDE DEF T
  <2>3. QED
    BY <2>1, <2>2, SumType
<1>5. QED
  BY <1>3, <1>4 DEF Listed, Summands

\* Thresholds are one below the mass up to theirs.
Ordered(order, m, D) ==
    order \in [1 .. m -> D] /\ \A j, k \in 1 .. m : order[j] = order[k] => j = k
Massive(mass, D) == \A x \in D : mass[x] \in Nat
Exact(t, order, mass) ==
    \A k \in DOMAIN order : t[k] = SumFunctionOnSet(mass, Listed(order, k)) - 1

LEMMA ThresholdsFacts ==
    ASSUME NEW m \in Nat, NEW D, NEW order, Ordered(order, m, D), NEW mass, Massive(mass, D)
    PROVE  /\ Thresholds(order, mass) \in Seq(Int) /\ Len(Thresholds(order, mass)) = m
           /\ Exact(Thresholds(order, mass), order, mass)
<1> DEFINE t == Thresholds(order, mass)
           F(k) == SumFunctionOnSet([j \in 1 .. k |-> mass[order[j]]], 1 .. k) - 1
           S(k) == SumFunctionOnSet(mass, Listed(order, k))
<1>0. /\ order \in [1 .. m -> D] /\ \A j, k \in 1 .. m : order[j] = order[k] => j = k
      /\ \A x \in D : mass[x] \in Nat
  BY DEF Ordered, Massive
<1>1. t = [k \in 1 .. m |-> F(k)]
  BY <1>0 DEF Thresholds
<1>2. \A k \in 1 .. m : F(k) = S(k) - 1 /\ S(k) \in Nat
  <2> SUFFICES ASSUME NEW k \in 1 .. m PROVE F(k) = S(k) - 1 /\ S(k) \in Nat
    OBVIOUS
  <2> DEFINE a == SumFunctionOnSet(Summands(order, mass, k), 1 .. k)
  <2>1. k \in 0 .. m
    OBVIOUS
  <2>2. a = S(k) /\ S(k) \in Nat
    BY <1>0, <2>1, SumAlong
  <2>3. F(k) = a - 1
    BY Zenon DEF F, Summands
  <2> HIDE DEF a, S, F
  <2>4. QED
    BY <2>2, <2>3
<1> HIDE DEF F, S, t
<1>3. /\ DOMAIN t = 1 .. m /\ t \in [1 .. m -> Int]
      /\ \A k \in 1 .. m : t[k] = S(k) - 1
  BY <1>1, <1>2
<1>4. t \in Seq(Int) /\ Len(t) = m
  <2>1. t \in Seq(Int)
    BY <1>3
  <2>2. QED
    BY <1>3, <2>1
<1>5. QED
  BY <1>0, <1>3, <1>4 DEF t, S, Exact

-----------------------------------------------------------------------------
(***************************************************************************)
(* The rows of the tables.                                                 *)
(***************************************************************************)
ValuePlaces == 1 .. Far + Shifted

\* The weights of a row are positive, and some are there.
LEMMA WeightsFacts ==
    ASSUME NEW l \in DOMAIN Laws, NEW q \in Int, Support(l, q) # {}
    PROVE  /\ Support(l, q) \subseteq -Far .. Far /\ Support(l, q) \subseteq Int
           /\ IsFiniteSet(Support(l, q)) /\ DOMAIN Weights(l, q) = Support(l, q)
           /\ \A x \in Support(l, q) : Weights(l, q)[x] \in Nat \ {0}
<1> DEFINE S == Support(l, q)
           window == -Far .. Far
<1>1. S \in SUBSET window
  BY DEF Support
<1>2. IsFiniteSet(window) /\ window \subseteq Int
  <2>1. -Far \in Int /\ Far \in Int
    BY DEF Far
  <2>2. QED
    BY <2>1, FS_Interval
<1>3. \A x \in window : Weight(l, x, q) \in Nat
  BY LawsAssumption DEF Weight
<1>4. \A x \in S : Weight(l, x, q) > 0
  BY DEF Support
<1>5. DOMAIN Weights(l, q) = S /\ \A x \in S : Weights(l, q)[x] = Weight(l, x, q)
  BY DEF Weights
<1> HIDE DEF S, window
<1>6. IsFiniteSet(S)
  BY <1>1, <1>2, FS_Subset
<1>7. \A x \in S : Weights(l, q)[x] \in Nat \ {0}
  <2> SUFFICES ASSUME NEW x \in S PROVE Weights(l, q)[x] \in Nat \ {0}
    OBVIOUS
  <2>1. Weight(l, x, q) \in Nat /\ Weight(l, x, q) > 0 /\ Weights(l, q)[x] = Weight(l, x, q)
    BY <1>1, <1>3, <1>4, <1>5
  <2>2. QED
    BY <2>1
<1>8. QED
  BY <1>1, <1>2, <1>5, <1>6, <1>7 DEF S, window

\* Values as places.
LEMMA PlacesFacts ==
    ASSUME NEW m \in Nat, NEW S, S \subseteq -Far .. Far, NEW order \in [1 .. m -> S]
    PROVE  AsPlaces(order) \in Seq(ValuePlaces) /\ Len(AsPlaces(order)) = m
<1> DEFINE places == AsPlaces(order)
<1>1. \A k \in 1 .. m : order[k] + Shifted \in ValuePlaces
  <2>1. \A k \in 1 .. m : order[k] \in -Far .. Far
    OBVIOUS
  <2>2. \A x \in -Far .. Far : x + Shifted \in ValuePlaces
    BY DEF ValuePlaces, Far, Shifted
  <2>3. QED
    BY <2>1, <2>2
<1>2. places = [k \in 1 .. m |-> order[k] + Shifted]
  BY DEF AsPlaces
<1>3. places \in [1 .. m -> ValuePlaces]
  BY <1>1, <1>2
<1> HIDE DEF places
<1>4. places \in Seq(ValuePlaces)
  BY <1>3
<1>5. QED
  BY <1>3, <1>4 DEF places

\* A distribution, its values in order, has one for every word.
LEMMA OrderedSamples ==
    ASSUME NEW D, IsFiniteSet(D), D # {}, NEW before, StrictOrder(D, before),
           NEW mass, \A x \in D : mass[x] \in Nat, SumFunctionOnSet(mass, D) = HotWords
    PROVE  LET order == Sorted(D, before)
           IN  /\ order \in [1 .. Cardinality(D) -> D] /\ Cardinality(D) \in Nat \ {0}
               /\ Thresholds(order, mass) \in Seq(Int)
               /\ Len(Thresholds(order, mass)) = Cardinality(D)
               /\ Thresholds(order, mass)[Cardinality(D)] = WordMax
<1> DEFINE order == Sorted(D, before)
           m == Cardinality(D)
           t == Thresholds(order, mass)
<1>1. /\ m \in Nat /\ order \in [1 .. m -> D]
      /\ \A j, k \in 1 .. m : order[j] = order[k] => j = k
  BY SortedFacts
<1>0. \A x \in D : \E k \in 1 .. m : order[k] = x
  BY SortedFacts
<1>2. m \in Nat \ {0}
  BY <1>1, FS_EmptySet
<1> HIDE DEF order, m
<1>3. Listed(order, m) = D
  BY <1>0, <1>1 DEF Listed
<1>4. /\ t \in Seq(Int) /\ Len(t) = m
      /\ \A k \in 1 .. m : t[k] = SumFunctionOnSet(mass, Listed(order, k)) - 1
  <2>1. Ordered(order, m, D) /\ Massive(mass, D)
    BY <1>1 DEF Ordered, Massive
  <2>2. t \in Seq(Int) /\ Len(t) = m /\ Exact(t, order, mass)
    BY <1>1, <2>1, ThresholdsFacts
  <2> HIDE DEF t
  <2>3. DOMAIN order = 1 .. m
    BY <1>1
  <2>4. QED
    BY <2>2, <2>3 DEF Exact
<1>5. m \in 1 .. m
  BY <1>2
<1>6. t[m] = HotWords - 1
  BY <1>3, <1>4, <1>5
<1>7. t[m] = WordMax
  BY <1>6, LengthsAssumption DEF HotWords
<1>8. QED
  BY <1>1, <1>2, <1>4, <1>7 DEF order, m

\* Two lists, of which the first or the second ends with the maximum, have a
\* value for any two words.
LEMMA ListsSample ==
    ASSUME NEW row, NEW P, NoValue \notin P,
           row.tiny_value \in Seq(P), row.tiny_cdf \in Seq(Int),
           Len(row.tiny_cdf) = Len(row.tiny_value),
           row.tail_value \in Seq(P), row.tail_cdf \in Seq(Int),
           Len(row.tail_cdf) = Len(row.tail_value),
           \/ Len(row.tiny_value) > 0 /\ row.tiny_cdf[Len(row.tiny_value)] = WordMax
           \/ Len(row.tail_value) > 0 /\ row.tail_cdf[Len(row.tail_value)] = WordMax,
           NEW u \in Words, NEW v \in Words
    PROVE  Sample1D(row, u, v) \in P
<1> DEFINE hot == Find(u, row.tiny_value, row.tiny_cdf)
           cold == Find(v, row.tail_value, row.tail_cdf)
<1>1. /\ hot \in P \cup {NoValue}
      /\ Len(row.tiny_value) > 0 /\ row.tiny_cdf[Len(row.tiny_value)] = WordMax => hot # NoValue
  BY FindFacts
<1>2. /\ cold \in P \cup {NoValue}
      /\ Len(row.tail_value) > 0 /\ row.tail_cdf[Len(row.tail_value)] = WordMax => cold # NoValue
  BY FindFacts
<1>3. Sample1D(row, u, v) = IF hot # NoValue THEN hot ELSE cold
  BY DEF Sample1D
<1> HIDE DEF hot, cold
<1>4. QED
  BY <1>1, <1>2, <1>3

\* The tail of a generated row.
TailOf(l, q, rest) ==
    ValueRuleMasses([x \in rest |-> Weights(l, q)[x]], q, HotWords)

LEMMA TailSamples ==
    ASSUME NEW l \in DOMAIN Laws, NEW q \in Int, NEW rest \in SUBSET Support(l, q), rest # {},
           Support(l, q) # {}
    PROVE  LET tail == TailOf(l, q, rest)
               order == Nearest(DOMAIN tail, q)
           IN  /\ AsPlaces(order) \in Seq(ValuePlaces) /\ Thresholds(order, tail) \in Seq(Int)
               /\ Len(Thresholds(order, tail)) = Len(AsPlaces(order))
               /\ Len(AsPlaces(order)) > 0
               /\ Thresholds(order, tail)[Len(AsPlaces(order))] = WordMax
<1> DEFINE S == Support(l, q)
           w == [x \in rest |-> Weights(l, q)[x]]
           tail == TailOf(l, q, rest)
           D == DOMAIN tail
           order == Nearest(D, q)
           m == Cardinality(D)
<1>1. /\ rest \subseteq Int /\ rest \subseteq -Far .. Far /\ IsFiniteSet(rest)
      /\ \A x \in rest : w[x] \in Nat \ {0}
  BY WeightsFacts, FS_Subset
<1>2. DOMAIN w = rest /\ tail = ValueRuleMasses(w, q, HotWords)
  BY Zenon DEF TailOf
<1> HIDE DEF w
<1>3. HotWords \in Nat \ {0}
  BY LengthsAssumption DEF HotWords
<1>4. /\ D \subseteq rest /\ IsFiniteSet(D) /\ D # {}
      /\ \A x \in D : tail[x] \in Nat \ {0}
      /\ SumFunctionOnSet(tail, D) = HotWords
  <2> DEFINE all == ValueRuleMasses(w, q, HotWords)
  <2>1. Distributed(all, rest, HotWords)
    <3>1. /\ rest \subseteq Int /\ IsFiniteSet(rest) /\ DOMAIN w = rest
          /\ \A x \in rest : w[x] \in Nat \ {0}
      BY <1>1, <1>2
    <3>2. QED
      BY <1>3, <3>1, ValueRuleFacts
  <2> HIDE DEF all, tail
  <2>2. tail = all
    BY <1>2 DEF all
  <2>3. QED
    BY <2>1, <2>2 DEF Distributed
<1> HIDE DEF tail
<1>5. D \subseteq Int /\ D \subseteq -Far .. Far /\ \A x \in D : tail[x] \in Nat
  BY <1>1, <1>4
<1>6. StrictOrder(D, Nearer(D, q))
  BY <1>5, NearerOrder
<1> HIDE DEF D
<1>7. /\ order \in [1 .. m -> D] /\ m \in Nat \ {0}
      /\ Thresholds(order, tail) \in Seq(Int)
      /\ Len(Thresholds(order, tail)) = m
      /\ Thresholds(order, tail)[m] = WordMax
  BY <1>4, <1>5, <1>6, OrderedSamples DEF Nearest
<1> HIDE DEF order, m
<1>8. AsPlaces(order) \in Seq(ValuePlaces) /\ Len(AsPlaces(order)) = m
  BY <1>5, <1>7, PlacesFacts
<1>9. QED
  BY <1>7, <1>8 DEF order, D, tail

\* A generated row has a value for any two words.
LEMMA GeneratedSamples ==
    ASSUME NEW l \in DOMAIN Laws, NEW q \in CenterClasses, q \in Int,
           NEW u \in Words, NEW v \in Words
    PROVE  Sample1D(GeneratedRow(l, q), u, v) \in ValuePlaces
<1> DEFINE weights == Weights(l, q)
           S == Support(l, q)
           order == Nearest(DOMAIN weights, q)
           m == Len(order)
           k0 == Min({TinyLen, m})
           rest(i) == {order[j] : j \in i + 1 .. m}
           masses(i) == [j \in 1 .. i + 1 |-> IF j <= i THEN weights[order[j]]
                                              ELSE SumFunctionOnSet(weights, rest(i))]
           mass(i) == RuleMasses(masses(i), HotWords, 1, [j \in 2 .. i + 1 |-> j .. i + 1])
           none == {j \in 2 .. k0 : mass(k0)[j] = 0}
           k == IF none = {} THEN k0 ELSE Min(none) - 1
           tail == IF mass(k)[k + 1] = 0 THEN <<>> ELSE TailOf(l, q, rest(k))
           tailOrder == Nearest(DOMAIN tail, q)
           one == [j \in 1 .. k |-> j]
           row == [tiny_value |-> AsPlaces(SubSeq(order, 1, k)),
                   tiny_cdf |-> Thresholds(one, mass(k)),
                   tail_value |-> AsPlaces(tailOrder),
                   tail_cdf |-> Thresholds(tailOrder, tail)]
<1>1. GeneratedRow(l, q) = row
  BY Zenon DEF GeneratedRow, TailOf
<1> HIDE DEF row
<1>2. /\ S \subseteq -Far .. Far /\ S \subseteq Int /\ S # {} /\ IsFiniteSet(S)
      /\ DOMAIN weights = S /\ \A x \in S : weights[x] \in Nat \ {0}
  BY WeightsFacts, LawsAssumption
<1> HIDE DEF weights
<1>3. /\ order \in [1 .. m -> S] /\ order \in Seq(S) /\ m \in Nat \ {0}
      /\ \A j, i \in 1 .. m : order[j] = order[i] => j = i
  <2> DEFINE o == Nearest(S, q)
  <2>1. StrictOrder(S, Nearer(S, q))
    BY <1>2, NearerOrder
  <2>2. Cardinality(S) \in Nat \ {0}
    BY <1>2, FS_EmptySet, FS_CardinalityType
  <2>3. /\ o \in [1 .. Cardinality(S) -> S] /\ o \in Seq(S) /\ Len(o) = Cardinality(S)
        /\ \A j, i \in 1 .. Cardinality(S) : o[j] = o[i] => j = i
    BY <1>2, <2>1, SortedFacts DEF Nearest
  <2> HIDE DEF o, S
  <2>4. order = o
    BY <1>2 DEF o
  <2>5. QED
    BY <2>2, <2>3, <2>4
<1> HIDE DEF order, m, S
<1>4. k0 \in 1 .. m
  <2> DEFINE e == IF TinyLen <= m THEN TinyLen ELSE m
  <2>1. e \in {TinyLen, m} /\ \A y \in {TinyLen, m} : e <= y
    BY <1>3, LengthsAssumption
  <2>2. \A x \in {TinyLen, m} : (\A y \in {TinyLen, m} : x <= y) => x = e
    BY <1>3, LengthsAssumption
  <2>3. e \in 1 .. m
    BY <1>3, LengthsAssumption
  <2> HIDE DEF e
  <2>4. k0 = e
    BY <2>1, <2>2 DEF Min
  <2> HIDE DEF k0
  <2>5. QED
    BY <2>3, <2>4
<1> HIDE DEF k0
<1>5. k \in 1 .. k0
  <2>1. CASE none = {}
    BY <1>3, <1>4, <2>1
  <2>2. CASE none # {}
    <3>1. none \subseteq 2 .. k0 /\ none \subseteq Nat
      BY <1>3, <1>4
    <3> HIDE DEF none
    <3>2. \E x \in none : \A y \in none : x <= y
      BY <2>2, <3>1, LeastNatural
    <3>3. Min(none) \in none
      BY <3>2 DEF Min
    <3>4. Min(none) \in 2 .. k0
      BY <3>1, <3>3
    <3>5. k = Min(none) - 1
      BY <2>2
    <3> HIDE DEF k
    <3>6. QED
      BY <1>3, <1>4, <3>4, <3>5
  <2>3. QED
    BY <2>1, <2>2
<1>6. k \in Nat \ {0} /\ k \in 1 .. m /\ k \in Int
  <2> HIDE DEF k
  <2>1. QED
    BY <1>3, <1>4, <1>5
<1> HIDE DEF k, none
<1>7. /\ rest(k) \in SUBSET S
      /\ \A j \in 1 .. k : order[j] \in S
  BY <1>3, <1>6
<1>8. SumFunctionOnSet(weights, rest(k)) \in Nat
  <2>1. IsFiniteSet(rest(k)) /\ \A x \in rest(k) : weights[x] \in Nat
    BY <1>2, <1>7, FS_Subset
  <2> HIDE DEF rest
  <2>2. QED
    BY <2>1, SumType
<1>9. /\ masses(k) \in [1 .. k + 1 -> Nat] /\ masses(k)[1] # 0
      /\ masses(k)[k + 1] = SumFunctionOnSet(weights, rest(k))
  <2> DEFINE rested == SumFunctionOnSet(weights, rest(k))
             f == [j \in 1 .. k + 1 |-> IF j <= k THEN weights[order[j]] ELSE rested]
  <2>1. \A j \in 1 .. k : weights[order[j]] \in Nat \ {0}
    BY <1>2, <1>7
  <2>2. rested \in Nat
    BY <1>8
  <2>3. masses(k) = f
    OBVIOUS
  <2> HIDE DEF rested, rest
  <2>4. \A j \in 1 .. k + 1 : (IF j <= k THEN weights[order[j]] ELSE rested) \in Nat
    BY <1>6, <2>1, <2>2
  <2>5. f \in [1 .. k + 1 -> Nat]
    BY <2>4
  <2>6. 1 \in 1 .. k + 1 /\ 1 <= k /\ 1 \in 1 .. k /\ k + 1 \in 1 .. k + 1 /\ ~(k + 1 <= k)
    BY <1>6
  <2>7. f[1] = weights[order[1]] /\ f[k + 1] = rested
    BY <2>6
  <2> HIDE DEF f
  <2>8. f[1] # 0
    BY <2>1, <2>6, <2>7
  <2>9. QED
    BY <2>3, <2>5, <2>7, <2>8 DEF rested
<1> HIDE DEF masses
<1> DEFINE F == mass(k)
<1>10. /\ F \in [1 .. k + 1 -> Nat] /\ SumFunctionOnSet(F, 1 .. k + 1) = HotWords
       /\ masses(k)[k + 1] = 0 => F[k + 1] = 0
  <2> DEFINE ms == masses(k)
  <2>1. ms \in [1 .. k + 1 -> Nat] /\ ms[1] # 0 /\ HotWords \in Nat
    BY <1>9, LengthsAssumption DEF HotWords
  <2> HIDE DEF ms
  <2> DEFINE G == RuleMasses(ms, HotWords, 1, [j \in 2 .. k + 1 |-> j .. k + 1])
  <2>2. /\ G \in [1 .. k + 1 -> Nat] /\ SumFunctionOnSet(G, 1 .. k + 1) = HotWords
        /\ ms[k + 1] = 0 => G[k + 1] = 0
    BY <1>6, <2>1, RowRuleFacts
  <2>3. QED
    BY <2>2 DEF ms
<1> HIDE DEF mass
<1>11. /\ AsPlaces(SubSeq(order, 1, k)) \in Seq(ValuePlaces)
       /\ Len(AsPlaces(SubSeq(order, 1, k))) = k
  <2> DEFINE t == SubSeq(order, 1, k)
  <2>1. t \in Seq(S) /\ Len(t) = k
    <3>1. \A i \in 1 .. k : order[i] \in S
      BY <1>7
    <3>2. 1 \in Int /\ k \in Int /\ 1 <= k /\ k - 1 + 1 = k
      BY <1>6
    <3>3. t \in Seq(S) /\ Len(t) = IF 1 <= k THEN k - 1 + 1 ELSE 0
      BY <3>1, <3>2, SubSeqProperties
    <3> HIDE DEF t
    <3>4. QED
      BY <3>2, <3>3
  <2> HIDE DEF t
  <2>2. t \in [1 .. k -> S]
    BY <1>6, <2>1, LenProperties, ElementOfSeq, SeqDef
  <2>3. AsPlaces(t) \in Seq(ValuePlaces) /\ Len(AsPlaces(t)) = k
    BY <1>2, <1>6, <2>2, PlacesFacts
  <2>4. QED
    BY <2>3 DEF t
<1>12. /\ Thresholds(one, F) \in Seq(Int) /\ Len(Thresholds(one, F)) = k
       /\ F[k + 1] = 0 => Thresholds(one, F)[k] = WordMax
  <2> DEFINE D == 1 .. k + 1
  <2>1. one \in [1 .. k -> D] /\ \A i, j \in 1 .. k : one[i] = one[j] => i = j
    BY <1>6
  <2>2. \A x \in D : F[x] \in Nat
    BY <1>10
  <2>3. Listed(one, k) = 1 .. k
    BY DEF Listed
  <2> HIDE DEF one, F, D
  <2>4. /\ Thresholds(one, F) \in Seq(Int) /\ Len(Thresholds(one, F)) = k
        /\ \A i \in 1 .. k : Thresholds(one, F)[i] = SumFunctionOnSet(F, Listed(one, i)) - 1
    <3>1. k \in Nat
      BY <1>6
    <3>2. Ordered(one, k, D) /\ Massive(F, D) /\ DOMAIN one = 1 .. k
      BY <2>1, <2>2 DEF Ordered, Massive
    <3> DEFINE t == Thresholds(one, F)
    <3>3. t \in Seq(Int) /\ Len(t) = k /\ Exact(t, one, F)
      BY <3>1, <3>2, ThresholdsFacts
    <3> HIDE DEF t
    <3>4. /\ t \in Seq(Int) /\ Len(t) = k
          /\ \A i \in 1 .. k : t[i] = SumFunctionOnSet(F, Listed(one, i)) - 1
      BY <3>2, <3>3 DEF Exact
    <3>5. QED
      BY <3>4 DEF t
  <2>5. ASSUME F[k + 1] = 0 PROVE Thresholds(one, F)[k] = WordMax
    <3>1. 1 \in Int /\ k + 1 \in Int /\ 1 <= k + 1 /\ k + 1 - 1 = k /\ k \in 1 .. k /\ 1 \in 1 .. k + 1
      BY <1>6
    <3>2. SumFunctionOnSet(F, 1 .. k + 1) = SumFunctionOnSet(F, 1 .. k + 1 - 1) + F[k + 1]
      BY <2>2, <3>1, SumNext DEF D
    <3>3. SumFunctionOnSet(F, 1 .. k) \in Nat
      <4>1. IsFiniteSet(1 .. k) /\ \A x \in 1 .. k : F[x] \in Nat
        BY <1>6, <2>2, <3>1, FS_Interval DEF D
      <4>2. QED
        BY <4>1, SumType
    <3>4. Thresholds(one, F)[k] = SumFunctionOnSet(F, 1 .. k) - 1
      BY <2>3, <2>4, <3>1
    <3>5. SumFunctionOnSet(F, 1 .. k + 1) = SumFunctionOnSet(F, 1 .. k) + F[k + 1]
      BY <3>1, <3>2
    <3>6. SumFunctionOnSet(F, 1 .. k) = HotWords
      BY <1>10, <2>5, <3>3, <3>5
    <3>7. QED
      BY <3>4, <3>6, LengthsAssumption DEF HotWords
  <2>6. QED
    BY <2>4, <2>5
<1> HIDE DEF one
<1>13. /\ AsPlaces(tailOrder) \in Seq(ValuePlaces) /\ Thresholds(tailOrder, tail) \in Seq(Int)
       /\ Len(Thresholds(tailOrder, tail)) = Len(AsPlaces(tailOrder))
       /\ F[k + 1] # 0 => /\ Len(AsPlaces(tailOrder)) > 0
                          /\ Thresholds(tailOrder, tail)[Len(AsPlaces(tailOrder))] = WordMax
  <2>1. CASE F[k + 1] = 0
    <3>1. tail = <<>> /\ DOMAIN tail = {}
      BY <2>1
    <3>2. tailOrder = Nearest({}, q)
      BY <3>1
    <3> HIDE DEF tail
    <3>3. StrictOrder({}, Nearer({}, q)) /\ Cardinality({}) = 0 /\ IsFiniteSet({})
      BY FS_EmptySet DEF StrictOrder
    <3> DEFINE E == {}
    <3>4. StrictOrder(E, Nearer(E, q)) /\ Cardinality(E) = 0 /\ IsFiniteSet(E) /\ tailOrder = Sorted(E, Nearer(E, q))
      BY <3>2, <3>3 DEF Nearest
    <3> HIDE DEF E
    <3>5. tailOrder \in Seq(E) /\ Len(tailOrder) = 0
      BY <3>4, SortedFacts
    <3>6. tailOrder = <<>>
      BY <3>5, EmptySeq
    <3> HIDE DEF tailOrder
    <3>7. AsPlaces(<<>>) = <<>> /\ Thresholds(<<>>, tail) = <<>>
      BY DEF AsPlaces, Thresholds
    <3>8. AsPlaces(tailOrder) = <<>> /\ Thresholds(tailOrder, tail) = <<>>
      BY <3>6, <3>7, Zenon
    <3>9. <<>> \in Seq(ValuePlaces) /\ <<>> \in Seq(Int)
      OBVIOUS
    <3> HIDE DEF F
    <3>10. QED
      BY <2>1, <3>8, <3>9
  <2>2. CASE F[k + 1] # 0
    <3>1. rest(k) # {}
      <4>1. SumFunctionOnSet(weights, rest(k)) # 0
        BY <1>9, <1>10, <2>2
      <4> HIDE DEF rest
      <4>2. QED
        BY <4>1, SumOfNone
    <3>2. tail = TailOf(l, q, rest(k))
      BY <2>2
    <3> HIDE DEF tail, rest
    <3> DEFINE x == TailOf(l, q, rest(k))
               o == Nearest(DOMAIN x, q)
    <3>3. /\ AsPlaces(o) \in Seq(ValuePlaces) /\ Thresholds(o, x) \in Seq(Int)
          /\ Len(Thresholds(o, x)) = Len(AsPlaces(o))
          /\ Len(AsPlaces(o)) > 0
          /\ Thresholds(o, x)[Len(AsPlaces(o))] = WordMax
      BY <1>2, <1>7, <3>1, TailSamples DEF S
    <3>4. tail = x /\ tailOrder = o
      BY <3>2
    <3> HIDE DEF x, o, tailOrder
    <3>5. QED
      BY <3>3, <3>4
  <2>3. QED
    BY <2>1, <2>2
<1> HIDE DEF tail, tailOrder
<1>14. /\ row.tiny_value = AsPlaces(SubSeq(order, 1, k)) /\ row.tiny_cdf = Thresholds(one, F)
       /\ row.tail_value = AsPlaces(tailOrder) /\ row.tail_cdf = Thresholds(tailOrder, tail)
  BY DEF row
<1>15. NoValue \notin ValuePlaces
  BY DEF NoValue, ValuePlaces
<1> HIDE DEF F
<1>16. /\ row.tiny_value \in Seq(ValuePlaces) /\ row.tiny_cdf \in Seq(Int)
       /\ Len(row.tiny_cdf) = Len(row.tiny_value)
       /\ row.tail_value \in Seq(ValuePlaces) /\ row.tail_cdf \in Seq(Int)
       /\ Len(row.tail_cdf) = Len(row.tail_value)
  BY <1>11, <1>12, <1>13, <1>14
<1>17. \/ Len(row.tiny_value) > 0 /\ row.tiny_cdf[Len(row.tiny_value)] = WordMax
       \/ Len(row.tail_value) > 0 /\ row.tail_cdf[Len(row.tail_value)] = WordMax
  <2>1. Len(row.tiny_value) = k /\ k > 0
    BY <1>6, <1>11, <1>14
  <2>2. QED
    BY <1>12, <1>13, <1>14, <2>1
<1>18. QED
  BY <1>1, <1>15, <1>16, <1>17, ListsSample

\* And so has a row that is built at run time.
LEMMA RuntimeSamples ==
    ASSUME NEW l \in DOMAIN Laws, NEW q \in CenterClasses, q \in Int,
           NEW u \in Words, NEW v \in Words
    PROVE  Sample1D(RuntimeRow(l, q), u, v) \in ValuePlaces
<1> DEFINE w == [i \in ValuePlaces |-> Weight(l, i - Shifted, q)]
           S == Support(l, q)
<1>1. /\ S \subseteq -Far .. Far /\ \A x \in S : Weight(l, x, q) > 0
      /\ \A x \in -Far .. Far : Weight(l, x, q) \in Nat
  BY LawsAssumption DEF Support, Weight
<1>2. PICK x \in S : TRUE
  BY LawsAssumption
<1> HIDE DEF S
<1>3. \A i \in ValuePlaces : i - Shifted \in -Far .. Far
  BY DEF ValuePlaces, Far, Shifted
<1>4. x + Shifted \in ValuePlaces /\ (x + Shifted) - Shifted = x
  <2>1. x \in -Far .. Far
    BY <1>1, <1>2
  <2>2. QED
    BY <2>1 DEF ValuePlaces, Far, Shifted
<1>5. w \in [ValuePlaces -> Nat]
  BY <1>1, <1>3
<1>6. w[x + Shifted] \in Nat \ {0}
  <2>1. \A i \in ValuePlaces : w[i] = Weight(l, i - Shifted, q)
    OBVIOUS
  <2> HIDE DEF w
  <2>2. w[x + Shifted] = Weight(l, x, q)
    <3> DEFINE i == x + Shifted
    <3>1. i \in ValuePlaces /\ i - Shifted = x
      BY <1>4
    <3> HIDE DEF i
    <3>2. w[i] = Weight(l, i - Shifted, q)
      BY <2>1, <3>1
    <3>3. QED
      BY <3>1, <3>2, Zenon DEF i
  <2>3. Weight(l, x, q) \in Nat /\ Weight(l, x, q) > 0
    BY <1>1, <1>2
  <2>4. QED
    BY <2>2, <2>3
<1> HIDE DEF w
<1>7. w \in Seq(Nat) /\ DOMAIN w = ValuePlaces
  <2>1. w \in [1 .. Far + Shifted -> Nat] /\ Far + Shifted \in Nat
    BY <1>5 DEF ValuePlaces, Far, Shifted
  <2>2. QED
    BY <1>5, <2>1
<1>8. MassOf(w, DOMAIN w) # 0
  <2> DEFINE i == x + Shifted
  <2>1. IsFiniteSet(ValuePlaces)
    <3>1. 1 \in Int /\ Far + Shifted \in Int
      BY DEF Far, Shifted
    <3>2. QED
      BY <3>1, FS_Interval DEF ValuePlaces
  <2>2. \A y \in ValuePlaces : w[y] \in Nat
    BY <1>5
  <2> HIDE DEF i
  <2>3. i \in ValuePlaces /\ w[i] \in Nat \ {0}
    BY <1>4, <1>6 DEF i
  <2>4. SumFunctionOnSet(w, {i}) = w[i]
    BY <2>3, UnitsOfOne, SumIsUnits, FS_Singleton
  <2>5. {i} \in SUBSET ValuePlaces
    BY <2>3
  <2>6. SumFunctionOnSet(w, {i}) <= SumFunctionOnSet(w, ValuePlaces)
    BY <2>1, <2>2, <2>5, SumPart
  <2>7. SumFunctionOnSet(w, ValuePlaces) # 0
    BY <2>3, <2>4, <2>6
  <2>8. QED
    BY <1>7, <2>7, Zenon DEF MassOf
<1>9. Row(w, 0) # NoRow
  BY <1>7, <1>8, RowMade
<1>10. \A a, b \in Words : Sample1D(Row(w, 0), a, b) \in DOMAIN w
  BY <1>7, <1>9, RowFacts
<1>11. RuntimeRow(l, q) = Row(w, 0)
  BY DEF RuntimeRow, w, ValuePlaces
<1>12. QED
  BY <1>7, <1>10, <1>11

-----------------------------------------------------------------------------
(***************************************************************************)
(* What is drawn.                                                          *)
(***************************************************************************)
\* The labels of the blocks of a coset, and the classes of their coordinates.
LEMMA TauType ==
    ASSUME coset \in Cosets, NEW b \in RangeBlocks
    PROVE  Tau(b) \in Labels
<1>1. coset \in [1 .. 2 -> [Index -> {0, 1}]]
  BY SamplerAssumption
<1>2. k4 \in Nat /\ n = 4 * k4 /\ b \in Int /\ 0 <= b /\ b < k4
  BY BlockAssumption DEF k4, RangeBlocks
<1>3. \A i \in 0 .. 3 : b + i * k4 \in Index
  <2>1. /\ b + 0 * k4 \in Index /\ b + 1 * k4 \in Index
        /\ b + 2 * k4 \in Index /\ b + 3 * k4 \in Index
    BY <1>2 DEF Index
  <2>2. QED
    BY <2>1
<1>4. \A i \in Axes : Tau(b)[i] = IF i <= 4 THEN coset[1][b + (i - 1) * k4]
                                  ELSE coset[2][b + (i - 5) * k4]
  BY DEF Tau, BlockOf, Axes
<1>5. \A i \in Axes : Tau(b)[i] \in {0, 1}
  <2> SUFFICES ASSUME NEW i \in Axes PROVE Tau(b)[i] \in {0, 1}
    OBVIOUS
  <2>1. CASE i <= 4
    <3>1. i - 1 \in 0 .. 3
      BY <2>1 DEF Axes
    <3>2. b + (i - 1) * k4 \in Index
      BY <1>3, <3>1
    <3>3. QED
      BY <1>1, <1>4, <2>1, <3>2
  <2>2. CASE ~(i <= 4)
    <3>1. i - 5 \in 0 .. 3
      BY <2>2 DEF Axes
    <3>2. b + (i - 5) * k4 \in Index
      BY <1>3, <3>1
    <3>3. QED
      BY <1>1, <1>4, <2>2, <3>2
  <2>3. QED
    BY <2>1, <2>2
<1>6. QED
  BY <1>5 DEF Tau, BlockOf, Labels, Axes

LEMMA ClassType ==
    ASSUME NEW tau \in Labels, NEW c \in Components, NEW v \in Axes
    PROVE  /\ CenterNum32(Offset(tau, c), v) \in Int
           /\ TabCoordClass(tau, c)[v] = Quarters(CenterNum32(Offset(tau, c), v))
           /\ TabCoordClass(tau, c)[v] \in CenterClasses /\ TabCoordClass(tau, c)[v] \in Int
           /\ Num32(TabCoordClass(tau, c)[v]) = CenterNum32(Offset(tau, c), v)
<1> DEFINE o == Offset(tau, c)
<1>1. BaseBlock(tau, c) \in Vectors /\ o = BlockApplyP(BaseBlock(tau, c))
  BY BaseForm, OffsetOfBase
<1>2. CenterNum32(o, v) \in Int /\ Num32(Quarters(CenterNum32(o, v))) = CenterNum32(o, v)
  BY <1>1, CentersAreQuarters
<1>3. TabCoordClass(tau, c)[v] = Quarters(CenterNum32(o, v))
  BY DEF TabCoordClass
<1>4. o \in Offsets
  BY DEF Offsets
<1> HIDE DEF o
<1>5. Quarters(CenterNum32(o, v)) \in CenterClasses
  BY <1>4 DEF CenterClasses
<1>6. Quarters(CenterNum32(o, v)) \in Int
  BY <1>2 DEF Quarters
<1>7. QED
  BY <1>2, <1>3, <1>5, <1>6 DEF o

\* The first component whose threshold is not below a word.
LEMMA HotComponentType ==
    ASSUME NEW cdf, NEW u
    PROVE  HotComponent(cdf, u) \in Components
<1> DEFINE hits == {c \in Components : c = 15 \/ u <= cdf[c]}
<1>1. hits \subseteq Nat /\ hits # {} /\ hits \subseteq Components
  BY DEF Components
<1>2. PICK c \in hits : \A d \in hits : c <= d
  <2> HIDE DEF hits
  <2>1. QED
    BY <1>1, LeastNatural
<1>3. c \in Components /\ (c = 15 \/ u <= cdf[c])
  BY <1>2
<1>4. ASSUME NEW d \in 0 .. c - 1 PROVE ~(u <= cdf[d])
  <2>1. d \in Components /\ ~(c <= d)
    BY <1>3 DEF Components
  <2>2. d \notin hits
    BY <1>2, <2>1
  <2>3. QED
    BY <2>1, <2>2
<1>5. QED
  BY <1>3, <1>4 DEF HotComponent

\* A count of thresholds.
LEMMA CountType ==
    ASSUME NEW u, NEW T, NEW m \in Int, DOMAIN T = 1 .. m
    PROVE  CountBelow(u, T) \in Nat /\ (m \in Nat => CountBelow(u, T) <= m)
<1> DEFINE hits == {j \in DOMAIN T : Lt(u, T[j]) = 1}
<1>1. IsFiniteSet(1 .. m) /\ (m \in Nat => Cardinality(1 .. m) = m)
  <2>1. 1 \in Int
    OBVIOUS
  <2>2. IsFiniteSet(1 .. m) /\ Cardinality(1 .. m) = IF 1 > m THEN 0 ELSE m - 1 + 1
    BY <2>1, FS_Interval
  <2>3. QED
    BY <2>2
<1>2. hits \in SUBSET (1 .. m)
  OBVIOUS
<1> HIDE DEF hits
<1>3. IsFiniteSet(hits) /\ Cardinality(hits) <= Cardinality(1 .. m)
  BY <1>1, <1>2, FS_Subset
<1>4. Cardinality(hits) \in Nat
  BY <1>3, FS_CardinalityType
<1>5. CountBelow(u, T) = Cardinality(hits)
  BY DEF CountBelow, hits
<1>6. QED
  BY <1>1, <1>3, <1>4, <1>5

\* The components by their types, in slots.
LEMMA SlotPermFacts ==
    ASSUME NEW cls \in [Components -> [Axes -> Int]]
    PROVE  SlotPerm([c \in Components |-> Type(cls[c])]) \in [1 .. 16 -> Components]
<1> DEFINE types == [c \in Components |-> Type(cls[c])]
           before == {p \in Components \X Components :
                        \/ Lexicographic(types[p[1]], types[p[2]])
                        \/ types[p[1]] = types[p[2]] /\ p[1] < p[2]}
           t(k) == [c \in Components |-> types[c][k]]
<1>1. ASSUME NEW c \in Components
      PROVE  \E x, y, z \in Nat : types[c] = <<x, y, z>>
  <2> DEFINE count(S) == Cardinality({v \in Axes : cls[c][v] % 4 \in S})
  <2>1. \A S : count(S) \in Nat
    <3> TAKE S
    <3>1. IsFiniteSet(Axes)
      <4>1. 1 \in Int /\ 8 \in Int
        OBVIOUS
      <4>2. QED
        BY <4>1, FS_Interval DEF Axes
    <3>2. {v \in Axes : cls[c][v] % 4 \in S} \in SUBSET Axes
      OBVIOUS
    <3>3. QED
      BY <3>1, <3>2, FS_Subset, FS_CardinalityType
  <2>2. types[c] = <<count({0}), count({1, 3}), count({2})>>
    BY DEF Type
  <2> HIDE DEF count, types
  <2>3. QED
    BY <2>1, <2>2
<1> HIDE DEF types
<1>2. \A c \in Components : /\ types[c][1] \in Nat /\ types[c][2] \in Nat /\ types[c][3] \in Nat
                            /\ types[c] = <<types[c][1], types[c][2], types[c][3]>>
  BY <1>1
<1>3. \A a, b : Lexicographic(a, b) <=> \/ a[1] < b[1]
                                        \/ a[1] = b[1] /\ a[2] < b[2]
                                        \/ a[1] = b[1] /\ a[2] = b[2] /\ a[3] < b[3]
  <2> SUFFICES ASSUME NEW a, NEW b
               PROVE  Lexicographic(a, b) <=> \/ a[1] < b[1]
                                              \/ a[1] = b[1] /\ a[2] < b[2]
                                              \/ a[1] = b[1] /\ a[2] = b[2] /\ a[3] < b[3]
    OBVIOUS
  <2>1. 1 .. 3 = {1, 2, 3} /\ 1 .. 1 - 1 = {} /\ 1 .. 2 - 1 = {1} /\ 1 .. 3 - 1 = {1, 2}
    OBVIOUS
  <2>2. QED
    BY <2>1, Zenon DEF Lexicographic
<1>4. \A c, d \in Components :
         <<c, d>> \in before <=> \/ Lexicographic(types[c], types[d])
                                 \/ types[c] = types[d] /\ c < d
  OBVIOUS
<1> HIDE DEF before
<1>5. StrictOrder(Components, before)
  <2> DEFINE A(c) == types[c][1]
             B(c) == types[c][2]
             C(c) == types[c][3]
             Less(c, d) == \/ A(c) < A(d)
                           \/ A(c) = A(d) /\ B(c) < B(d)
                           \/ A(c) = A(d) /\ B(c) = B(d) /\ C(c) < C(d)
                           \/ A(c) = A(d) /\ B(c) = B(d) /\ C(c) = C(d) /\ c < d
  <2>1. \A c \in Components : A(c) \in Int /\ B(c) \in Int /\ C(c) \in Int /\ c \in Int
    BY <1>2 DEF Components
  <2>2. \A c, d \in Components : <<c, d>> \in before <=> Less(c, d)
    <3> SUFFICES ASSUME NEW c \in Components, NEW d \in Components
                 PROVE  <<c, d>> \in before <=> Less(c, d)
      OBVIOUS
    <3>1. types[c] = types[d] <=> A(c) = A(d) /\ B(c) = B(d) /\ C(c) = C(d)
      BY <1>2, Zenon
    <3>2. Lexicographic(types[c], types[d]) <=> \/ A(c) < A(d)
                                                \/ A(c) = A(d) /\ B(c) < B(d)
                                                \/ A(c) = A(d) /\ B(c) = B(d) /\ C(c) < C(d)
      BY <1>3
    <3>3. <<c, d>> \in before <=> \/ Lexicographic(types[c], types[d])
                                  \/ types[c] = types[d] /\ c < d
      BY <1>4
    <3> HIDE DEF A, B, C
    <3>4. QED
      BY <3>1, <3>2, <3>3, Zenon
  <2> HIDE DEF A, B, C
  <2>3. \A c \in Components : ~Less(c, c)
    BY <2>1
  <2>4. \A c, d \in Components : c # d => Less(c, d) \/ Less(d, c)
    BY <2>1
  <2>5. \A c, d, e \in Components : Less(c, d) /\ Less(d, e) => Less(c, e)
    BY <2>1
  <2> HIDE DEF Less
  <2>6. QED
    BY <2>2, <2>3, <2>4, <2>5 DEF StrictOrder
<1>6. IsFiniteSet(Components) /\ Cardinality(Components) = 16
  <2>1. 0 \in Int /\ 15 \in Int
    OBVIOUS
  <2>2. IsFiniteSet(0 .. 15) /\ Cardinality(0 .. 15) = IF 0 > 15 THEN 0 ELSE 15 - 0 + 1
    BY <2>1, FS_Interval
  <2>3. QED
    BY <2>2 DEF Components
<1>7. SlotPerm(types) = Sorted(Components, before)
  BY DEF SlotPerm, before
<1>8. Sorted(Components, before) \in [1 .. 16 -> Components]
  BY <1>5, <1>6, SortedFacts
<1>9. QED
  BY <1>7, <1>8 DEF types

LEMMA RefComponentType ==
    ASSUME NEW cls \in [Components -> [Axes -> Int]], NEW l, NEW u
    PROVE  LET types == [c \in Components |-> Type(cls[c])]
           IN  RefComponent(SlotPerm(types), SlotTable(l, RowClass(types)), u) \in Components
<1> DEFINE types == [c \in Components |-> Type(cls[c])]
           slots == SlotTable(l, RowClass(types))
<1>1. SlotPerm(types) \in [1 .. 16 -> Components]
  BY SlotPermFacts
<1> HIDE DEF types
<1>2. DOMAIN slots = 1 .. 15
  BY DEF SlotTable
<1> HIDE DEF slots
<1>3. CountBelow(u, slots) + 1 \in 1 .. 16
  <2>1. 15 \in Int /\ 15 \in Nat
    OBVIOUS
  <2>2. CountBelow(u, slots) \in Nat /\ CountBelow(u, slots) <= 15
    BY <1>2, <2>1, CountType
  <2>3. QED
    BY <2>2
<1>4. QED
  BY <1>1, <1>3 DEF RefComponent, slots, types

\* A value of the reference tables is a number.
LEMMA RefValueType ==
    ASSUME NEW l \in DOMAIN Laws, NEW num32 \in Int, NEW u
    PROVE  RefValue(RefRows(l), num32, u) \in Int
<1> DEFINE kk == (num32 + 32) \div 8
           q == kk % 4
           mass == ValueRuleMasses(Weights(l, q), q, RefWords)
           D == DOMAIN mass
           lo == Min(D)
           hi == Max(D)
           T == [k \in 1 .. hi - lo |-> SumFunctionOnSet(mass, lo + k .. hi)]
<1>1. kk \in Int /\ q \in 0 .. 3 /\ q \in Int
  OBVIOUS
<1> HIDE DEF kk, q
<1>2. /\ Support(l, q) # {} /\ Support(l, q) \subseteq Int /\ IsFiniteSet(Support(l, q))
      /\ DOMAIN Weights(l, q) = Support(l, q)
      /\ \A x \in Support(l, q) : Weights(l, q)[x] \in Nat \ {0}
  <2>1. Support(l, q) # {}
    BY <1>1, LawsAssumption
  <2>2. QED
    BY <1>1, <2>1, WeightsFacts
<1>3. Distributed(mass, Support(l, q), RefWords)
  BY <1>1, <1>2, RefAssumption, ValueRuleFacts
<1> HIDE DEF mass
<1>4. D \subseteq Int /\ IsFiniteSet(D) /\ D # {}
  BY <1>2, <1>3 DEF Distributed
<1> HIDE DEF D
<1>5. lo \in Int
  <2>1. PICK x \in D : \A y \in D : x <= y
    BY <1>4, Extremes
  <2>2. lo \in D
    BY <2>1 DEF Min
  <2>3. QED
    BY <1>4, <2>2
<1>6. hi \in Int
  <2>1. PICK x \in D : \A y \in D : y <= x
    BY <1>4, Extremes
  <2>2. hi \in D
    BY <2>1 DEF Max
  <2>3. QED
    BY <1>4, <2>2
<1> HIDE DEF lo, hi
<1>7. DOMAIN T = 1 .. hi - lo /\ hi - lo \in Int
  BY <1>5, <1>6
<1>8. SurvivalTable(l, q) = [lo_value |-> lo, T |-> T]
  BY Zenon DEF SurvivalTable, mass, D, lo, hi
<1> HIDE DEF T
<1>9. CountBelow(u, T) \in Nat
  BY <1>7, CountType
<1>10. RefRows(l)[q] = [lo_value |-> lo, T |-> T]
  BY <1>1, <1>8 DEF RefRows
<1>11. RefValue(RefRows(l), num32, u) = kk \div 4 - 1 + lo + CountBelow(u, T)
  BY <1>10 DEF RefValue, kk, q
<1> DEFINE below == CountBelow(u, T)
<1>12. below \in Int /\ kk \div 4 \in Int
  BY <1>1, <1>9
<1> HIDE DEF below
<1>13. QED
  BY <1>5, <1>11, <1>12 DEF below

-----------------------------------------------------------------------------
(***************************************************************************)
(* The invariant of a range.                                               *)
(***************************************************************************)
\* What stays from the start of a range.
FixedOK ==
    /\ variant \in Variants /\ law \in DOMAIN Laws /\ coset \in Cosets /\ per_block \in BOOLEAN
    /\ stage \notin {"start", "call"} => seed \in Seeds
    /\ classes = [b \in RangeBlocks |-> [c \in Components |-> TabCoordClass(Tau(b), c)]]
    /\ stage # "start" => tables = TablesOf
    /\ stage \in {"start", "call"} => per_block = FALSE

\* A block with some of its coordinates: its norm so far is that of its offset
\* with their shares.
BlockOK ==
    LET offset == Offset(Tau(r), component)
    IN  /\ component \in Components
        /\ center = [v \in Axes |-> CenterNum32(offset, v)]
        /\ coords \in Seq(Int) /\ Len(coords) \in 0 .. 8
        /\ n2 = NormOf(offset) + Upto(Shares(offset, coords), Len(coords))

StageOK ==
    /\ stage \in {"start", "call", "range", "component", "coords", "write", "done"}
    /\ r \in 0 .. k4
    /\ stage \in {"start", "call"} => r = 0
    /\ stage \in {"component", "coords", "write"} => r \in RangeBlocks
    /\ stage = "done" => r = k4
    /\ stage \in {"coords", "write"} => BlockOK
    /\ stage = "coords" => Len(coords) # 8
    /\ stage = "write" => Len(coords) = 8

\* Words are read for the blocks before, for the component and for coordinates.
WordsOK ==
    variant # "ref" =>
       /\ pos \in Nat
       /\ pos <= BlockWords * r + (IF stage = "coords" THEN 1 + 2 * Len(coords)
                                   ELSE IF stage = "write" THEN BlockWords ELSE 0)

\* A reader of which a number of draws was used: it has read whole groups, and
\* holds the last one if that has draws left.
Reader(p, k, g, stream, used) ==
    /\ p = 5 * ((used + 3) \div 4)
    /\ k = IF used % 4 = 0 THEN 4 ELSE used % 4
    /\ used % 4 # 0 => g = ReadGroup(stream, 5 * (used \div 4))

First == IF per_block THEN 0 ELSE 9 * r
Used == IF stage = "coords" THEN First + 1 + Len(coords)
        ELSE IF stage = "write" THEN First + 9 ELSE First
ReaderOK ==
    variant = "ref" /\ (per_block => stage \in {"component", "coords", "write"}) =>
       Reader(pos, next, group, Stream, Used)

DrawsOK ==
    variant = "ref" /\ stage \in {"coords", "write"} =>
       /\ component = RefComponent(tables.slot_perm[r], tables.slots[r], DrawAt(Stream, First))
       /\ \A v \in 1 .. Len(coords) :
             coords[v] = RefValue(tables.rows, center[v], DrawAt(Stream, First + v))

\* The blocks that are written, with the sum of their norms.
WrittenOK ==
    /\ zout = [b \in RangeBlocks |-> zout[b]]
    /\ \A b \in 0 .. r - 1 : zout[b] \in Vectors /\ BlockNorm2(zout[b]) \in Nat
    /\ norm2 = SumFunctionOnSet([b \in RangeBlocks |-> BlockNorm2(zout[b])], 0 .. r - 1)

RangeInv == FixedOK /\ StageOK /\ WordsOK /\ ReaderOK /\ DrawsOK /\ WrittenOK /\ RangeExact

\* A coordinate's share joins those before it.
LEMMA UptoNext ==
    ASSUME NEW k \in 0 .. 7, NEW s, NEW s2,
           \A v \in 1 .. k : s[v] \in Int /\ s2[v] = s[v], s2[k + 1] \in Int
    PROVE  Upto(s2, k + 1) = Upto(s, k) + s2[k + 1]
<1>1. CASE k = 0
  BY <1>1 DEF Upto
<1>2. CASE k = 1
  BY <1>2 DEF Upto
<1>3. CASE k = 2
  BY <1>3 DEF Upto
<1>4. CASE k = 3
  BY <1>4 DEF Upto
<1>5. CASE k = 4
  BY <1>5 DEF Upto
<1>6. CASE k = 5
  BY <1>6 DEF Upto
<1>7. CASE k = 6
  BY <1>7 DEF Upto
<1>8. CASE k = 7
  BY <1>8 DEF Upto
<1>9. QED
  BY <1>1, <1>2, <1>3, <1>4, <1>5, <1>6, <1>7, <1>8

\* The next draw of a reader, and the reader after it.
LEMMA DrawnFacts ==
    ASSUME NEW used \in Nat, Reader(pos, next, group, Stream, used)
    PROVE  /\ Drawn.u = DrawAt(Stream, used)
           /\ Reader(Drawn.pos, Drawn.next, Drawn.group, Stream, used + 1)
<1> DEFINE a == used \div 4
           b == used % 4
           g == ReadGroup(Stream, 5 * a)
           st == Stream
<1>1. a \in Nat /\ b \in 0 .. 3 /\ used = 4 * a + b
  OBVIOUS
<1>2. /\ pos = 5 * ((used + 3) \div 4) /\ next = (IF b = 0 THEN 4 ELSE b)
      /\ b # 0 => group = g
  BY DEF Reader
<1>3. \A k \in 0 .. 3 : g[k] = [lo |-> Low(RefWord(st, 5 * a + k)),
                                hi |-> Lane(RefWord(st, 5 * a + 4), k)]
  BY DEF ReadGroup
<1>4. DrawAt(st, used) = [lo |-> Low(RefWord(st, 5 * a + b)), hi |-> Lane(RefWord(st, 5 * a + 4), b)]
  BY Zenon DEF DrawAt
<1>5. g[b] = DrawAt(st, used)
  BY <1>1, <1>3, <1>4
<1> HIDE DEF g, st, a, b
<1>6. CASE b = 0
  <2>1. (used + 3) \div 4 = a /\ (used + 1 + 3) \div 4 = a + 1 /\ (used + 1) % 4 = 1
        /\ (used + 1) \div 4 = a
    BY <1>1, <1>6
  <2>2. next = 4 /\ pos = 5 * a /\ ReadGroup(Stream, pos) = g
    BY <1>2, <1>6, <2>1 DEF g
  <2>3. Drawn = [u |-> g[0], group |-> g, next |-> 1, pos |-> pos + 5]
    BY <2>2, Zenon DEF Drawn
  <2>4. /\ Drawn.u = g[0] /\ Drawn.group = g /\ Drawn.next = 1 /\ Drawn.pos = pos + 5
    BY <2>3
  <2>5. pos + 5 = 5 * (a + 1)
    BY <1>1, <2>2
  <2>6. Reader(Drawn.pos, Drawn.next, Drawn.group, Stream, used + 1)
    BY <2>1, <2>4, <2>5 DEF Reader, g
  <2>7. QED
    BY <1>5, <1>6, <2>4, <2>6 DEF st
<1>7. CASE b # 0
  <2>1. /\ (used + 3) \div 4 = a + 1 /\ (used + 1 + 3) \div 4 = a + 1
        /\ b = 3 => (used + 1) % 4 = 0
        /\ b # 3 => (used + 1) % 4 = b + 1 /\ (used + 1) \div 4 = a
    BY <1>1, <1>7
  <2>2. next = b /\ next # 4 /\ group = g /\ pos = 5 * (a + 1)
    BY <1>1, <1>2, <1>7, <2>1
  <2>3. Drawn = [u |-> group[next], group |-> group, next |-> next + 1, pos |-> pos]
    BY <2>2, Zenon DEF Drawn
  <2>4. /\ Drawn.u = g[b] /\ Drawn.group = g /\ Drawn.next = b + 1 /\ Drawn.pos = 5 * (a + 1)
    BY <2>2, <2>3
  <2>5. CASE b = 3
    <3>1. Drawn.next = 4
      BY <2>4, <2>5
    <3>2. Reader(Drawn.pos, Drawn.next, Drawn.group, Stream, used + 1)
      BY <2>1, <2>4, <2>5, <3>1 DEF Reader
    <3>3. QED
      BY <1>5, <2>4, <3>2 DEF st
  <2>6. CASE b # 3
    <3>1. b + 1 # 0
      BY <1>1
    <3>2. Reader(Drawn.pos, Drawn.next, Drawn.group, Stream, used + 1)
      BY <2>1, <2>4, <2>6, <3>1 DEF Reader, g
    <3>3. QED
      BY <1>5, <2>4, <3>2 DEF st
  <2>7. QED
    BY <2>5, <2>6
<1>8. QED
  BY <1>6, <1>7

\* What does not change while a range does not.
LEMMA TablesStay ==
    ASSUME UNCHANGED <<variant, law, coset, classes, component_mass>>
    PROVE  TablesOf' = TablesOf /\ \A b : Tau(b)' = Tau(b)
<1>1. /\ variant' = variant /\ law' = law /\ coset' = coset
      /\ classes' = classes /\ component_mass' = component_mass
  OBVIOUS
<1>2. \A b : Tau(b)' = Tau(b)
  BY <1>1 DEF Tau
<1>3. TablesOf' = TablesOf
  BY <1>1, Zenon DEF TablesOf, RefTables
<1>4. QED
  BY <1>2, <1>3

LEMMA FixedStays ==
    ASSUME UNCHANGED fixed
    PROVE  /\ \A b : Tau(b)' = Tau(b)
           /\ TablesOf' = TablesOf
           /\ \A stream, at : ReadGroup(stream, at)' = ReadGroup(stream, at)
           /\ \A stream, i : DrawAt(stream, i)' = DrawAt(stream, i)
           /\ /\ variant' = variant /\ law' = law /\ per_block' = per_block /\ coset' = coset
              /\ seed' = seed /\ classes' = classes /\ tables' = tables
<1>1. /\ variant' = variant /\ law' = law /\ per_block' = per_block /\ coset' = coset /\ seed' = seed
      /\ classes' = classes /\ component_mass' = component_mass /\ tables' = tables
  BY DEF fixed
<1>2. TablesOf' = TablesOf /\ \A b : Tau(b)' = Tau(b)
  BY <1>1, TablesStay
<1>3. \A stream, at : ReadGroup(stream, at)' = ReadGroup(stream, at)
  BY <1>1, Zenon DEF ReadGroup, RefWord
<1>4. \A stream, i : DrawAt(stream, i)' = DrawAt(stream, i)
  BY <1>1, Zenon DEF DrawAt, RefWord
<1>5. QED
  BY <1>1, <1>2, <1>3, <1>4

LEMMA FixedKept ==
    ASSUME FixedOK, UNCHANGED fixed, stage \notin {"start", "call"}, stage' \notin {"start", "call"}
    PROVE  FixedOK'
<1>1. /\ variant' = variant /\ law' = law /\ per_block' = per_block /\ coset' = coset /\ seed' = seed
      /\ classes' = classes /\ tables' = tables /\ TablesOf' = TablesOf /\ \A b : Tau(b)' = Tau(b)
  BY FixedStays
<1>2. classes' = [b \in RangeBlocks |-> [c \in Components |-> TabCoordClass(Tau(b)', c)]]
  BY <1>1, Zenon DEF FixedOK
<1>3. tables' = TablesOf'
  BY <1>1, Zenon DEF FixedOK
<1>4. QED
  BY <1>1, <1>2, <1>3 DEF FixedOK

LEMMA WrittenKept ==
    ASSUME WrittenOK, UNCHANGED <<r, zout, norm2>>
    PROVE  WrittenOK'
BY DEF WrittenOK

LEMMA BlocksType == k4 \in Nat /\ n = 4 * k4 /\ RangeBlocks = 0 .. k4 - 1
BY BlockAssumption DEF k4, RangeBlocks

-----------------------------------------------------------------------------
LEMMA RangeInit == InitRange => RangeInv
<1> SUFFICES ASSUME InitRange PROVE RangeInv
  OBVIOUS
<1>1. /\ stage = "start" /\ r = 0 /\ pos = 0 /\ next = 4 /\ per_block = FALSE /\ norm2 = 0
      /\ zout = [b \in RangeBlocks |-> NoBlock]
  BY DEF InitRange
<1>2. FixedOK
  BY DEF InitRange, FixedOK
<1>3. StageOK
  BY <1>1, BlocksType DEF StageOK
<1>4. WordsOK
  BY <1>1 DEF WordsOK, BlockWords
<1>5. ReaderOK
  <2>1. Used = 0
    BY <1>1 DEF Used, First
  <2>2. QED
    BY <1>1, <2>1 DEF ReaderOK, Reader
<1>6. DrawsOK
  BY <1>1 DEF DrawsOK
<1>7. WrittenOK
  <2>1. 0 .. r - 1 = {}
    BY <1>1
  <2>2. SumFunctionOnSet([b \in RangeBlocks |-> BlockNorm2(zout[b])], {}) = 0
    BY SumOfNone
  <2>3. norm2 = SumFunctionOnSet([b \in RangeBlocks |-> BlockNorm2(zout[b])], 0 .. r - 1)
    BY <1>1, <2>1, <2>2, Zenon
  <2>4. QED
    BY <1>1, <2>1, <2>3 DEF WrittenOK
<1>8. RangeExact
  BY <1>1 DEF RangeExact
<1>9. QED
  BY <1>2, <1>3, <1>4, <1>5, <1>6, <1>7, <1>8 DEF RangeInv

LEMMA GetTablesStep ==
    ASSUME RangeInv, GetTables
    PROVE  RangeInv'
<1>1. /\ stage = "start" /\ stage' = "call" /\ tables' = TablesOf
      /\ variant' = variant /\ law' = law /\ per_block' = per_block /\ coset' = coset /\ seed' = seed
      /\ classes' = classes /\ component_mass' = component_mass
      /\ r' = r /\ pos' = pos /\ group' = group /\ next' = next /\ zout' = zout /\ norm2' = norm2
  BY DEF GetTables
<1>2. r = 0
  BY <1>1 DEF RangeInv, StageOK
<1>3. FixedOK'
  <2>1. TablesOf' = TablesOf /\ \A b : Tau(b)' = Tau(b)
    BY <1>1, TablesStay
  <2>2. FixedOK
    BY DEF RangeInv
  <2>3. classes' = [b \in RangeBlocks |-> [c \in Components |-> TabCoordClass(Tau(b)', c)]]
    BY <1>1, <2>1, <2>2, Zenon DEF FixedOK
  <2>4. tables' = TablesOf'
    BY <1>1, <2>1
  <2>5. QED
    BY <1>1, <2>2, <2>3, <2>4 DEF FixedOK
<1>4. StageOK'
  BY <1>1, <1>2, BlocksType DEF StageOK
<1>5. WordsOK'
  BY <1>1 DEF RangeInv, WordsOK
<1>6. ReaderOK'
  <2>1. ReaderOK
    BY DEF RangeInv
  <2>2. Used' = Used /\ Stream' = Stream
    BY <1>1 DEF Used, First, Stream
  <2>3. (\A stream, at : ReadGroup(stream, at)' = ReadGroup(stream, at))
    BY <1>1, Zenon DEF ReadGroup, RefWord
  <2>4. QED
    BY <1>1, <2>1, <2>2, <2>3 DEF ReaderOK, Reader
<1>7. DrawsOK'
  BY <1>1 DEF DrawsOK
<1>8. WrittenOK'
  BY <1>1, WrittenKept DEF RangeInv
<1>9. RangeExact'
  BY <1>1 DEF RangeExact
<1>10. QED
  BY <1>3, <1>4, <1>5, <1>6, <1>7, <1>8, <1>9 DEF RangeInv

LEMMA StartRangeStep ==
    ASSUME RangeInv, StartRange
    PROVE  RangeInv'
<1>1. /\ stage = "call" /\ stage' = "range" /\ per_block' \in BOOLEAN /\ seed' \in Seeds
      /\ variant' = variant /\ law' = law /\ coset' = coset
      /\ classes' = classes /\ component_mass' = component_mass /\ tables' = tables
      /\ r' = r /\ pos' = pos /\ group' = group /\ next' = next /\ zout' = zout /\ norm2' = norm2
  BY DEF StartRange
<1>2. r = 0
  BY <1>1 DEF RangeInv, StageOK
<1>3. FixedOK'
  <2>1. TablesOf' = TablesOf /\ \A b : Tau(b)' = Tau(b)
    BY <1>1, TablesStay
  <2>2. FixedOK
    BY DEF RangeInv
  <2>3. classes' = [b \in RangeBlocks |-> [c \in Components |-> TabCoordClass(Tau(b)', c)]]
    BY <1>1, <2>1, <2>2, Zenon DEF FixedOK
  <2>4. tables' = TablesOf'
    BY <1>1, <2>1, <2>2, Zenon DEF FixedOK
  <2>5. QED
    BY <1>1, <2>2, <2>3, <2>4 DEF FixedOK
<1>4. StageOK'
  BY <1>1, <1>2, BlocksType DEF StageOK
<1>5. WordsOK'
  BY <1>1 DEF RangeInv, WordsOK
<1>6. ReaderOK'
  <2>1. ReaderOK
    BY DEF RangeInv
  <2>2. ASSUME variant' = "ref", ~per_block'
        PROVE  Reader(pos, next, group, Stream, Used)'
    <3>1. Used = 0 /\ Used' = 0
      BY <1>1, <1>2, <2>2 DEF Used, First
    <3>2. Reader(pos, next, group, Stream, Used) => pos = 5 * ((0 + 3) \div 4) /\ next = 4
      BY <3>1 DEF Reader
    <3>3. pos = 0 /\ next = 4
      <4>1. per_block = FALSE
        BY <1>1 DEF RangeInv, FixedOK
      <4>2. Reader(pos, next, group, Stream, Used)
        BY <1>1, <2>1, <2>2, <4>1 DEF ReaderOK
      <4>3. QED
        BY <3>2, <4>2
    <3>4. QED
      BY <1>1, <3>1, <3>3 DEF Reader
  <2>3. QED
    BY <1>1, <2>2 DEF ReaderOK
<1>7. DrawsOK'
  BY <1>1 DEF DrawsOK
<1>8. WrittenOK'
  BY <1>1, WrittenKept DEF RangeInv
<1>9. RangeExact'
  BY <1>1, <1>2 DEF RangeExact
<1>10. QED
  BY <1>3, <1>4, <1>5, <1>6, <1>7, <1>8, <1>9 DEF RangeInv

\* The draws of a block stay while it is made.
LEMMA DrawsStay ==
    ASSUME UNCHANGED fixed, r' = r
    PROVE  /\ Stream' = Stream /\ First' = First
           /\ \A v : DrawAt(Stream, First + v)' = DrawAt(Stream, First + v)
           /\ DrawAt(Stream, First)' = DrawAt(Stream, First)
           /\ \A p, k, g, used : Reader(p, k, g, Stream, used)' <=> Reader(p, k, g, Stream, used)
<1>1. /\ per_block' = per_block
      /\ \A stream, at : ReadGroup(stream, at)' = ReadGroup(stream, at)
      /\ \A stream, i : DrawAt(stream, i)' = DrawAt(stream, i)
  BY FixedStays
<1>2. Stream' = Stream /\ First' = First
  BY <1>1 DEF Stream, First
<1>3. \A p, k, g, used : Reader(p, k, g, Stream, used)' <=> Reader(p, k, g, Stream, used)
  BY <1>1, <1>2 DEF Reader
<1>4. QED
  BY <1>1, <1>2, <1>3

LEMMA OpenBlockStep ==
    ASSUME RangeInv, OpenBlock
    PROVE  RangeInv'
<1>1. /\ stage = "range" /\ stage' = "component" /\ r \in RangeBlocks /\ UNCHANGED fixed
      /\ r' = r /\ zout' = zout /\ norm2' = norm2
      /\ per_block => pos' = 0 /\ next' = 4
      /\ ~per_block => pos' = pos /\ next' = next /\ group' = group
  BY DEF OpenBlock
<1>2. variant' = variant /\ per_block' = per_block /\ per_block \in BOOLEAN
  BY <1>1, FixedStays DEF RangeInv, FixedOK
<1>3. FixedOK'
  BY <1>1, FixedKept DEF RangeInv
<1>4. StageOK'
  BY <1>1 DEF RangeInv, StageOK
<1>5. WordsOK'
  <2>1. r \in Nat
    BY <1>1, BlocksType
  <2>2. WordsOK
    BY DEF RangeInv
  <2>3. variant # "ref" => pos' \in Nat /\ pos' <= BlockWords * r
    BY <1>1, <1>2, <2>1, <2>2 DEF WordsOK, BlockWords
  <2>4. QED
    BY <1>1, <1>2, <2>1, <2>3 DEF WordsOK, BlockWords
<1>6. ReaderOK'
  <2>1. ASSUME variant = "ref"
        PROVE  Reader(pos, next, group, Stream, Used)'
    <3>1. Used' = First' /\ Used = First
      BY <1>1 DEF Used
    <3>2. CASE per_block
      <4>1. First' = 0 /\ pos' = 0 /\ next' = 4
        BY <1>1, <1>2, <3>2 DEF First
      <4>2. QED
        BY <3>1, <4>1 DEF Reader
    <3>3. CASE ~per_block
      <4>1. Reader(pos, next, group, Stream, Used)
        BY <2>1, <3>3 DEF RangeInv, ReaderOK
      <4>2. First' = First
        BY <1>1, DrawsStay
      <4>3. Reader(pos, next, group, Stream, Used)'
        BY <1>1, <3>1, <3>3, <4>1, <4>2, DrawsStay
      <4>4. QED
        BY <4>3
    <3>4. QED
      BY <1>2, <3>2, <3>3
  <2>2. QED
    BY <1>2, <2>1 DEF ReaderOK
<1>7. DrawsOK'
  BY <1>1 DEF DrawsOK
<1>8. WrittenOK'
  BY <1>1, WrittenKept DEF RangeInv
<1>9. RangeExact'
  BY <1>1 DEF RangeExact
<1>10. QED
  BY <1>3, <1>4, <1>5, <1>6, <1>7, <1>8, <1>9 DEF RangeInv

\* A block begins with the centres and the norm of its offset.
LEMMA BlockBegins ==
    ASSUME RangeInv, stage = "component", NEW c \in Components, BeginBlock(c)
    PROVE  /\ BlockOK' /\ FixedOK' /\ StageOK' /\ WrittenOK' /\ RangeExact'
           /\ component' = c /\ coords' = <<>> /\ stage' = "coords"
           /\ r' = r /\ UNCHANGED fixed
<1> DEFINE tau == BlockOf(coset, r)
           offset == Offset(tau, c)
<1>1. /\ component' = c /\ coords' = <<>> /\ stage' = "coords" /\ r' = r /\ UNCHANGED fixed
      /\ zout' = zout /\ norm2' = norm2
  BY DEF BeginBlock
<1>2. coset \in Cosets /\ r \in RangeBlocks /\ coset' = coset
  BY <1>1, FixedStays DEF RangeInv, FixedOK, StageOK
<1>3. tau \in Labels /\ Tau(r) = tau
  BY <1>2, TauType DEF Tau
<1>4. /\ offset \in Vectors /\ BlockApplyP(BaseBlock(tau, c)) = offset
      /\ \A v \in Axes : /\ TabCoordClass(tau, c)[v] = Quarters(CenterNum32(offset, v))
                         /\ Num32(TabCoordClass(tau, c)[v]) = CenterNum32(offset, v)
  BY <1>3, OffsetOfBase, ClassType
<1>5. classes[r][c] = TabCoordClass(tau, c)
  BY <1>2, <1>3 DEF RangeInv, FixedOK
<1>6. center' = [v \in Axes |-> CenterNum32(offset, v)]
  <2>1. CASE variant = "ref"
    BY <1>3, <1>4, <2>1 DEF BeginBlock
  <2>2. CASE variant # "ref"
    <3>1. center' = [v \in Axes |-> Num32(TabCoordClass(tau, c)[v])]
      BY <1>5, <2>2 DEF BeginBlock
    <3>2. QED
      BY <1>4, <3>1
  <2>3. QED
    BY <2>1, <2>2
<1>7. n2' = NormOf(offset)
  BY <1>3, <1>4 DEF BeginBlock, TabBaseNorm2
<1>8. NormOf(offset) \in Int
  BY <1>4, DotType DEF NormOf
<1>9. BlockOK'
  <2>1. Len(coords') = 0 /\ coords' \in Seq(Int)
    BY <1>1
  <2>2. \A s : Upto(s, 0) = 0
    BY DEF Upto
  <2>3. Upto(Shares(offset, coords'), Len(coords')) = 0
    BY <2>1, <2>2
  <2>4. n2' = NormOf(offset) + Upto(Shares(offset, coords'), Len(coords'))
    BY <1>7, <1>8, <2>3
  <2>5. Offset(Tau(r)', component') = offset
    BY <1>1, <1>2 DEF Tau
  <2>6. QED
    BY <1>1, <1>6, <2>1, <2>4, <2>5 DEF BlockOK
<1>10. FixedOK'
  BY <1>1, FixedKept DEF RangeInv
<1>11. StageOK'
  <2>1. Len(coords') = 0
    BY <1>1
  <2>2. QED
    BY <1>1, <1>2, <1>9, <2>1 DEF RangeInv, StageOK
<1>12. WrittenOK'
  BY <1>1, WrittenKept DEF RangeInv
<1>13. RangeExact'
  BY <1>1 DEF RangeExact
<1>14. QED
  BY <1>1, <1>9, <1>10, <1>11, <1>12, <1>13

LEMMA HotPickStep ==
    ASSUME RangeInv, HotPick
    PROVE  RangeInv'
<1>1. /\ stage = "component" /\ variant # "ref" /\ pos' = pos + 1
      /\ BeginBlock(HotComponent(tables.cdf[r], HotWord(pos)))
  BY DEF HotPick
<1>2. /\ FixedOK' /\ StageOK' /\ WrittenOK' /\ RangeExact'
      /\ coords' = <<>> /\ stage' = "coords" /\ r' = r /\ UNCHANGED fixed
  BY <1>1, HotComponentType, BlockBegins
<1>3. variant' = variant
  BY <1>2, FixedStays
<1>4. WordsOK'
  <2>1. pos \in Nat /\ pos <= BlockWords * r
    <3>1. WordsOK /\ r \in Nat
      BY BlocksType DEF RangeInv, StageOK
    <3>2. QED
      BY <1>1, <3>1 DEF WordsOK, BlockWords
  <2>2. Len(coords') = 0 /\ r \in Nat
    BY <1>2, BlocksType DEF RangeInv, StageOK
  <2>3. QED
    BY <1>1, <1>2, <2>1, <2>2 DEF WordsOK, BlockWords
<1>5. ReaderOK' /\ DrawsOK'
  BY <1>1, <1>3 DEF ReaderOK, DrawsOK
<1>6. QED
  BY <1>2, <1>4, <1>5 DEF RangeInv

\* The classes of a range are those of its tables, in integers.
LEMMA RangeClasses ==
    ASSUME FixedOK, NEW b \in RangeBlocks
    PROVE  classes[b] \in [Components -> [Axes -> Int]]
<1>1. Tau(b) \in Labels
  BY TauType DEF FixedOK
<1>2. \A c \in Components : TabCoordClass(Tau(b), c) = [v \in Axes |-> Quarters(CenterNum32(Offset(Tau(b), c), v))]
  BY DEF TabCoordClass
<1>3. \A c \in Components : \A v \in Axes : TabCoordClass(Tau(b), c)[v] \in Int
  BY <1>1, ClassType
<1>4. \A c \in Components : TabCoordClass(Tau(b), c) \in [Axes -> Int]
  BY <1>2, <1>3
<1>5. classes[b] = [c \in Components |-> TabCoordClass(Tau(b), c)]
  BY DEF FixedOK
<1>6. QED
  BY <1>4, <1>5

LEMMA RefPickStep ==
    ASSUME RangeInv, RefPick
    PROVE  RangeInv'
<1> DEFINE c == RefComponent(tables.slot_perm[r], tables.slots[r], Drawn.u)
<1>1. /\ stage = "component" /\ variant = "ref" /\ BeginBlock(c)
      /\ pos' = Drawn.pos /\ group' = Drawn.group /\ next' = Drawn.next
  BY DEF RefPick
<1>2. r \in RangeBlocks /\ FixedOK
  BY <1>1 DEF RangeInv, StageOK
<1>3. c \in Components
  <2> DEFINE types == [b \in RangeBlocks |-> [d \in Components |-> Type(classes[b][d])]]
  <2>1. tables = RefTables
    BY <1>1, <1>2, Zenon DEF FixedOK, TablesOf
  <2>2. tables.slot_perm[r] = SlotPerm(types[r]) /\ tables.slots[r] = SlotTable(law, RowClass(types[r]))
    BY <1>2, <2>1, Zenon DEF RefTables
  <2>3. types[r] = [d \in Components |-> Type(classes[r][d])]
    BY <1>2
  <2>4. classes[r] \in [Components -> [Axes -> Int]]
    BY <1>2, RangeClasses
  <2>5. QED
    BY <2>2, <2>3, <2>4, RefComponentType
<1>4. /\ FixedOK' /\ StageOK' /\ WrittenOK' /\ RangeExact' /\ component' = c
      /\ coords' = <<>> /\ stage' = "coords" /\ r' = r /\ UNCHANGED fixed
  BY <1>1, <1>3, BlockBegins
<1>5. variant' = variant /\ tables' = tables /\ per_block' = per_block
  BY <1>4, FixedStays
<1>6. Used = First /\ First \in Nat /\ Len(coords') = 0 /\ Used' = First + 1
  <2>1. First \in Nat
    BY <1>2, BlocksType DEF First
  <2>2. Len(coords') = 0 /\ First' = First
    BY <1>4, DrawsStay
  <2>3. QED
    BY <1>1, <1>4, <2>1, <2>2 DEF Used
<1>7. Drawn.u = DrawAt(Stream, First) /\ Reader(Drawn.pos, Drawn.next, Drawn.group, Stream, First + 1)
  <2>1. Reader(pos, next, group, Stream, First)
    BY <1>1, <1>6 DEF RangeInv, ReaderOK
  <2>2. QED
    BY <1>6, <2>1, DrawnFacts
<1>8. WordsOK'
  BY <1>1, <1>5 DEF WordsOK
<1>9. ReaderOK'
  BY <1>1, <1>4, <1>6, <1>7, DrawsStay DEF ReaderOK
<1>10. DrawsOK'
  <2>1. DrawAt(Stream, First)' = DrawAt(Stream, First)
    BY <1>4, DrawsStay
  <2>2. component' = RefComponent(tables'.slot_perm[r'], tables'.slots[r'], DrawAt(Stream, First)')
    BY <1>4, <1>5, <1>7, <2>1
  <2>3. 1 .. Len(coords') = {}
    BY <1>6
  <2>4. QED
    BY <2>2, <2>3 DEF DrawsOK
<1>11. QED
  BY <1>4, <1>8, <1>9, <1>10 DEF RangeInv

\* The shares up to a coordinate are numbers.
LEMMA UptoType ==
    ASSUME NEW k \in 0 .. 8, NEW s, \A v \in 1 .. k : s[v] \in Int
    PROVE  Upto(s, k) \in Int
<1> DEFINE part(v) == IF v <= k THEN s[v] ELSE 0
<1>1. \A v \in 1 .. 8 : part(v) \in Int
  OBVIOUS
<1>2. Upto(s, k) = part(1) + part(2) + part(3) + part(4) + part(5) + part(6) + part(7) + part(8)
  BY DEF Upto
<1> HIDE DEF part
<1>3. QED
  BY <1>1, <1>2

\* Where a block still lacks a coordinate.
LEMMA NextPlace ==
    ASSUME NEW k \in 0 .. 8, k # 8
    PROVE  /\ k \in 0 .. 7 /\ k \in Nat /\ k + 1 \in Axes /\ k + 1 \in 0 .. 8 /\ k + 1 # 0
           /\ \A v \in 1 .. k : v \in Axes
           /\ k = 7 <=> k + 1 = 8
BY DEF Axes

\* A coordinate joins those of its block.
LEMMA CoordinateJoins ==
    ASSUME RangeInv, stage = "coords", NEW x \in Int, Coordinate(x)
    PROVE  /\ BlockOK' /\ FixedOK' /\ StageOK' /\ WrittenOK' /\ RangeExact'
           /\ Len(coords) \in 0 .. 7 /\ Len(coords') = Len(coords) + 1
           /\ coords'[Len(coords) + 1] = x /\ \A v \in 1 .. Len(coords) : coords'[v] = coords[v]
           /\ stage' = (IF Len(coords) = 7 THEN "write" ELSE "coords")
           /\ r' = r /\ component' = component /\ center' = center /\ UNCHANGED fixed
<1> DEFINE offset == Offset(Tau(r), component)
           k == Len(coords)
           s == Shares(offset, coords)
           s2 == Shares(offset, coords')
<1>1. /\ coords' = Append(coords, x) /\ n2' = n2 + NormShare(x, center[k + 1])
      /\ stage' = (IF k = 7 THEN "write" ELSE "coords")
      /\ UNCHANGED fixed /\ r' = r /\ component' = component /\ center' = center
      /\ zout' = zout /\ norm2' = norm2
  BY DEF Coordinate
<1>2. /\ r \in RangeBlocks /\ coset \in Cosets /\ component \in Components
      /\ center = [v \in Axes |-> CenterNum32(offset, v)]
      /\ coords \in Seq(Int) /\ k \in 0 .. 8 /\ k # 8 /\ n2 = NormOf(offset) + Upto(s, k)
  <2>1. FixedOK /\ StageOK /\ BlockOK
    BY DEF RangeInv, StageOK
  <2>2. QED
    BY <2>1 DEF FixedOK, StageOK, BlockOK
<1>3. /\ coords' \in Seq(Int) /\ Len(coords') = k + 1
      /\ coords'[k + 1] = x /\ \A v \in 1 .. k : coords'[v] = coords[v] /\ coords[v] \in Int
  <2>1. \A v \in 1 .. k : coords[v] \in Int
    BY <1>2
  <2>2. /\ coords' \in Seq(Int) /\ Len(coords') = k + 1
        /\ coords'[k + 1] = x /\ \A v \in 1 .. k : coords'[v] = coords[v]
    BY <1>1, <1>2, AppendProperties
  <2>3. QED
    BY <2>1, <2>2
<1>4. offset \in Vectors /\ \A v \in Axes : CenterNum32(offset, v) \in Int
  BY <1>2, TauType, OffsetOfBase, ClassType
<1>5. Offset(Tau(r), component)' = offset
  BY <1>1, FixedStays DEF Tau
<1> HIDE DEF offset, k
<1>6. /\ k \in 0 .. 7 /\ k \in Nat /\ k + 1 \in Axes /\ k + 1 \in 0 .. 8 /\ k + 1 # 0
      /\ \A v \in 1 .. k : v \in Axes
      /\ k = 7 <=> k + 1 = 8
  BY <1>2, NextPlace
<1>7. \A v \in 1 .. k : s[v] \in Int /\ s2[v] = s[v]
  <2>1. \A v \in 1 .. k : v \in Axes
    BY <1>6, Zenon
  <2>2. \A v \in 1 .. k : s[v] = NormShare(coords[v], CenterNum32(offset, v))
                         /\ s2[v] = NormShare(coords'[v], CenterNum32(offset, v))
    BY <2>1 DEF Shares
  <2>3. \A a, b \in Int : NormShare(a, b) \in Int
    BY DEF NormShare
  <2>4. QED
    BY <1>3, <1>4, <2>1, <2>2, <2>3
<1>8. k + 1 \in Axes
  BY <1>6
<1>9. s2[k + 1] = NormShare(x, center[k + 1]) /\ s2[k + 1] \in Int
  <2>1. s2[k + 1] = NormShare(coords'[k + 1], CenterNum32(offset, k + 1))
    BY <1>8 DEF Shares
  <2>2. s2[k + 1] = NormShare(x, CenterNum32(offset, k + 1))
    BY <1>3, <2>1
  <2>3. center[k + 1] = CenterNum32(offset, k + 1) /\ CenterNum32(offset, k + 1) \in Int
    BY <1>2, <1>4, <1>8
  <2>4. \A a, b \in Int : NormShare(a, b) \in Int
    BY DEF NormShare
  <2>5. QED
    BY <2>2, <2>3, <2>4
<1>10. n2' = NormOf(offset) + Upto(s2, k + 1)
  <2>3. NormOf(offset) \in Int
    BY <1>4, DotType DEF NormOf
  <2>4. n2' = (NormOf(offset) + Upto(s, k)) + s2[k + 1]
    BY <1>1, <1>2, <1>9
  <2> HIDE DEF s, s2
  <2>1. Upto(s2, k + 1) = Upto(s, k) + s2[k + 1]
    BY <1>6, <1>7, <1>9, UptoNext
  <2>2. Upto(s, k) \in Int
    BY <1>2, <1>7, UptoType
  <2>5. QED
    BY <1>9, <2>1, <2>2, <2>3, <2>4
<1>11. BlockOK'
  <2>1. Len(coords') \in 0 .. 8
    BY <1>3, <1>6
  <2>2. n2' = NormOf(offset) + Upto(Shares(offset, coords'), Len(coords'))
    BY <1>3, <1>10
  <2>3. center' = [v \in Axes |-> CenterNum32(offset, v)] /\ component' \in Components
    BY <1>1, <1>2
  <2>4. QED
    BY <1>3, <1>5, <2>1, <2>2, <2>3 DEF BlockOK
<1>12. FixedOK'
  BY <1>1, FixedKept DEF RangeInv
<1>13. StageOK'
  <2>1. /\ k = 7 => Len(coords') = 8
        /\ k # 7 => Len(coords') # 8
    BY <1>3, <1>6
  <2>2. r' \in 0 .. k4 /\ r' \in RangeBlocks
    BY <1>1, <1>2 DEF RangeInv, StageOK
  <2>3. QED
    BY <1>1, <1>11, <2>1, <2>2 DEF StageOK
<1>14. WrittenOK'
  BY <1>1, WrittenKept DEF RangeInv
<1>15. RangeExact'
  BY <1>1 DEF RangeExact
<1>16. QED
  BY <1>1, <1>3, <1>6, <1>11, <1>12, <1>13, <1>14, <1>15 DEF k

\* The words of a block are there.
LEMMA WordsThere ==
    ASSUME FixedOK, stage = "coords", r \in RangeBlocks, NEW at \in 0 .. BlockWords * k4
    PROVE  HotWord(at) \in Words
<1>1. seed \in Seeds
  BY DEF FixedOK
<1>2. Stream \in 0 .. k4
  <2>1. k4 \in Nat /\ r \in 0 .. k4 - 1
    BY BlocksType
  <2>2. QED
    BY <2>1 DEF Stream, BlockStream, WorkerStream
<1>3. WordOf(seed, Stream, at) \in Nat
  BY <1>1, <1>2, SamplerAssumption
<1>4. HotWords \in Nat \ {0} /\ HotWords = WordMax + 1 /\ WordMax \in Nat
  BY LengthsAssumption DEF HotWords
<1> DEFINE w == WordOf(seed, Stream, at)
<1> HIDE DEF w
<1>5. \A m \in Nat : m % HotWords \in 0 .. WordMax
  BY <1>4
<1>6. QED
  BY <1>3, <1>5 DEF HotWord, Words

LEMMA HotCoordinateStep ==
    ASSUME RangeInv, HotCoordinate
    PROVE  RangeInv'
<1> DEFINE k == Len(coords)
           row == tables.rows[Quarters(center[k + 1])]
           at == Sample1D(row, HotWord(pos), HotWord(pos + 1))
           hit == Find(HotWord(pos), row.tiny_value, row.tiny_cdf) # NoValue
<1>1. /\ stage = "coords" /\ variant # "ref"
      /\ pos' = pos + (IF hit THEN 1 ELSE 2)
      /\ IF at = NoValue
         THEN stage' = "failed" /\ UNCHANGED <<fixed, r, block, zout, norm2>>
         ELSE Coordinate(at - Shifted)
  BY DEF HotCoordinate
<1>2. FixedOK /\ StageOK /\ BlockOK /\ WordsOK /\ r \in RangeBlocks
  BY <1>1 DEF RangeInv, StageOK
<1>3. k \in 0 .. 7 /\ k + 1 \in Axes /\ k \in Nat
  <2>1. k \in 0 .. 8 /\ k # 8
    BY <1>1, <1>2 DEF StageOK, BlockOK
  <2> HIDE DEF k
  <2>2. QED
    BY <2>1, NextPlace
<1>4. /\ pos \in Nat /\ pos <= 17 * r + 1 + 2 * k
      /\ r \in Nat /\ r + 1 <= k4 /\ k4 \in Nat
  <2>1. pos \in Nat /\ pos <= BlockWords * r + (1 + 2 * k)
    BY <1>1, <1>2 DEF WordsOK
  <2>2. r \in Nat /\ r + 1 <= k4 /\ k4 \in Nat
    BY <1>2, BlocksType
  <2>3. QED
    BY <1>3, <2>1, <2>2 DEF BlockWords
<1>5. pos \in 0 .. BlockWords * k4 /\ pos + 1 \in 0 .. BlockWords * k4
  <2> HIDE DEF k
  <2>1. pos + 1 <= 17 * r + 17 /\ 17 * r + 17 <= 17 * k4 /\ 17 * k4 \in Nat
    BY <1>3, <1>4
  <2>2. QED
    BY <1>4, <2>1 DEF BlockWords
<1>6. HotWord(pos) \in Words /\ HotWord(pos + 1) \in Words
  BY <1>1, <1>2, <1>5, WordsThere
<1> DEFINE q == Quarters(center[k + 1])
<1>7. q \in CenterClasses /\ q \in Int
  <2>1. Tau(r) \in Labels /\ component \in Components
    BY <1>2, TauType DEF FixedOK, BlockOK
  <2>2. center[k + 1] = CenterNum32(Offset(Tau(r), component), k + 1)
    BY <1>2, <1>3 DEF BlockOK
  <2>3. q = TabCoordClass(Tau(r), component)[k + 1]
    BY <1>3, <2>1, <2>2, ClassType
  <2>4. QED
    BY <1>3, <2>1, <2>3, ClassType
<1>8. at \in ValuePlaces
  <2>1. law \in DOMAIN Laws /\ variant \in {"hot", "runtime"} /\ tables = TablesOf
    BY <1>1, <1>2 DEF FixedOK, Variants
  <2>2. CASE variant = "hot"
    <3>1. tables.rows = HotRows(law)
      BY <2>1, <2>2 DEF TablesOf, HotTables
    <3>2. row = GeneratedRow(law, q)
      BY <1>7, <3>1 DEF HotRows
    <3>3. QED
      BY <1>6, <1>7, <2>1, <3>2, GeneratedSamples
  <2>3. CASE variant = "runtime"
    <3>1. tables.rows = RuntimeRows(law)
      BY <2>1, <2>3 DEF TablesOf, HotTables
    <3>2. row = RuntimeRow(law, q)
      BY <1>7, <3>1 DEF RuntimeRows
    <3>3. QED
      BY <1>6, <1>7, <2>1, <3>2, RuntimeSamples
  <2>4. QED
    BY <2>1, <2>2, <2>3
<1> HIDE DEF at, hit, row, q
<1>9. at # NoValue /\ at - Shifted \in Int
  BY <1>8 DEF ValuePlaces, Shifted, Far, NoValue
<1>10. Coordinate(at - Shifted)
  BY <1>1, <1>9
<1>11. /\ FixedOK' /\ StageOK' /\ WrittenOK' /\ RangeExact'
       /\ Len(coords') = k + 1 /\ stage' = (IF k = 7 THEN "write" ELSE "coords")
       /\ r' = r /\ UNCHANGED fixed
  BY <1>1, <1>9, <1>10, CoordinateJoins
<1>12. variant' = variant
  BY <1>11, FixedStays
<1>13. WordsOK'
  <2>1. pos' \in Nat /\ pos' <= 17 * r + 3 + 2 * k
    BY <1>1, <1>3, <1>4
  <2>2. CASE k = 7
    BY <1>4, <1>11, <2>1, <2>2 DEF WordsOK, BlockWords
  <2>3. CASE k # 7
    BY <1>3, <1>4, <1>11, <2>1, <2>3 DEF WordsOK, BlockWords
  <2>4. QED
    BY <2>2, <2>3
<1>14. ReaderOK' /\ DrawsOK'
  BY <1>1, <1>12 DEF ReaderOK, DrawsOK
<1>15. QED
  BY <1>11, <1>13, <1>14 DEF RangeInv

LEMMA RefCoordinateStep ==
    ASSUME RangeInv, RefCoordinate
    PROVE  RangeInv'
<1> DEFINE k == Len(coords)
           x == RefValue(tables.rows, center[k + 1], Drawn.u)
<1>1. /\ stage = "coords" /\ variant = "ref" /\ Coordinate(x)
      /\ pos' = Drawn.pos /\ group' = Drawn.group /\ next' = Drawn.next
  BY DEF RefCoordinate
<1>2. FixedOK /\ StageOK /\ BlockOK /\ ReaderOK /\ DrawsOK /\ r \in RangeBlocks
  BY <1>1 DEF RangeInv, StageOK
<1>3. k \in 0 .. 7 /\ k + 1 \in Axes /\ k \in Nat
  <2>1. k \in 0 .. 8 /\ k # 8
    BY <1>1, <1>2 DEF StageOK, BlockOK
  <2> HIDE DEF k
  <2>2. QED
    BY <2>1, NextPlace
<1>4. center[k + 1] \in Int
  <2>1. Tau(r) \in Labels /\ component \in Components
    BY <1>2, TauType DEF FixedOK, BlockOK
  <2>2. center[k + 1] = CenterNum32(Offset(Tau(r), component), k + 1)
    BY <1>2, <1>3 DEF BlockOK
  <2>3. QED
    BY <1>3, <2>1, <2>2, ClassType
<1>5. x \in Int
  <2>1. law \in DOMAIN Laws /\ tables = RefTables
    BY <1>1, <1>2 DEF FixedOK, TablesOf
  <2>2. tables.rows = RefRows(law)
    BY <2>1, Zenon DEF RefTables
  <2>3. QED
    BY <1>4, <2>1, <2>2, RefValueType
<1>6. /\ FixedOK' /\ StageOK' /\ WrittenOK' /\ RangeExact'
      /\ Len(coords') = k + 1 /\ stage' = (IF k = 7 THEN "write" ELSE "coords")
      /\ coords'[k + 1] = x /\ \A v \in 1 .. k : coords'[v] = coords[v]
      /\ r' = r /\ component' = component /\ center' = center /\ UNCHANGED fixed
  BY <1>1, <1>5, CoordinateJoins
<1>7. variant' = variant /\ tables' = tables /\ per_block' = per_block
  BY <1>6, FixedStays
<1> HIDE DEF k
<1>8. Used = First + 1 + k /\ First \in Nat /\ Used \in Nat /\ Used' = First + 1 + k + 1
  <2>1. First \in Nat
    BY <1>2, BlocksType DEF First
  <2>2. First' = First
    BY <1>6, DrawsStay
  <2>3. k = 7 => Used' = First + 9
    BY <1>6, <2>2 DEF Used, k
  <2>4. k # 7 => Used' = First + 1 + (k + 1)
    BY <1>6, <2>2 DEF Used, k
  <2>5. Used = First + 1 + k
    BY <1>1 DEF Used, k
  <2>6. QED
    BY <1>3, <2>1, <2>3, <2>4, <2>5
<1>9. Drawn.u = DrawAt(Stream, Used) /\ Reader(Drawn.pos, Drawn.next, Drawn.group, Stream, Used + 1)
  <2>1. Reader(pos, next, group, Stream, Used)
    BY <1>1, <1>2 DEF ReaderOK
  <2>2. QED
    BY <1>8, <2>1, DrawnFacts
<1>10. WordsOK'
  BY <1>1, <1>7 DEF WordsOK
<1>11. ReaderOK'
  <2>1. Used' = Used + 1
    BY <1>3, <1>8
  <2>2. QED
    BY <1>1, <1>6, <1>9, <2>1, DrawsStay DEF ReaderOK
<1>12. DrawsOK'
  <2>1. /\ DrawAt(Stream, First)' = DrawAt(Stream, First)
        /\ \A v : DrawAt(Stream, First + v)' = DrawAt(Stream, First + v)
    BY <1>6, DrawsStay
  <2>2. component' = RefComponent(tables'.slot_perm[r'], tables'.slots[r'], DrawAt(Stream, First)')
    BY <1>1, <1>2, <1>6, <1>7, <2>1 DEF DrawsOK
  <2>3. \A v \in 1 .. k : coords'[v] = RefValue(tables'.rows, center'[v], DrawAt(Stream, First + v)')
    BY <1>1, <1>2, <1>6, <1>7, <2>1 DEF DrawsOK, k
  <2>4. Used = First + (k + 1)
    BY <1>3, <1>8
  <2>5. coords'[k + 1] = RefValue(tables.rows, center[k + 1], DrawAt(Stream, First + (k + 1)))
    BY <1>6, <1>9, <2>4 DEF k
  <2> HIDE DEF x
  <2>7. \A v \in 1 .. k + 1 : coords'[v] = RefValue(tables'.rows, center'[v], DrawAt(Stream, First + v)')
    <3>1. SUFFICES ASSUME NEW v \in 1 .. k + 1
                   PROVE  coords'[v] = RefValue(tables'.rows, center'[v], DrawAt(Stream, First + v)')
      OBVIOUS
    <3>2. CASE v = k + 1
      BY <1>6, <1>7, <2>1, <2>5, <3>2
    <3>3. CASE v # k + 1
      <4>1. v \in 1 .. k
        BY <1>3, <3>3
      <4>2. QED
        BY <2>3, <4>1
    <3>4. QED
      BY <3>2, <3>3
  <2>8. QED
    BY <1>6, <2>2, <2>7 DEF DrawsOK
<1>13. QED
  BY <1>6, <1>10, <1>11, <1>12 DEF RangeInv

\* The place of a block in a range, and its coefficient, from an index.
LEMMA PlaceOf ==
    ASSUME NEW d \in Nat \ {0}, NEW b \in 0 .. d - 1, NEW i \in 0 .. 3
    PROVE  (b + i * d) % d = b /\ (b + i * d) \div d = i
<1> DEFINE u == b + i * d
<1>1. /\ i = 0 => i * d = 0
      /\ i = 1 => i * d = d
      /\ i = 2 => i * d = 2 * d
      /\ i = 3 => i * d = 3 * d
  OBVIOUS
<1>2. i * d = d * i /\ i * d \in Nat
  BY <1>1
<1>3. u \in Nat /\ u = d * i + b
  BY <1>2
<1> HIDE DEF u
<1>4. u \div d \in Nat /\ u % d \in 0 .. d - 1 /\ u = d * (u \div d) + (u % d)
  BY <1>3
<1>5. u \div d = i
  <2> DEFINE e == u \div d
             f == u % d
  <2>1. e \in Nat /\ f \in 0 .. d - 1 /\ d * e + f = d * i + b
    BY <1>3, <1>4
  <2> HIDE DEF e, f
  <2>2. e <= i => d * e <= d * i
    BY <2>1, MulMono
  <2>3. i <= e => d * i <= d * e
    BY <2>1, MulMono
  <2>4. i + 1 <= e => d * (i + 1) <= d * e
    BY <2>1, MulMono
  <2>5. e + 1 <= i => d * (e + 1) <= d * i
    BY <2>1, MulMono
  <2>6. d * (i + 1) = d * i + d /\ d * (e + 1) = d * e + d /\ d * i \in Nat /\ d * e \in Nat
    BY <2>1
  <2>7. e = i
    BY <2>1, <2>4, <2>5, <2>6
  <2>8. QED
    BY <2>7 DEF e
<1>6. u % d = b
  BY <1>2, <1>3, <1>4, <1>5
<1>7. QED
  BY <1>5, <1>6 DEF u

\* The blocks of a vector that is made of blocks are those.
LEMMA BlocksOfBlocks ==
    ASSUME NEW out, NEW b \in RangeBlocks, out[b] \in Vectors
    PROVE  BlockOf(FromBlocks(out), b) = out[b]
<1>1. /\ k4 \in Nat \ {0} /\ n = 4 * k4 /\ b \in 0 .. k4 - 1
  BY BlocksType
<1>2. \A i \in 0 .. 3 : b + i * k4 \in Index
  <2>1. /\ b + 0 * k4 \in Index /\ b + 1 * k4 \in Index
        /\ b + 2 * k4 \in Index /\ b + 3 * k4 \in Index
    BY <1>1 DEF Index
  <2>2. QED
    BY <2>1
<1>3. \A i \in 0 .. 3 : (b + i * k4) % k4 = b /\ (b + i * k4) \div k4 = i
  BY <1>1, PlaceOf
<1>4. \A i \in 0 .. 3 : /\ FromBlocks(out)[1][b + i * k4] = out[b][i + 1]
                       /\ FromBlocks(out)[2][b + i * k4] = out[b][i + 5]
  <2> SUFFICES ASSUME NEW i \in 0 .. 3
               PROVE  /\ FromBlocks(out)[1][b + i * k4] = out[b][i + 1]
                      /\ FromBlocks(out)[2][b + i * k4] = out[b][i + 5]
    OBVIOUS
  <2> DEFINE u == b + i * k4
  <2>1. u \in Index /\ u % k4 = b /\ u \div k4 = i
    BY <1>2, <1>3
  <2> HIDE DEF u
  <2>2. /\ FromBlocks(out)[1][u] = out[u % k4][u \div k4 + 1 + 4 * (1 - 1)]
        /\ FromBlocks(out)[2][u] = out[u % k4][u \div k4 + 1 + 4 * (2 - 1)]
    BY <2>1 DEF FromBlocks
  <2>3. i + 1 + 4 * (1 - 1) = i + 1 /\ i + 1 + 4 * (2 - 1) = i + 5
    OBVIOUS
  <2>4. QED
    BY <2>1, <2>2, <2>3 DEF u
<1>5. \A v \in Axes : BlockOf(FromBlocks(out), b)[v] = out[b][v]
  <2> SUFFICES ASSUME NEW v \in Axes PROVE BlockOf(FromBlocks(out), b)[v] = out[b][v]
    OBVIOUS
  <2>1. BlockOf(FromBlocks(out), b)[v] = IF v <= 4 THEN FromBlocks(out)[1][b + (v - 1) * k4]
                                         ELSE FromBlocks(out)[2][b + (v - 5) * k4]
    BY DEF BlockOf, Axes
  <2>2. CASE v <= 4
    <3>1. v - 1 \in 0 .. 3 /\ (v - 1) + 1 = v
      BY <2>2 DEF Axes
    <3>2. QED
      BY <1>4, <2>1, <2>2, <3>1
  <2>3. CASE ~(v <= 4)
    <3>1. v - 5 \in 0 .. 3 /\ (v - 5) + 5 = v
      BY <2>3 DEF Axes
    <3>2. QED
      BY <1>4, <2>1, <2>3, <3>1
  <2>4. QED
    BY <2>2, <2>3
<1>6. BlockOf(FromBlocks(out), b) = [v \in Axes |-> BlockOf(FromBlocks(out), b)[v]]
  BY DEF BlockOf, Axes
<1>7. out[b] = [v \in Axes |-> out[b][v]]
  BY DEF Vectors
<1>8. QED
  BY <1>5, <1>6, <1>7

LEMMA EndRangeStep ==
    ASSUME RangeInv, EndRange
    PROVE  RangeInv'
<1>1. /\ stage = "range" /\ r \notin RangeBlocks /\ stage' = "done" /\ UNCHANGED fixed
      /\ r' = r /\ pos' = pos /\ group' = group /\ next' = next /\ zout' = zout /\ norm2' = norm2
  BY DEF EndRange
<1>2. variant' = variant /\ per_block' = per_block
  BY <1>1, FixedStays
<1>3. r = k4 /\ k4 \in Nat /\ RangeBlocks = 0 .. r - 1
  BY <1>1, BlocksType DEF RangeInv, StageOK
<1>4. FixedOK'
  BY <1>1, FixedKept DEF RangeInv
<1>5. StageOK'
  BY <1>1, <1>3 DEF StageOK
<1>6. WordsOK'
  BY <1>1, <1>2 DEF RangeInv, WordsOK
<1>7. ReaderOK'
  <2>1. Used' = First' /\ Used = First
    BY <1>1 DEF Used
  <2>2. First' = First
    BY <1>1, DrawsStay
  <2>3. ASSUME variant = "ref", ~per_block
        PROVE  Reader(pos, next, group, Stream, Used)'
    <3>1. Reader(pos, next, group, Stream, Used)
      BY <2>3 DEF RangeInv, ReaderOK
    <3>2. QED
      BY <1>1, <2>1, <2>2, <3>1, DrawsStay
  <2>4. QED
    BY <1>1, <1>2, <2>3 DEF ReaderOK
<1>8. DrawsOK'
  BY <1>1 DEF DrawsOK
<1>9. WrittenOK'
  BY <1>1, WrittenKept DEF RangeInv
<1>10. RangeExact'
  <2>1. \A b \in RangeBlocks : zout[b] \in Vectors
    BY <1>3 DEF RangeInv, WrittenOK
  <2>2. \A b \in RangeBlocks : BlockOf(FromBlocks(zout), b) = zout[b]
    BY <2>1, BlocksOfBlocks
  <2>3. norm2 = Total([b \in RangeBlocks |-> BlockNorm2(zout[b])], RangeBlocks)
    BY <1>3 DEF RangeInv, WrittenOK, Total
  <2>4. QED
    BY <1>1, <2>2, <2>3 DEF RangeExact
<1>11. QED
  BY <1>4, <1>5, <1>6, <1>7, <1>8, <1>9, <1>10 DEF RangeInv

LEMMA WriteBlockStep ==
    ASSUME RangeInv, WriteBlock
    PROVE  RangeInv'
<1>1. PICK b \in RangeBlocks : b = r
  BY DEF RangeInv, StageOK, WriteBlock
<1> DEFINE tau == Tau(b)
           z == ReconstructZ(BaseBlock(tau, component), coords)
           norms == [d \in RangeBlocks |-> BlockNorm2(zout[d])]
<1>2. FixedOK /\ StageOK /\ BlockOK /\ WrittenOK /\ Len(coords) = 8 /\ stage = "write"
  BY DEF RangeInv, StageOK, WriteBlock
<1>3. b \in Nat /\ b \in 0 .. k4 - 1 /\ k4 \in Nat
  BY BlocksType
<1>4. /\ tau \in Labels /\ component \in Components /\ coords \in Vectors
      /\ n2 = NormOf(Offset(tau, component)) + Upto(Shares(Offset(tau, component), coords), 8)
  <2>1. coords \in Vectors
    BY <1>2, LenProperties DEF BlockOK, Vectors, Axes
  <2>2. tau \in Labels
    BY <1>2, TauType DEF FixedOK
  <2>3. QED
    BY <1>1, <1>2, <2>1, <2>2 DEF BlockOK
<1>5. /\ z \in Vectors
      /\ \A v \in Axes :
            /\ z[v] % 2 = tau[v]
            /\ Dot(BlockApplyP(z), ProductBasis[v]) - Dot(Offset(tau, component), ProductBasis[v])
                  = 32 * coords[v]
      /\ SolveP(ReconstructX(Offset(tau, component), coords), tau) = z
      /\ Syndrome([v \in Axes |-> ((z[v] - tau[v]) \div 2) % 2]) = component
      /\ n2 = BlockNorm2(z) /\ BlockNorm2(z) \in Nat
  BY <1>4, BlockMade
<1> HIDE DEF z
<1>6. /\ zout' = [zout EXCEPT ![b] = z] /\ norm2' = norm2 + n2 /\ stage' = "range" /\ r' = b + 1
      /\ UNCHANGED fixed /\ pos' = pos /\ group' = group /\ next' = next
      /\ component' = component /\ coords' = coords /\ center' = center /\ n2' = n2
  <2>1. ~(n2 < 0)
    BY <1>5
  <2>2. QED
    BY <1>1, <2>1 DEF WriteBlock, block, z
<1>7. /\ variant' = variant /\ per_block' = per_block /\ tables' = tables /\ \A d : Tau(d)' = Tau(d)
      /\ \A stream, i : DrawAt(stream, i)' = DrawAt(stream, i)
      /\ \A stream, at : ReadGroup(stream, at)' = ReadGroup(stream, at)
  BY <1>6, FixedStays
<1>8. FixedOK'
  BY <1>2, <1>6, FixedKept
<1>9. StageOK'
  BY <1>3, <1>6 DEF StageOK
<1>10. WordsOK'
  <2>1. variant # "ref" => pos \in Nat /\ pos <= 17 * b + 17
    BY <1>1, <1>2 DEF RangeInv, WordsOK, BlockWords
  <2>2. QED
    BY <1>3, <1>6, <1>7, <2>1 DEF WordsOK, BlockWords
<1>11. Used = First + 9
  BY <1>2 DEF Used
<1>12. ReaderOK'
  <2>1. ASSUME variant = "ref", ~per_block
        PROVE  Reader(pos, next, group, Stream, Used)'
    <3>1. Reader(pos, next, group, Stream, Used)
      BY <1>2, <2>1 DEF RangeInv, ReaderOK
    <3>2. Used = 9 * b + 9 /\ Used' = 9 * (b + 1)
      BY <1>1, <1>2, <1>6, <1>7, <2>1 DEF Used, First
    <3>3. Used' = Used
      BY <1>3, <3>2
    <3>4. Stream' = Stream
      BY <1>7, <2>1 DEF Stream
    <3>5. QED
      BY <1>6, <1>7, <3>1, <3>3, <3>4 DEF Reader
  <2>2. QED
    BY <1>6, <1>7, <2>1 DEF ReaderOK
<1>13. DrawsOK'
  BY <1>6 DEF DrawsOK
<1>14. zout = [d \in RangeBlocks |-> zout[d]]
  BY <1>2 DEF WrittenOK
<1>15. zout'[b] = z /\ \A d \in 0 .. b - 1 : zout'[d] = zout[d]
  BY <1>3, <1>6, <1>14, BlocksType
<1>16. WrittenOK'
  <2> DEFINE norms2 == [d \in RangeBlocks |-> BlockNorm2(zout'[d])]
  <2>1. zout' = [d \in RangeBlocks |-> zout'[d]]
    BY <1>6, <1>14
  <2>2. \A d \in 0 .. b - 1 : zout[d] \in Vectors /\ BlockNorm2(zout[d]) \in Nat
    BY <1>1, <1>2 DEF WrittenOK
  <2>3. \A d \in 0 .. b : zout'[d] \in Vectors /\ BlockNorm2(zout'[d]) \in Nat
    BY <1>3, <1>5, <1>15, <2>2
  <2>4. \A d \in 0 .. b : d \in RangeBlocks
    BY <1>3, BlocksType
  <2>5. \A d \in 0 .. b - 1 : norms[d] \in Nat /\ norms[d] = norms2[d]
    BY <1>3, <1>15, <2>2, <2>4
  <2>6. (\A d \in 0 .. b : norms2[d] \in Nat) /\ norms2[b] = n2
    BY <1>3, <1>5, <1>15, <2>3, <2>4
  <2>7. norm2 = SumFunctionOnSet(norms, 0 .. b - 1)
    BY <1>1, <1>2 DEF WrittenOK
  <2> HIDE DEF norms, norms2
  <2>8. SumFunctionOnSet(norms, 0 .. b - 1) = SumFunctionOnSet(norms2, 0 .. b - 1)
    BY <1>3, <2>5, SumSame
  <2>9. SumFunctionOnSet(norms2, 0 .. b) = SumFunctionOnSet(norms2, 0 .. b - 1) + norms2[b]
    BY <1>3, <2>6, SumNext
  <2>10. norm2' = SumFunctionOnSet(norms2, 0 .. b)
    BY <1>6, <2>6, <2>7, <2>8, <2>9
  <2>11. r' - 1 = b
    BY <1>3, <1>6
  <2>12. QED
    BY <2>1, <2>3, <2>10, <2>11 DEF WrittenOK, norms2
<1>17. BlockIsOfCoset(b)'
  BY <1>5, <1>6, <1>7, <1>15 DEF BlockIsOfCoset
<1>18. variant = "ref" => DrawsInOrder(b)'
  <2> SUFFICES ASSUME variant = "ref" PROVE DrawsInOrder(b)'
    OBVIOUS
  <2> DEFINE stream == IF per_block THEN BlockStream(b) ELSE WorkerStream
             first == IF per_block THEN 0 ELSE 9 * b
  <2>1. Stream = stream /\ First = first
    BY <1>1 DEF Stream, First
  <2>2. /\ component = RefComponent(tables.slot_perm[b], tables.slots[b], DrawAt(stream, first))
        /\ \A v \in Axes : coords[v] = RefValue(tables.rows, center[v], DrawAt(stream, first + v))
    BY <1>1, <1>2, <2>1 DEF RangeInv, DrawsOK, Axes
  <2>3. pos = 5 * ((first + 9 + 3) \div 4)
    <3>1. Reader(pos, next, group, Stream, Used)
      BY <1>2 DEF RangeInv, ReaderOK
    <3>2. QED
      BY <1>11, <2>1, <3>1 DEF Reader
  <2>4. QED
    BY <1>6, <1>7, <2>2, <2>3 DEF DrawsInOrder
<1>19. RangeExact'
  <2>1. r' - 1 = b
    BY <1>3, <1>6
  <2>2. QED
    BY <1>6, <1>7, <1>17, <1>18, <2>1 DEF RangeExact
<1>20. QED
  BY <1>8, <1>9, <1>10, <1>12, <1>13, <1>16, <1>19 DEF RangeInv

LEMMA RangeStutter ==
    ASSUME RangeInv, UNCHANGED blockVars
    PROVE  RangeInv'
<1>1. /\ UNCHANGED fixed /\ stage' = stage /\ r' = r /\ pos' = pos /\ group' = group /\ next' = next
      /\ component' = component /\ center' = center /\ coords' = coords /\ n2' = n2
      /\ zout' = zout /\ norm2' = norm2
  BY DEF blockVars, block
<1>2. /\ variant' = variant /\ law' = law /\ per_block' = per_block /\ coset' = coset /\ seed' = seed
      /\ classes' = classes /\ tables' = tables /\ TablesOf' = TablesOf /\ \A b : Tau(b)' = Tau(b)
      /\ \A stream, i : DrawAt(stream, i)' = DrawAt(stream, i)
  BY <1>1, FixedStays
<1>3. FixedOK'
  <2>1. classes' = [b \in RangeBlocks |-> [c \in Components |-> TabCoordClass(Tau(b)', c)]]
    BY <1>2, Zenon DEF RangeInv, FixedOK
  <2>2. stage' # "start" => tables' = TablesOf'
    BY <1>1, <1>2, Zenon DEF RangeInv, FixedOK
  <2>3. QED
    BY <1>1, <1>2, <2>1, <2>2 DEF RangeInv, FixedOK
<1>4. BlockOK => BlockOK'
  BY <1>1, <1>2 DEF BlockOK
<1>5. StageOK'
  BY <1>1, <1>4 DEF RangeInv, StageOK
<1>6. WordsOK'
  BY <1>1, <1>2 DEF RangeInv, WordsOK
<1>7. Used' = Used
  BY <1>1, <1>2 DEF Used, First
<1>8. ReaderOK'
  <2>1. ReaderOK
    BY DEF RangeInv
  <2>2. QED
    BY <1>1, <1>2, <1>7, <2>1, DrawsStay DEF ReaderOK
<1>9. DrawsOK'
  <2>1. DrawsOK
    BY DEF RangeInv
  <2>2. /\ DrawAt(Stream, First)' = DrawAt(Stream, First)
        /\ \A v : DrawAt(Stream, First + v)' = DrawAt(Stream, First + v)
    BY <1>1, DrawsStay
  <2>3. QED
    BY <1>1, <1>2, <2>1, <2>2 DEF DrawsOK
<1>10. WrittenOK'
  BY <1>1, WrittenKept DEF RangeInv
<1>11. RangeExact'
  <2>1. RangeExact
    BY DEF RangeInv
  <2>2. \A b : BlockIsOfCoset(b) => BlockIsOfCoset(b)'
    BY <1>1, <1>2 DEF BlockIsOfCoset
  <2>3. \A b : DrawsInOrder(b) => DrawsInOrder(b)'
    BY <1>1, <1>2 DEF DrawsInOrder
  <2>4. QED
    BY <1>1, <1>2, <2>1, <2>2, <2>3 DEF RangeExact
<1>12. QED
  BY <1>3, <1>5, <1>6, <1>8, <1>9, <1>10, <1>11 DEF RangeInv

LEMMA RangeStep == RangeInv /\ [NextRange]_blockVars => RangeInv'
<1> SUFFICES ASSUME RangeInv, [NextRange]_blockVars PROVE RangeInv'
  OBVIOUS
<1>1. CASE GetTables
  BY <1>1, GetTablesStep
<1>2. CASE StartRange
  BY <1>2, StartRangeStep
<1>3. CASE OpenBlock
  BY <1>3, OpenBlockStep
<1>4. CASE HotPick
  BY <1>4, HotPickStep
<1>5. CASE RefPick
  BY <1>5, RefPickStep
<1>6. CASE HotCoordinate
  BY <1>6, HotCoordinateStep
<1>7. CASE RefCoordinate
  BY <1>7, RefCoordinateStep
<1>8. CASE WriteBlock
  BY <1>8, WriteBlockStep
<1>9. CASE EndRange
  BY <1>9, EndRangeStep
<1>10. CASE UNCHANGED blockVars
  BY <1>10, RangeStutter
<1>11. QED
  BY <1>1, <1>2, <1>3, <1>4, <1>5, <1>6, <1>7, <1>8, <1>9, <1>10 DEF NextRange

\* In every range, for all laws that have a weight near each centre and all
\* sources of words, the sampler does not fail; every block is in its coset,
\* of the component and the coordinates drawn for it, with its norm; the
\* reference variant takes each draw once and in order; and the vector is that
\* of its blocks, with the sum of their norms.
THEOREM RangeInvariance == RangeSpec => []RangeInv
<1>1. InitRange => RangeInv
  BY RangeInit
<1>2. RangeInv /\ [NextRange]_blockVars => RangeInv'
  BY RangeStep
<1>3. QED
  BY <1>1, <1>2, PTL DEF RangeSpec

THEOREM BlocksExact == RangeSpec => [](stage # "failed" /\ RangeExact)
<1>1. RangeInv => stage # "failed" /\ RangeExact
  BY DEF RangeInv, StageOK
<1>2. QED
  BY <1>1, RangeInvariance, PTL
=============================================================================
