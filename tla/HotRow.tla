------------------------------- MODULE HotRow -------------------------------
(***************************************************************************)
(* One row of a hot table: how e8_rt_build_row() of                        *)
(* e8/src/e8_sampler_runtime.c makes it from the Gaussian weights of the   *)
(* integers around a centre, and how e8h_sample_1d() of                    *)
(* e8/src/e8_sampler_hot.c reads it.  The K values of largest weight stand *)
(* in a hot list with their cumulative thresholds; the others in a tail,   *)
(* with thresholds relative to the mass of the tail, cut at its capacity.  *)
(*                                                                         *)
(* A value is its place among the integers of the row.  Weights are        *)
(* integers; the sums the code makes of them in doubles may be off by      *)
(* "slip", as they are added in different orders.                          *)
(***************************************************************************)
EXTENDS Integers, FiniteSets, SequencesExt

CONSTANTS
    TinyLen,   \* E8_HOT64_TINY_LEN (6)
    TailMax,   \* E8_HOT64_TAIL_LEN_MAX
    WordMax    \* UINT64_MAX

ASSUME LengthsAssumption ==
    TinyLen \in Nat \ {0} /\ TailMax \in Nat \ {0} /\ WordMax \in Nat \ {0}

NoRow == <<>>
NoValue == 0

\* e8_cdf_threshold_u64: floor(prefix / total * 2^64), at most UINT64_MAX.
Threshold(prefix, total) ==
    IF prefix <= 0 \/ total <= 0 THEN 0
    ELSE IF prefix >= total THEN WordMax
    ELSE (prefix * (WordMax + 1)) \div total

\* The places of positive weight in the order best_unused() takes them: the
\* largest first, of equal ones the lowest.
Before(weights, i, j) ==
    weights[i] > weights[j] \/ (weights[i] = weights[j] /\ i < j)

ByWeight(weights) ==
    LET places == {i \in DOMAIN weights : weights[i] > 0}
        rank(i) == Cardinality({j \in places : Before(weights, j, i)}) + 1
    IN  [k \in 1 .. Cardinality(places) |-> CHOOSE i \in places : rank(i) = k]

EmptyList == [value |-> <<>>, cdf |-> <<>>, mass |-> 0]
Full(list) == list.cdf # <<>> /\ Last(list.cdf) = WordMax

\* A turn of the loop over the chosen values: one whose threshold is not
\* above the last is left to the tail.
AddTinyAlways(list, i, weights, total) ==
    LET q == Threshold(list.mass + weights[i], total)
    IN  [value |-> Append(list.value, i), cdf |-> Append(list.cdf, q),
         mass |-> list.mass + weights[i]]
AddTiny(list, i, weights, total) ==
    LET q == Threshold(list.mass + weights[i], total)
    IN  IF list.cdf # <<>> /\ q <= Last(list.cdf) THEN list
        ELSE AddTinyAlways(list, i, weights, total)

\* A turn of the tail's loop, which ends at the capacity or after the maximum.
AddTail(list, i, weights, mass) ==
    IF Len(list.cdf) = TailMax \/ Full(list) THEN list
    ELSE [value |-> Append(list.value, i),
          cdf |-> Append(list.cdf, Threshold(list.mass + weights[i], mass)),
          mass |-> list.mass + weights[i]]

\* The hot list: a turn for each of the first TinyLen places.
TinyList(weights, total) ==
    LET order == ByWeight(weights)
        turn[n \in 0 .. Len(order)] ==
            IF n = 0 THEN EmptyList
            ELSE AddTiny(turn[n - 1], order[n], weights, total)
    IN  turn[Min({TinyLen, Len(order)})]

\* The tail: a turn for each place that is not used.
TailList(weights, used, mass) ==
    LET order == ByWeight(weights)
        turn[n \in 0 .. Len(order)] ==
            IF n = 0 THEN EmptyList
            ELSE IF order[n] \in used THEN turn[n - 1]
            ELSE AddTail(turn[n - 1], order[n], weights, mass)
    IN  turn[Len(order)]

\* The last threshold of the tail, or of the hot list where there is no tail,
\* is set to the maximum.
Unforced(cdf) == cdf
Forced(cdf) == [cdf EXCEPT ![Len(cdf)] = WordMax]

MassOf(weights, places) == SumFunctionOnSet(weights, places)

\* e8_rt_build_row: NoRow when there is no mass.
Row(weights, slip) ==
    LET total == MassOf(weights, DOMAIN weights) + slip
        tiny == TinyList(weights, total)
        used == ToSet(tiny.value)
        rest == MassOf(weights, DOMAIN weights \ used)
        tail == IF rest > 0 THEN TailList(weights, used, rest + slip) ELSE EmptyList
    IN  IF total <= 0 \/ tiny.value = <<>> THEN NoRow
        ELSE [tiny_value |-> tiny.value,
              tiny_cdf |-> IF tail.cdf = <<>> THEN Forced(tiny.cdf) ELSE tiny.cdf,
              tail_value |-> tail.value,
              tail_cdf |-> IF tail.cdf = <<>> THEN <<>> ELSE Forced(tail.cdf)]

\* The value of the first threshold that is not below u.
Find(u, value, cdf) ==
    LET hits == {i \in DOMAIN cdf : u <= cdf[i]}
    IN  IF hits = {} THEN NoValue ELSE value[Min(hits)]

\* e8h_sample_1d: one word for the hot list, on a miss another for the tail.
Sample1D(row, u, v) ==
    LET hot == Find(u, row.tiny_value, row.tiny_cdf)
    IN  IF hot # NoValue THEN hot ELSE Find(v, row.tail_value, row.tail_cdf)

-----------------------------------------------------------------------------
(***************************************************************************)
(* Properties of a row.                                                    *)
(***************************************************************************)
Words == 0 .. WordMax

\* Every pair of words finds a value: the last return of e8h_sample_1d is
\* unreachable.
AlwaysSamples(row) == \A u, v \in Words : Sample1D(row, u, v) # NoValue

\* A value stands in one list, once.
OneEntryPerValue(row) ==
    LET values == row.tiny_value \o row.tail_value
    IN  \A i, j \in DOMAIN values : values[i] = values[j] => i = j

\* The number of words that give a hot value differs by at most one from the
\* share of its weight.
Hits(row, k) ==
    row.tiny_cdf[k] - (IF k = 1 THEN -1 ELSE row.tiny_cdf[k - 1])

HotSharesClose(row, weights) ==
    LET total == MassOf(weights, DOMAIN weights)
        share(k) == weights[row.tiny_value[k]] * (WordMax + 1)
    IN  \A k \in DOMAIN row.tiny_cdf :
           /\ Hits(row, k) * total <= share(k) + total
           /\ share(k) <= Hits(row, k) * total + total
=============================================================================
