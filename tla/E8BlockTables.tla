--------------------------- MODULE E8BlockTables ----------------------------
(***************************************************************************)
(* The geometry of a block of the E8 sampler (e8/src/e8_sampler_inner.h)   *)
(* and the tables made of it: those that e8/tables/gen_tables.py generates *)
(* for the hot and for the reference variant, and those that               *)
(* e8/src/e8_sampler_runtime.c builds.                                     *)
(*                                                                         *)
(* A block z in 2Z^8 + tau is taken apart into a component, of which there *)
(* are 16, and eight coordinates in an orthogonal basis: x = P z is        *)
(*     offset(tau, component) + sum of coords[v]*ProductBasis[v],          *)
(* so that |x|^2 is a sum over the coordinates, and a Gaussian block is a  *)
(* component of the right mass with eight Gaussian integers, of centres in *)
(* quarters.                                                               *)
(*                                                                         *)
(* A law gives the integer at d quarters from its centre the weight        *)
(* Laws[l][d]; there is one law for each degree.                           *)
(***************************************************************************)
EXTENDS E8Lattice, HotRow

CONSTANTS
    Laws,
    TotalUnit,                 \* of each law: divides the totals of its rows
    RefHiBits, RefLoBits       \* 15 and 63

Components == 0 .. 15
Axes == 1 .. 8
Bits(v) == [b \in Axes |-> (v \div 2^(b - 1)) % 2]
Labels == [Axes -> {0, 1}]

\* A sequence, of which TLC evaluates each element once.
Tabulated(s) == <<>> \o s

\* A set in an order, which is given as the set of its pairs.
Sorted(S, before) ==
    Tabulated([k \in 1 .. Cardinality(S) |->
                 CHOOSE x \in S : Cardinality({y \in S : <<y, x>> \in before}) = k - 1])

-----------------------------------------------------------------------------
(***************************************************************************)
(* Geometry.                                                               *)
(***************************************************************************)
\* e8_parity8 of a row of the parity checks, and the syndrome.
CheckRows == << <<1, 1, 1, 1, 1, 1, 1, 1>>, <<0, 1, 0, 1, 0, 1, 0, 1>>,
                <<0, 0, 1, 1, 0, 0, 1, 1>>, <<0, 0, 0, 0, 1, 1, 1, 1>> >>
Parity(row, p) == Dot(row, p) % 2
Syndrome(p) == Parity(CheckRows[1], p) + 2 * Parity(CheckRows[2], p)
               + 4 * Parity(CheckRows[3], p) + 8 * Parity(CheckRows[4], p)

\* e8_rm13_component_rep.
Rep(c) == LET b(k) == (c \div k) % 2
          IN  <<(b(1) + b(2) + b(4) + b(8)) % 2, b(2), b(4), 0, b(8), 0, 0, 0>>

BaseBlock(tau, c) == LET p == Rep(c) IN [b \in Axes |-> tau[b] + 2 * p[b]]

\* e8_ca_component_offset_cm.
Offset(tau, c) ==
    LET pt == BlockApplyP(tau)
        pr == BlockApplyP(Rep(c))
    IN  [b \in Axes |-> pt[b] + 2 * pr[b]]

\* E8_CA_PRODUCT_BASIS: two vectors on each of four pairs of axes.
ProductBasis ==
    [v \in Axes |->
        LET lead == (v + 1) \div 2
            other == IF lead = 1 THEN 8 ELSE lead + 3
        IN  [b \in Axes |-> IF b = lead THEN -4
                            ELSE IF b # other THEN 0 ELSE IF v % 2 = 1 THEN -4 ELSE 4]]

\* E8_CA_DELTA_Z.
DeltaZ == <<
    << 0, -2,  2,  0, -2,  0,  0, -2>>, <<-2,  4, -4,  2,  2,  0,  0,  2>>,
    <<-2, -2,  4, -4, -2,  2,  0,  0>>, << 0,  0, -2,  2,  2, -2,  0,  0>>,
    << 4, -2, -2,  4,  0, -2,  2,  0>>, <<-2,  0,  0, -2,  0,  2, -2,  0>>,
    <<-4,  4, -2, -2,  0,  0, -2,  2>>, << 2, -2,  0,  0,  0,  0,  2, -2>> >>

NormOf(x) == Dot(x, x)

\* e8_ca_component_center_num32, e8_ca_reconstruct_x, e8_ca_reconstruct_z_affine.
CenterNum32(offset, v) == -Dot(offset, ProductBasis[v])
Along(base, coords, steps) ==
    [b \in Axes |-> base[b] + Dot(coords, [v \in Axes |-> steps[v][b]])]
ReconstructX(offset, coords) == Along(offset, coords, ProductBasis)
ReconstructZ(base, coords) == Along(base, coords, DeltaZ)

\* The share of a coordinate in the squared norm, 32 being that of a basis vector.
NormShare(c, num32) == 32 * c * c - 2 * c * num32

-----------------------------------------------------------------------------
(***************************************************************************)
(* e8_tables_geom.h.  A centre is num/32 = quarters/4; the class of a      *)
(* coordinate, which the program numbers, is here its centre in quarters.  *)
(***************************************************************************)
Quarters(num32) == num32 \div 8
Num32(quarters) == 8 * quarters

TabBaseZ(tau, c) == BaseBlock(tau, c)
TabBaseNorm2(tau, c) == NormOf(Offset(tau, c))
TabCoordClass(tau, c) ==
    LET offset == Offset(tau, c) IN [v \in Axes |-> Quarters(CenterNum32(offset, v))]

\* e8_tab_center_num32.
Offsets == {Offset(tau, c) : tau \in Labels, c \in Components}
CenterClasses == {Quarters(CenterNum32(offset, v)) : offset \in Offsets, v \in Axes}

-----------------------------------------------------------------------------
(***************************************************************************)
(* The laws, and how masses are rounded to numbers of words.               *)
(***************************************************************************)
Far == 8
Distance(x, q) == LET d == 4 * x - q IN IF d < 0 THEN -d ELSE d
Weight(l, x, q) == IF Distance(x, q) \in DOMAIN Laws[l] THEN Laws[l][Distance(x, q)] ELSE 0
Support(l, q) == {x \in -Far .. Far : Weight(l, x, q) > 0}
Weights(l, q) == [x \in Support(l, q) |-> Weight(l, x, q)]

\* Among the integers that are kept, some have a weight, whatever the centre.
ASSUME LawsAssumption ==
    \A l \in DOMAIN Laws :
       /\ \A d \in DOMAIN Laws[l] : Laws[l][d] \in Nat
       /\ \A q \in CenterClasses \cup 0 .. 3 : Support(l, q) # {}

\* DGauss.total, of which only proportions matter.
RowTotal(l, q) == SumFunctionOnSet(Weights(l, q), Support(l, q))
Normaliser(l, q) == RowTotal(l, q) \div TotalUnit[l]

\* weight_order.
Nearer(S, q) == {p \in S \X S : \/ Distance(p[1], q) < Distance(p[2], q)
                                \/ Distance(p[1], q) = Distance(p[2], q) /\ p[1] < p[2]}
Nearest(S, q) == Sorted(S, Nearer(S, q))

\* rule_masses.  Each outcome but the mode has a side of it, on which some are
\* at it or beyond.  These get what is their share of the words, rounded down;
\* and it gets what those beyond it leave.  The mode gets the rest.
RuleMasses(masses, words, mode, beyond) ==
    LET total == SumFunctionOnSet(masses, DOMAIN masses)
        share(S) == (SumFunctionOnSet(masses, S) * words) \div total
        out == [o \in DOMAIN masses \ {mode} |-> share(beyond[o]) - share(beyond[o] \ {o})]
    IN  [o \in DOMAIN masses |->
            IF o = mode THEN words - SumFunctionOnSet(out, DOMAIN out) ELSE out[o]]

\* weight_rule_masses: one side, on which the lighter are beyond the heavier.
Heavier(masses) ==
    {p \in (DOMAIN masses) \X (DOMAIN masses) :
        \/ masses[p[1]] > masses[p[2]]
        \/ masses[p[1]] = masses[p[2]] /\ p[1] < p[2]}
Heaviest(masses) == Sorted(DOMAIN masses, Heavier(masses))
WeightRuleMasses(masses, words) ==
    LET mode == Heaviest(masses)[1]
    IN  RuleMasses(masses, words, mode,
                   [o \in DOMAIN masses \ {mode} |->
                       {p \in DOMAIN masses : p = o \/ <<o, p>> \in Heavier(masses)}])

\* value_rule_masses: two sides; without the outcomes that get no word.
ValueRuleMasses(weights, q, words) ==
    LET S == DOMAIN weights
        mode == Nearest(S, q)[1]
        mass == RuleMasses(weights, words, mode,
                           [x \in S \ {mode} |-> IF x < mode THEN {y \in S : y <= x}
                                                 ELSE {y \in S : y >= x}])
    IN  [x \in {y \in S : mass[y] > 0} |-> mass[x]]

\* Thresholds of outcomes in an order: with target <= threshold, each has as
\* many words as its mass.
Thresholds(order, mass) ==
    [k \in DOMAIN order |->
        SumFunctionOnSet([j \in 1 .. k |-> mass[order[j]]], 1 .. k) - 1]

-----------------------------------------------------------------------------
(***************************************************************************)
(* e8_tables_hot64.h: hot_row and the components' thresholds.  Values are  *)
(* kept above 0, as HotRow has them, by adding Shifted.                    *)
(***************************************************************************)
HotWords == WordMax + 1
Shifted == Far + 1
AsPlaces(values) == [k \in DOMAIN values |-> values[k] + Shifted]

GeneratedRow(l, q) ==
    LET weights == Weights(l, q)
        order == Nearest(DOMAIN weights, q)
        k0 == Min({TinyLen, Len(order)})
        rest(k) == {order[j] : j \in k + 1 .. Len(order)}
        mass(k) == RuleMasses([j \in 1 .. k + 1 |->
                                 IF j <= k THEN weights[order[j]]
                                 ELSE SumFunctionOnSet(weights, rest(k))],
                              HotWords, 1, [j \in 2 .. k + 1 |-> j .. k + 1])
        none == {j \in 2 .. k0 : mass(k0)[j] = 0}
        k == IF none = {} THEN k0 ELSE Min(none) - 1
        tail == IF mass(k)[k + 1] = 0 THEN <<>>
                ELSE ValueRuleMasses([x \in rest(k) |-> weights[x]], q, HotWords)
        tailOrder == Nearest(DOMAIN tail, q)
    IN  [tiny_value |-> AsPlaces(SubSeq(order, 1, k)),
         tiny_cdf |-> Thresholds([j \in 1 .. k |-> j], mass(k)),
         tail_value |-> AsPlaces(tailOrder),
         tail_cdf |-> Thresholds(tailOrder, tail)]

\* e8_rt_build_row, by HotRow, of the window of integers around the centre.
RuntimeRow(l, q) == Row([i \in 1 .. Far + Shifted |-> Weight(l, i - Shifted, q)], 0)

\* The mass of a component is the product of its coordinates' totals; classes
\* are those of its coordinates.
ComponentMass(l, classes) ==
    Normaliser(l, classes[1]) * Normaliser(l, classes[2]) * Normaliser(l, classes[3])
    * Normaliser(l, classes[4]) * Normaliser(l, classes[5]) * Normaliser(l, classes[6])
    * Normaliser(l, classes[7]) * Normaliser(l, classes[8])

GeneratedCdf(masses) ==
    LET words == Thresholds(Range0(16), WeightRuleMasses(masses, HotWords))
    IN  [c \in Components |-> words[c + 1]]

\* e8_rt_build: prefixes of the sum, and the last one forced to the maximum.
RuntimeCdf(masses) ==
    LET upto(c) == SumFunctionOnSet(masses, 0 .. c)
    IN  [c \in Components |-> IF c = 15 THEN WordMax ELSE Threshold(upto(c), upto(15))]

\* The rows of a degree, and the thresholds of a coset whose components have
\* these classes.
HotRows(l) == [q \in CenterClasses |-> GeneratedRow(l, q)]
RuntimeRows(l) == [q \in CenterClasses |-> RuntimeRow(l, q)]

-----------------------------------------------------------------------------
(***************************************************************************)
(* e8_tables_ref.h: survival tables, and components in slots by the type   *)
(* of their mass.                                                          *)
(***************************************************************************)
RefWords == 2^(RefHiBits + RefLoBits)

\* Four high parts fill a word, as four lanes of 16 bits do.
ASSUME RefAssumption == 4 * (RefHiBits + 1) = RefLoBits + 1 /\ RefWords \in Nat \ {0}

\* survival_table: T[k] words are for the values above lo + k - 1.
SurvivalTable(l, q) ==
    LET mass == ValueRuleMasses(Weights(l, q), q, RefWords)
        lo == Min(DOMAIN mass)
        hi == Max(DOMAIN mass)
    IN  [lo_value |-> lo,
         T |-> [k \in 1 .. hi - lo |-> SumFunctionOnSet(mass, lo + k .. hi)]]

\* e8_type: how many coordinates have a centre of each kind.
Type(classes) ==
    LET count(S) == Cardinality({v \in Axes : classes[v] % 4 \in S})
    IN  <<count({0}), count({1, 3}), count({2})>>

Lexicographic(a, b) == \E k \in 1 .. 3 : a[k] < b[k] /\ \A j \in 1 .. k - 1 : a[j] = b[j]

\* The components by their types; a row class, numbered in the program, is
\* here the types of the slots.
SlotPerm(types) ==
    Sorted(Components, {p \in Components \X Components :
                          \/ Lexicographic(types[p[1]], types[p[2]])
                          \/ types[p[1]] = types[p[2]] /\ p[1] < p[2]})
RowClass(types) == LET perm == SlotPerm(types) IN [j \in 1 .. 16 |-> types[perm[j]]]

SlotMass(l, type) ==
    Normaliser(l, 0)^type[1] * Normaliser(l, 1)^type[2] * Normaliser(l, 2)^type[3]
SlotTable(l, key) ==
    LET mass == WeightRuleMasses(Tabulated([j \in 1 .. 16 |-> SlotMass(l, key[j])]), RefWords)
    IN  [j \in 1 .. 15 |-> SumFunctionOnSet(mass, j + 1 .. 16)]

RefRows(l) == [q \in 0 .. 3 |-> SurvivalTable(l, q)]
=============================================================================
