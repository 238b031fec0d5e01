--------------------------- MODULE E8BlockSampler ---------------------------
(***************************************************************************)
(* A range of blocks sampled by one worker: e8h_sample_range() of          *)
(* e8/src/e8_sampler_hot.c, on generated tables or on those built at run   *)
(* time, and e8_ref_sample_range() of e8/src/e8_sampler_ref.c.  The blocks *)
(* of a vector are one range here.                                         *)
(*                                                                         *)
(* The hot variants read a word for the component, and one or two for a    *)
(* coordinate.  The reference variant reads groups of five words, which    *)
(* give four draws: the low parts are the first four, the high parts lanes *)
(* of the fifth; a group serves on into the next block of its stream.      *)
(* In per-block mode each block has a stream of its own.                   *)
(***************************************************************************)
EXTENDS E8BlockTables

CONSTANTS
    Cosets,            \* vectors t of the cosets that are sampled
    Seeds,
    WordOf(_, _, _)    \* of a seed, a stream and a place: a number, cut to a word

BlockWords == 17        \* read at most for a block: one, and two for a coordinate
RangeBlocks == 0 .. k4 - 1
WorkerStream == 0
BlockStream(b) == b + 1

ASSUME SamplerAssumption ==
    /\ Cosets \subseteq [1 .. 2 -> [Index -> {0, 1}]]
    /\ \A number \in Seeds, stream \in 0 .. k4, place \in 0 .. BlockWords * k4 :
          WordOf(number, stream, place) \in Nat

Variants == {"hot", "runtime", "ref"}

VARIABLES
    stage, variant, law, per_block, coset, seed,
    classes,           \* of every block, component and coordinate
    component_mass,    \* of every block and component
    tables,            \* those of the variant, as far as the coset needs them
    r,                 \* the block
    pos,               \* words read of its stream
    group, next,       \* reader: the draws of a group, and the next of them
    component, center, coords, n2,
    zout, norm2

fixed == <<variant, law, per_block, coset, seed, classes, component_mass, tables>>
block == <<component, center, coords, n2>>
blockVars == <<stage, fixed, r, pos, group, next, block, zout, norm2>>

Tau(b) == BlockOf(coset, b)
NoGroup == <<>>
NoSeed == <<>>

-----------------------------------------------------------------------------
(***************************************************************************)
(* The tables.                                                             *)
(***************************************************************************)
HotTables(rows, cdf) == [rows |-> rows, cdf |-> cdf]

RefTables ==
    LET types == [b \in RangeBlocks |-> [c \in Components |-> Type(classes[b][c])]]
    IN  [rows |-> RefRows(law),
         slot_perm |-> [b \in RangeBlocks |-> SlotPerm(types[b])],
         slots |-> [b \in RangeBlocks |-> SlotTable(law, RowClass(types[b]))]]

TablesOf ==
    CASE variant = "hot" -> HotTables(HotRows(law), [b \in RangeBlocks |-> GeneratedCdf(component_mass[b])])
      [] variant = "runtime" -> HotTables(RuntimeRows(law), [b \in RangeBlocks |-> RuntimeCdf(component_mass[b])])
      [] variant = "ref" -> RefTables

-----------------------------------------------------------------------------
(***************************************************************************)
(* Words and draws.                                                        *)
(***************************************************************************)
Draws == [lo : 0 .. 2^RefLoBits - 1, hi : 0 .. 2^RefHiBits - 1]

Stream == IF per_block THEN BlockStream(r) ELSE WorkerStream
HotWord(place) == WordOf(seed, Stream, place) % HotWords

RefWord(stream, place) == WordOf(seed, stream, place) % 2^(RefLoBits + 1)
Low(word) == word % 2^RefLoBits
Lane(word, k) == (word \div 2^(k * (RefHiBits + 1))) % 2^RefHiBits
ReadGroup(stream, place) ==
    [k \in 0 .. 3 |-> [lo |-> Low(RefWord(stream, place + k)),
                       hi |-> Lane(RefWord(stream, place + 4), k)]]

\* e8_ref_draw: the draw, and the reader after it.
Drawn == IF next = 4
         THEN LET g == ReadGroup(Stream, pos)
              IN  [u |-> g[0], group |-> g, next |-> 1, pos |-> pos + 5]
         ELSE [u |-> group[next], group |-> group, next |-> next + 1, pos |-> pos]

\* e8_ref_lt, with the borrow of the low parts.
TopBit(d) == (d % 2^(RefHiBits + 1)) \div 2^RefHiBits
LtOfHighParts(u, T) == TopBit(u.hi - (T \div 2^RefLoBits))
Lt(u, T) ==
    LET borrow == ((u.lo - (T % 2^RefLoBits)) % 2^(RefLoBits + 1)) \div 2^RefLoBits
    IN  TopBit(u.hi - (T \div 2^RefLoBits) - borrow)
CountBelow(u, T) == Cardinality({j \in DOMAIN T : Lt(u, T[j]) = 1})

\* e8_ref_component, e8_ref_coord.
RefComponent(perm, slots, u) == perm[CountBelow(u, slots) + 1]
RefValue(rows, num32, u) ==
    LET kk == (num32 + 32) \div 8
        row == rows[kk % 4]
    IN  kk \div 4 - 1 + row.lo_value + CountBelow(u, row.T)

\* e8h_sample_block: the first component whose threshold is not below u.
HotComponent(cdf, u) == CHOOSE c \in Components :
    (c = 15 \/ u <= cdf[c]) /\ \A d \in 0 .. c - 1 : ~(u <= cdf[d])

-----------------------------------------------------------------------------
InitRange ==
    /\ stage = "start"
    /\ variant \in Variants /\ law \in DOMAIN Laws /\ coset \in Cosets
    /\ per_block = FALSE /\ seed = NoSeed
    /\ classes = [b \in RangeBlocks |-> [c \in Components |-> TabCoordClass(Tau(b), c)]]
    /\ component_mass =
         [b \in RangeBlocks |-> [c \in Components |-> ComponentMass(law, TabCoordClass(Tau(b), c))]]
    /\ tables = <<>>
    /\ r = 0 /\ pos = 0 /\ group = NoGroup /\ next = 4
    /\ component = 0 /\ center = <<>> /\ coords = <<>> /\ n2 = 0
    /\ zout = [b \in RangeBlocks |-> NoBlock] /\ norm2 = 0

GetTables ==
    /\ stage = "start"
    /\ stage' = "call" /\ tables' = TablesOf
    /\ UNCHANGED <<variant, law, per_block, coset, seed, classes, component_mass, r, pos, group, next,
                   block, zout, norm2>>

\* e8_sampler_run: the mode and the seed of the call.
StartRange ==
    /\ stage = "call"
    /\ stage' = "range" /\ per_block' \in BOOLEAN /\ seed' \in Seeds
    /\ UNCHANGED <<variant, law, coset, classes, component_mass, tables, r, pos, group, next, block,
                   zout, norm2>>

\* e8_sampler_block_rng_init and, for the reference variant, a new reader.
OpenBlock ==
    /\ stage = "range" /\ r \in RangeBlocks
    /\ stage' = "component"
    /\ IF per_block THEN pos' = 0 /\ next' = 4 /\ group' = NoGroup
                    ELSE UNCHANGED <<pos, next, group>>
    /\ UNCHANGED <<fixed, r, block, zout, norm2>>

\* The geometry of the component is in tables, or made of its number.
BeginBlock(c) ==
    /\ component' = c
    /\ center' = IF variant = "ref"
                 THEN LET offset == BlockApplyP(BaseBlock(Tau(r), c))
                      IN  [v \in Axes |-> CenterNum32(offset, v)]
                 ELSE [v \in Axes |-> Num32(classes[r][c][v])]
    /\ n2' = IF variant = "ref" THEN NormOf(BlockApplyP(BaseBlock(Tau(r), c)))
                                ELSE TabBaseNorm2(Tau(r), c)
    /\ coords' = <<>> /\ stage' = "coords"
    /\ UNCHANGED <<fixed, r, zout, norm2>>

HotPick ==
    /\ stage = "component" /\ variant # "ref"
    /\ BeginBlock(HotComponent(tables.cdf[r], HotWord(pos)))
    /\ pos' = pos + 1
    /\ UNCHANGED <<group, next>>

RefPick ==
    /\ stage = "component" /\ variant = "ref"
    /\ BeginBlock(RefComponent(tables.slot_perm[r], tables.slots[r], Drawn.u))
    /\ pos' = Drawn.pos /\ group' = Drawn.group /\ next' = Drawn.next

Coordinate(x) ==
    /\ coords' = Append(coords, x)
    /\ n2' = n2 + NormShare(x, center[Len(coords) + 1])
    /\ stage' = IF Len(coords) = 7 THEN "write" ELSE "coords"
    /\ UNCHANGED <<fixed, r, component, center, zout, norm2>>

\* e8h_sample_1d, which reads a second word on a miss.
HotCoordinate ==
    /\ stage = "coords" /\ variant # "ref"
    /\ LET row == tables.rows[Quarters(center[Len(coords) + 1])]
           place == Sample1D(row, HotWord(pos), HotWord(pos + 1))
           hit == Find(HotWord(pos), row.tiny_value, row.tiny_cdf) # NoValue
       IN  /\ pos' = pos + (IF hit THEN 1 ELSE 2)
           /\ IF place = NoValue
              THEN stage' = "failed" /\ UNCHANGED <<fixed, r, block, zout, norm2>>
              ELSE Coordinate(place - Shifted)
    /\ UNCHANGED <<group, next>>

RefCoordinate ==
    /\ stage = "coords" /\ variant = "ref"
    /\ Coordinate(RefValue(tables.rows, center[Len(coords) + 1], Drawn.u))
    /\ pos' = Drawn.pos /\ group' = Drawn.group /\ next' = Drawn.next

\* e8_ca_reconstruct_z_affine, e8_write_block.
WriteBlock ==
    /\ stage = "write"
    /\ IF n2 < 0 THEN stage' = "failed" /\ UNCHANGED <<zout, norm2, r>>
       ELSE /\ zout' = [zout EXCEPT ![r] = ReconstructZ(BaseBlock(Tau(r), component), coords)]
            /\ norm2' = norm2 + n2
            /\ stage' = "range" /\ r' = r + 1
    /\ UNCHANGED <<fixed, pos, group, next, block>>

EndRange ==
    /\ stage = "range" /\ r \notin RangeBlocks
    /\ stage' = "done"
    /\ UNCHANGED <<fixed, r, pos, group, next, block, zout, norm2>>

NextRange ==
    GetTables \/ StartRange \/ OpenBlock \/ HotPick \/ RefPick \/ HotCoordinate \/ RefCoordinate
    \/ WriteBlock \/ EndRange

RangeSpec == InitRange /\ [][NextRange]_blockVars

-----------------------------------------------------------------------------
(***************************************************************************)
(* What a range promises.                                                  *)
(***************************************************************************)
Total(mass, S) == SumFunctionOnSet(mass, S)
WordsFor(out, S) == Cardinality({hit \in out : hit[2] \in S})

\* Of the words in out, pairs of a word and its outcome, as many are for the
\* outcomes of S as their share of the mass, rounded down; or within one word.
RoundedDown(out, mass, S) ==
    WordsFor(out, S) = (Total(mass, S) * Cardinality(out)) \div Total(mass, DOMAIN mass)
Close(out, mass, o) ==
    LET total == Total(mass, DOMAIN mass)
        gap == WordsFor(out, {o}) * total - mass[o] * Cardinality(out)
    IN  -total <= gap /\ gap <= total

\* So it is on both sides of the mode of a law, from any value outwards.
SidesRoundedDown(out, mass, q) ==
    LET mode == Nearest(DOMAIN mass, q)[1]
    IN  \A x \in DOMAIN mass :
           /\ x > mode => RoundedDown(out, mass, {y \in DOMAIN mass : y >= x})
           /\ x < mode => RoundedDown(out, mass, {y \in DOMAIN mass : y <= x})
LightestRoundedDown(out, mass, order) ==
    \A k \in 2 .. Len(order) : RoundedDown(out, mass, {order[j] : j \in k .. Len(order)})

ComponentsLaw(b) ==
    LET mass == component_mass[b]
        perm == tables.slot_perm[b]
        slots == Heaviest([j \in 1 .. 16 |-> mass[perm[j]]])
    IN  CASE variant = "hot" ->
               LightestRoundedDown({<<u, HotComponent(tables.cdf[b], u)>> : u \in Words},
                                   mass, Heaviest(mass))
          [] variant = "runtime" ->
               \A c \in Components :
                  Close({<<u, HotComponent(tables.cdf[b], u)>> : u \in Words}, mass, c)
          [] variant = "ref" ->
               LightestRoundedDown({<<u, RefComponent(perm, tables.slots[b], u)>> : u \in Draws},
                                   mass, [k \in 1 .. 16 |-> perm[slots[k]]])

\* The values of a hot row, then those of its tail when none is found.
FirstOutcomes(row) ==
    {<<u, Find(u, row.tiny_value, row.tiny_cdf) - Shifted>> : u \in Words}
SecondOutcomes(row) ==
    {<<u, Find(u, row.tail_value, row.tail_cdf) - Shifted>> : u \in Words}

CoordinatesLaw(q) ==
    LET mass == Weights(law, q)
        row == tables.rows[q]
        tiny == {place - Shifted : place \in ToSet(row.tiny_value)}
        rest == [x \in DOMAIN mass \ tiny |-> mass[x]]
        first == FirstOutcomes(row)
        missed == WordsFor(first, {NoValue - Shifted})
        listed(k) == {row.tiny_value[j] - Shifted : j \in 1 .. k}
    IN  CASE variant = "hot" ->
               /\ \A k \in DOMAIN row.tiny_value :
                     missed + WordsFor(first, tiny \ listed(k))
                     = (Total(mass, DOMAIN mass \ listed(k)) * HotWords)
                       \div Total(mass, DOMAIN mass)
               /\ missed > 0 => SidesRoundedDown(SecondOutcomes(row), rest, q)
          [] variant = "runtime" ->
               /\ \A x \in tiny : Close(first, mass, x)
               /\ missed > 0 => \A x \in DOMAIN rest : Close(SecondOutcomes(row), rest, x)
          [] variant = "ref" ->
               SidesRoundedDown({<<u, RefValue(tables.rows, Num32(q), u)>> : u \in Draws},
                                mass, q)

LawExact ==
    /\ \A b \in RangeBlocks : ComponentsLaw(b)
    /\ \A q \in CenterClasses : CoordinatesLaw(q)

\* A block is that of its component and its coordinates, in the basis of x.
BlockIsOfCoset(b) ==
    LET tau == Tau(b)
        z == zout[b]
        x == BlockApplyP(z)
        offset == Offset(tau, component)
        lift == [v \in Axes |-> ((z[v] - tau[v]) \div 2) % 2]
        part(v) == Dot(x, ProductBasis[v]) - Dot(offset, ProductBasis[v])
    IN  /\ \A v \in Axes : z[v] % 2 = tau[v] /\ part(v) = 32 * coords[v]
        /\ SolveP(ReconstructX(offset, coords), tau) = z
        /\ Syndrome(lift) = component
        /\ n2 = BlockNorm2(z)

\* Draw i of a stream; the draws of a block are the nine after those of the
\* blocks before it in its stream, which has been read in whole groups.
DrawAt(stream, i) ==
    [lo |-> Low(RefWord(stream, 5 * (i \div 4) + (i % 4))),
     hi |-> Lane(RefWord(stream, 5 * (i \div 4) + 4), i % 4)]
DrawsInOrder(b) ==
    LET stream == IF per_block THEN BlockStream(b) ELSE WorkerStream
        first == IF per_block THEN 0 ELSE 9 * b
    IN  /\ component = RefComponent(tables.slot_perm[b], tables.slots[b], DrawAt(stream, first))
        /\ \A v \in Axes :
              coords[v] = RefValue(tables.rows, center[v], DrawAt(stream, first + v))
        /\ pos = 5 * ((first + 9 + 3) \div 4)

\* A block is in its coset, of the component and coordinates drawn for it, with
\* its norm; draws are used once and in order; and the range is that of its
\* blocks, with the sum of their norms.
RangeExact ==
    /\ stage = "range" /\ r > 0 => BlockIsOfCoset(r - 1)
    /\ stage = "range" /\ r > 0 /\ variant = "ref" => DrawsInOrder(r - 1)
    /\ stage = "done" =>
         /\ norm2 = Total([b \in RangeBlocks |-> BlockNorm2(zout[b])], RangeBlocks)
         /\ \A b \in RangeBlocks : BlockOf(FromBlocks(zout), b) = zout[b]

\* Every word and every draw gives what the laws say, as the rounding of the
\* tables has it; the blocks are made of them exactly; and none fails.
BlockExact == stage # "failed" /\ (stage = "call" => LawExact) /\ RangeExact
=============================================================================
