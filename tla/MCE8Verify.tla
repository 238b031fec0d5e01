----------------------------- MODULE MCE8Verify -----------------------------
(***************************************************************************)
(* The arithmetic of both schemes, of the blocks of one of them and of the *)
(* NTRU solver: one of the four in a behaviour.  Degree 8: blocks of       *)
(* eight, two of them, and words of 12 bits; of HAWK, a prime of 7 bits,   *)
(* halves of words of 8, two lanes of 8 bits and thresholds of three rows; *)
(* of the blocks, words of 6 bits for the hot tables and of 8 for the      *)
(* reference ones; of the solver, limbs of 9 bits, the four largest primes *)
(* of 9 bits and fixed-point numbers with ten fractional bits.             *)
(***************************************************************************)
EXTENDS E8Verify, ModQ, E8BlockSampler

MCPrimes == << [p |-> 1153, p0i |-> 1151, g |-> 18], [p |-> 1217, p0i |-> 1215, g |-> 1147],
               [p |-> 1249, p0i |-> 223, g |-> 479], [p |-> 1297, p0i |-> 1039, g |-> 1057] >>

P8(q) == [u \in 0 .. 7 |-> q[u + 1]]
One == P8(<<1, 0, 0, 0, 0, 0, 0, 0>>)
Nil == P8(<<0, 0, 0, 0, 0, 0, 0, 0>>)
Unit(u, x) == [v \in 0 .. 7 |-> IF v = u THEN x ELSE 0]

\* f*1 - g*F = 1, and (F, G) with c times (f, g) added.
Basis(g, F, c) ==
    LET f == PolyAdd(One, Product(F, g))
    IN  [f |-> f, g |-> g, F |-> PolyAdd(F, Product(c, f)), G |-> PolyAdd(One, Product(c, g))]

MCBases ==
    { Basis(P8(<<1, 0, 0, -1, 0, 0, 1, 0>>), P8(<<0, 0, 1, 0, 0, -1, 0, 0>>), Unit(3, -1)),
      Basis(P8(<<0, 1, 0, 0, 0, 1, 0, 0>>), P8(<<0, 0, 0, 1, 0, 0, -1, 0>>), Unit(6, 1)),
      \* cannot be divided by in the fourth prime, which nobody checks
      Basis(P8(<<1, -1, 0, 0, 0, 0, 0, 0>>), P8(<<1, 0, 0, 0, 0, 0, 0, -1>>), Nil),
      \* nor in the second; above a limit
      Basis(P8(<<0, 1, -1, 0, 0, -1, 0, 0>>), P8(<<0, -1, -1, 0, 0, 1, -1, 0>>), Nil),
      Basis(P8(<<1, 0, 0, -1, 0, 0, 1, 0>>), P8(<<0, 0, 1, 0, 0, -1, 0, 0>>), Unit(0, 3)) }

MCChallenges ==
    { <<Nil, Nil>>, <<P8(<<1, 0, 1, 1, 0, 0, 0, 1>>), P8(<<0, 1, 1, 0, 1, 0, 0, 1>>)>>,
      <<P8(<<1, 1, 1, 1, 1, 1, 1, 1>>), P8(<<1, 0, 0, 0, 0, 0, 0, 0>>)>>,
      <<P8(<<0, 1, 0, 0, 1, 1, 1, 0>>), P8(<<0, 1, 0, 1, 0, 1, 1, 1>>)>>,
      <<P8(<<0, 0, 0, 0, 1, 0, 1, 0>>), Nil>> }

MCSteps ==
    { <<Nil, Nil>>, <<Unit(1, -1), Nil>>, <<Unit(0, -1), Unit(3, -1)>>, <<Nil, Unit(7, -1)>>,
      <<Unit(2, 1), Unit(4, -1)>>, <<Unit(6, -1), Unit(6, -1)>>,
      <<P8(<<-1, 0, 0, -1, 0, -1, 0, 0>>), P8(<<0, 0, -1, 0, 0, 0, -1, 0>>)>> }

MCChanges == { <<Unit(u, x), Nil>> : u \in {0, 5}, x \in {-1, 1} }
             \cup { <<Nil, Unit(u, x)>> : u \in {0, 6}, x \in {-1, 2} }

MCForgeries ==
    { <<Nil, Nil>>, <<Nil, Unit(0, -1)>>, <<Nil, Unit(2, 1)>>, <<Unit(3, -1), Nil>>,
      <<Unit(7, 1), Unit(1, 1)>>, <<Unit(4, 1), Unit(6, -1)>>,
      <<[u \in 0 .. 7 |-> -3], [u \in 0 .. 7 |-> -3]>>,
      <<[u \in 0 .. 7 |-> IF u % 2 = 0 THEN -3 ELSE 2], [u \in 0 .. 7 |-> (u % 6) - 3]>> }

-----------------------------------------------------------------------------
\* Two that fall in their own ways; the totals of their rows are as 5:4:4 and
\* as 3:3:2.
MCLaws == << [d \in 0 .. 8 |-> <<52, 45, 36, 26, 23, 8, 4, 1, 1>>[d + 1]],
             [d \in 0 .. 5 |-> <<240, 200, 100, 97, 30, 3>>[d + 1]] >>
MCTotalUnit == <<20, 100>>

\* The six row classes of the reference tables, and some more.
CosetOfTaus(tau0, tau1) ==
    FromBlocks([b \in 0 .. 1 |-> IF b = 0 THEN Bits(tau0) ELSE Bits(tau1)])
MCCosets == { CosetOfTaus(p[1], p[2]) :
              p \in {<<0, 1>>, <<5, 15>>, <<17, 51>>, <<255, 106>>, <<128, 83>>, <<240, 201>>} }

MCSeeds == 1 .. 6
MCWordOf(number, stream, place) ==
    (7 + 5 * number + 31 * stream) * (place + 1) * (place + 3) + 11 * stream + (place \div 2)

-----------------------------------------------------------------------------
MCHawkBases ==
    { Basis(P8(<<1, 0, 0, -1, 0, 0, 1, 0>>), P8(<<0, 0, 1, 0, 0, -1, 0, 0>>), Unit(3, -1)),
      Basis(P8(<<1, -1, 0, 0, 0, 0, 0, 0>>), P8(<<1, 0, 0, 0, 0, 0, 0, -1>>), Nil),
      Basis(P8(<<1, -1, 1, 0, 0, 1, 0, 0>>), P8(<<1, -1, 0, 1, 0, 0, -1, 0>>), Unit(6, 1)),
      Basis(Unit(5, 1), Unit(2, -1), Unit(1, 1)), Basis(Unit(0, 4), Unit(0, 2), Nil) }

\* The largest magnitudes and large ones, with signs of all kinds; one that is
\* large among small ones, so that a product is too large for Q; scattered ones.
Large(lo, negative) == [v \in 0 .. 15 |-> [hi |-> 0, lo |-> lo, neg |-> v \in negative]]
OneLarge(at) ==
    [v \in 0 .. 15 |-> IF v % 8 = at THEN [hi |-> 0, lo |-> 0, neg |-> v < 8]
                       ELSE [hi |-> 3, lo |-> 3, neg |-> FALSE]]
Scattered(a, b) ==
    [v \in 0 .. 15 |-> LET k == (a * v + b) % 32
                       IN  [hi |-> k \div 8, lo |-> (k \div 2) % 4, neg |-> k % 2 = 1]]
MCDraws ==
    { Large(0, negative) : negative \in {{1, 2, 3, 4}, {1, 5, 6, 7, 8, 9, 10}, {8, 9, 12, 13, 14}} }
    \cup { Large(1, {2, 4, 8, 11, 13, 15}), OneLarge(0), OneLarge(5) }
    \cup { Scattered(ab[1], ab[2]) :
           ab \in {<<0, 0>>, <<0, 31>>, <<5, 3>>, <<7, 1>>, <<11, 6>>, <<3, 17>>, <<13, 22>>} }

CONSTANTS HiRows, LoRows, Lanes, LaneBits, BaseBits, MaxXNorm, S1Lim

VARIABLES
    scheme,
    hpc, avx2, decoded, hkey, hh, ht, x, xsn, hw, s1

hawkVars == <<hpc, avx2, decoded, hkey, hh, ht, x, xsn, hw, s1>>

Hawk == INSTANCE HawkLattice WITH
    HawkBases <- MCHawkBases, HawkChallenges <- MCChallenges, Draws <- MCDraws,
    TabHi <- <<2, 1>>, TabLo <- <<1, 3, 3, 2, 1, 0>>,
    pc <- hpc, key <- hkey, h <- hh, t <- ht, w <- hw

MCNtruPrimes ==
    << [p |-> 449, p0i |-> 447, R2 |-> 161, g |-> 421, ig |-> 331, s |-> 126],
       [p |-> 433, p0i |-> 175, R2 |-> 283, g |-> 366, ig |-> 390, s |-> 64],
       [p |-> 401, p0i |-> 143, R2 |-> 362, g |-> 148, ig |-> 333, s |-> 268],
       [p |-> 353, p0i |-> 351, R2 |-> 166, g |-> 303, ig |-> 152, s |-> 101] >>

MCFixRoots == [u \in {2, 4, 5} |-> CASE u = 2 -> [re |-> 724, im |-> 724]
                                     [] u = 4 -> [re |-> 946, im |-> 392]
                                     [] u = 5 -> [re |-> -392, im |-> 946]]

NtruProfile(small, window, reduce, limit) ==
    [small |-> small, large |-> <<1, 2, 3>>, window |-> window, reduce |-> reduce, limit |-> limit]
NtruKeys(profile, fgs) ==
    { [key |-> [f |-> P8(fg[1]), g |-> P8(fg[2])], prof |-> profile] : fg \in fgs }

\* An even resultant, an f without inverse modulo a prime, common divisors; two
\* words at depth 2; reductions of too many bits; and windows of one of two
\* limbs.  Of those that are solved, in all ways.
MCSolvings ==
    NtruKeys(NtruProfile(<<1, 1, 1, 2>>, <<1, 1, 1>>, 3, 3),
        { << <<1, 0, 0, -1, 0, 0, 1, 0>>, <<0, 0, 1, 0, 0, -1, 0, 0>> >>,
          << <<1, 1, 0, 0, 2, 1, 0, 0>>, <<1, 0, 0, 0, 0, 0, 1, 1>> >>,
          << <<1, 1, 0, 0, -1, 0, 0, 0>>, <<0, 1, 1, 0, -1, 0, 0, 0>> >>,
          << <<1, 1, 0, 0, -1, 0, 1, 1>>, <<0, 1, 0, -1, 0, 0, 1, 0>> >> })
    \cup NtruKeys(NtruProfile(<<1, 1, 2, 2>>, <<1, 1, 2>>, 3, 3),
        { << <<1, 1, 0, -2, 0, 2, 1, 2>>, <<-2, 0, 0, 1, 2, 2, 0, 0>> >>,
          << <<-1, 0, -2, -2, -2, -2, -1, -1>>, <<-1, -2, 0, 0, 2, 0, -2, 0>> >> })
    \cup NtruKeys(NtruProfile(<<1, 1, 2, 2>>, <<1, 1, 2>>, 6, 2),
        { << <<-2, 0, -2, 0, 2, 0, -1, -2>>, <<-2, 1, 1, 1, 0, -2, 2, -2>> >>,
          << <<-1, -1, 2, -2, 2, 0, -2, 1>>, <<2, -2, -2, -2, 1, 1, 0, -1>> >> })
    \cup NtruKeys(NtruProfile(<<1, 1, 2, 2>>, <<1, 1, 1>>, 3, 3),
        { << <<0, -1, -1, 1, -1, 0, -1, -2>>, <<1, -1, -2, 1, -2, 2, 0, 2>> >>,
          << <<1, 0, -1, 0, 1, -1, 1, 0>>, <<0, 1, 1, -1, 1, 0, 0, 1>> >> })

VARIABLES npc, nkey, nprof, navx2, nminLogn, ndepth, made, nF, fp, scale_FG, err, nG, exact

ntruVars == <<npc, nkey, nprof, navx2, nminLogn, ndepth, made, nF, fp, scale_FG, err, nG, exact>>

Ntru == INSTANCE NtruNumbers WITH
    LimbBits <- 9, SmallPrimes <- MCNtruPrimes, LogTop <- 3, FixRoots <- MCFixRoots,
    Solvings <- MCSolvings, FirstNttDegree <- {1, 4}, DownScale <- 2,
    pc <- npc, key <- nkey, prof <- nprof, avx2 <- navx2, minLogn <- nminLogn,
    depth <- ndepth, F <- nF, G <- nG

-----------------------------------------------------------------------------
HawkIdle == Hawk!Init /\ avx2 /\ decoded /\ hkey = CHOOSE B \in MCHawkBases : TRUE
BlocksIdle ==
    /\ law = 1 /\ variant = "hot" /\ coset = CHOOSE cs \in Cosets : TRUE
    /\ InitRange

NtruIdle ==
    /\ Ntru!Init /\ navx2 /\ nminLogn = 1
    /\ [key |-> nkey, prof |-> nprof] = CHOOSE solving \in MCSolvings : TRUE

InitAll ==
    /\ Init
    /\ \/ scheme = "e8" /\ HawkIdle /\ BlocksIdle /\ NtruIdle
       \/ scheme = "hawk" /\ Hawk!Init /\ BlocksIdle /\ NtruIdle
       \/ scheme = "blocks" /\ HawkIdle /\ InitRange /\ NtruIdle
       \/ scheme = "ntru" /\ HawkIdle /\ BlocksIdle /\ Ntru!Init

E8Step == scheme = "e8" /\ Next /\ UNCHANGED <<scheme, hawkVars, blockVars, ntruVars>>
HawkStep == scheme = "hawk" /\ Hawk!Next /\ UNCHANGED <<scheme, vars, blockVars, ntruVars>>
BlockStep == scheme = "blocks" /\ NextRange /\ UNCHANGED <<scheme, vars, hawkVars, ntruVars>>
NtruStep == scheme = "ntru" /\ Ntru!Next /\ UNCHANGED <<scheme, vars, hawkVars, blockVars>>

NextAll == E8Step \/ HawkStep \/ BlockStep \/ NtruStep
SpecAll == InitAll /\ [][NextAll]_<<scheme, vars, hawkVars, blockVars, ntruVars>>

\* src/hawk_sign.c: an attempt's target, sample, norm and signature are those
\* of the definition in integers.
SignatureExact == Hawk!SignatureExact

\* src/ng_ntru.c: what the solver does modulo primes, in limbs and in fixed
\* point gives integers with f*G - g*F = 1, or the reason why there are none.
NtruExact == Ntru!NtruExact
=============================================================================
