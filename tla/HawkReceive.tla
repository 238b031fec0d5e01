---------------------------- MODULE HawkReceive -----------------------------
(***************************************************************************)
(* HawkWire, with what it leaves out.  Key generation solves the NTRU      *)
(* equation in the steps of NtruSolver, and has F and G if these have made *)
(* them.  A receiver of keys and signatures verifies (HawkVerify) a        *)
(* signature under a key, both as bytes that someone has sent or made up.  *)
(* What the decoders of HawkWire make of these bytes is what verification  *)
(* finds wrong with them; its other checks fail or pass for reasons that   *)
(* neither module looks into.                                              *)
(***************************************************************************)
EXTENDS HawkWire

CONSTANTS
    N, SaltLen, HpubLen, Round, Sizes, Skews, MaxFlaws,   \* MaxFlaws bounds those that are not found by decoding
    Pairs,                 \* a key's bytes and a signature's
    Degrees                \* log n for which the NTRU equation is solved

ASSUME PairAssumption ==
    Pairs \subseteq [1 .. PubSize * ByteBits -> Bit] \X [1 .. SigSize * ByteBits -> Bit]
ASSUME DegreeAssumption == Degrees \subseteq 8 .. 10
ASSUME SizeAssumption ==
    /\ N \in Nat \ {0} /\ N % 2 = 0
    /\ {SaltLen, HpubLen, Round} \subseteq Nat \ {0} /\ SaltLen <= 4 * N
    /\ Sizes \cup Skews \subseteq Nat

VARIABLES
    vpc, i, vsig, vpub, flaws, tt, room, mem, h, norm, result,
    given,                 \* the bytes that are verified
    spc, logn, depth, level, area, FGlen, scale

verifyVars == <<vpc, i, vsig, vpub, flaws, tt, room, mem, h, norm, result, given>>
solverVars == <<spc, logn, depth, level, area, FGlen, scale>>
receiveVars == <<vars, verifyVars, solverVars>>

Verify == INSTANCE HawkVerify WITH pc <- vpc, sig <- vsig, pub <- vpub
Solver == INSTANCE NtruSolver WITH pc <- spc, mem <- area

NoPair == <<NoBits, NoBits>>

AtRest ==
    /\ vpc = "rest" /\ i = 1 /\ vsig = 0 /\ vpub = 0 /\ flaws = {}
    /\ tt = 0 /\ room = 0 /\ mem = <<>> /\ h = Junk /\ norm = <<>> /\ result = FALSE
    /\ given = NoPair
    /\ spc = "rest" /\ logn = 0 /\ depth = 0 /\ level = 0
    /\ area = {} /\ FGlen = 0 /\ scale = 0

-----------------------------------------------------------------------------
\* Of Hawk_keygen's loop, what is between its checks of f and g and of the form.
SolverRests ==
    /\ spc' = "rest" /\ logn' = 0 /\ depth' = 0 /\ level' = 0
    /\ area' = {} /\ FGlen' = 0 /\ scale' = 0

SolveNTRU ==
    /\ pc = "check"
    /\ \/ \E k \in Degrees : Solver!Start(k) /\ UNCHANGED keygenVars
       \/ Solver!Step /\ UNCHANGED keygenVars
       \/ spc = "rest" /\ RejectPair /\ UNCHANGED solverVars
       \/ spc = "failed" /\ RejectPair /\ SolverRests
       \/ spc = "formed" /\ Solve(IF Solver!Solved THEN Solution(fg) ELSE Junk) /\ SolverRests

MakeKeysStep ==
    /\ (KeygenStep /\ UNCHANGED solverVars) \/ SolveNTRU
    /\ UNCHANGED <<wire, decoded, verifyVars>>

-----------------------------------------------------------------------------
\* The flaws that decoding finds, and the check that is made on the way.
KeyFlaw(avx2, bits) ==
    LET d00 == DecodeQ00(avx2, bits)
        tail == SubSeq(bits, d00.used + 1, Len(bits))
    IN  IF d00 = None THEN "q00"
        ELSE IF DecodeClean(avx2, tail, Len01, Low01, Hi01) = None THEN "q01"
        ELSE IF DecodePublic(avx2, bits) = NoKey THEN "padding"
        ELSE IF d00.values[1] < 0 THEN "head" ELSE "none"

SigFlaw(avx2, bits) == IF DecodeSig(avx2, bits) = NoSignature THEN "signature" ELSE "none"

Flawed(avx2, pair) == {KeyFlaw(avx2, pair[1]), SigFlaw(avx2, pair[2])} \ {"none"}
OtherFlaws == {"order", "division", "s0", "residues", "bound"}

StartVerify(pair) ==
    /\ pc = "idle"
    /\ pc' = "verify"
    /\ given' = pair
    /\ \E avx2 \in BOOLEAN, others \in SUBSET OtherFlaws :
          /\ Cardinality(others) <= MaxFlaws
          /\ flaws' = Flawed(avx2, pair) \cup others
    /\ \E size \in Sizes, skew \in Skews : skew <= size /\ Verify!Call(size, skew)
    /\ UNCHANGED <<api, seed_buf, fg, work, own, priv, pub, wire, decoded, solverVars>>

\* The caller has the verdict.
Verified ==
    /\ vpc = "done"
    /\ pc' = "idle"
    /\ vpc' = "rest" /\ i' = 1 /\ vsig' = 0 /\ vpub' = 0 /\ flaws' = {}
    /\ tt' = 0 /\ room' = 0 /\ mem' = <<>> /\ h' = Junk /\ norm' = <<>>
    /\ result' = FALSE /\ given' = NoPair
    /\ UNCHANGED <<api, seed_buf, fg, work, own, priv, pub, wire, decoded, solverVars>>

-----------------------------------------------------------------------------
ReceiveInit == Init /\ AtRest

ReceiveNext ==
    \/ Next /\ UNCHANGED <<verifyVars, solverVars>>
    \/ SolveNTRU /\ UNCHANGED <<wire, decoded, verifyVars>>
    \/ \E pair \in Pairs : StartVerify(pair)
    \/ Verify!Step /\ UNCHANGED <<vars, given, solverVars>>
    \/ Verified

ReceiveSpec == ReceiveInit /\ [][ReceiveNext]_receiveVars

\* Where MakeKeysStep is enabled.
Making == pc \in {"draw", "check", "form", "hawk", "e8", "limits"}

\* A key generation is one thread's: it goes on.  This is weak fairness of
\* MakeKeysStep, with what enables it written out.
FairReceiveSpec ==
    ReceiveSpec /\ ([]<>~Making \/ []<><<MakeKeysStep>>_receiveVars)

-----------------------------------------------------------------------------
\* The verdict does not depend on the form in which the key and the signature
\* come nor on the size of the buffer, if it is no less than documented: what
\* has no flaw is accepted, what has one is not, and the norms that are
\* compared and bounded are those of the key, the signature and the hash of
\* both; what the caller has decoded is left as it was.
VerdictExact ==
    /\ Verify!VerdictExact
    /\ result => \A avx2 \in BOOLEAN : Flawed(avx2, given) = {}

\* The inductive invariant: verification is at rest unless it has been called,
\* and finds among other flaws those of the bytes that it was given.
ReceiveInv ==
    /\ vpc = "rest" => /\ mem = <<>> /\ norm = <<>> /\ ~result
    /\ vpc # "rest" => /\ Verify!VerifyInv
                       /\ given \in Pairs /\ Flawed(FALSE, given) \subseteq flaws
=============================================================================
