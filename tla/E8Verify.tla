------------------------------ MODULE E8Verify ------------------------------
(***************************************************************************)
(* A HAWK-E8 key, a signature under it, and the two verifiers, with the    *)
(* arithmetic that they do: e8_keygen (e8/src/e8_api.c) accepts a basis;   *)
(* the signing core (e8/src/e8_sign.c) turns a sample of the right coset   *)
(* into a signature; what arrives is that signature, that signature        *)
(* changed on its way, or one made without the key; and the verifier       *)
(* (e8/src/e8_vrfy.c), or the reference verifier (e8/src/e8_vrfy_ref.c),   *)
(* goes through its primes.                                                *)
(***************************************************************************)
EXTENDS E8Lattice

CONSTANTS
    Bases,            \* what the NTRU solver may return: [f, g, F, G]
    Challenges,       \* the bits of a message's and a salt's hash: <<h0, h1>>
    Steps,            \* of the sampler, in twice the lattice
    Changes,          \* what may be added to a signature on its way
    Forgeries,        \* signatures made without the key
    VrfyPrimes,       \* E8_VRFY_PRIMES, 3; DOMAIN Primes is 1 .. 4
    Bound             \* the norm that is still accepted

\* The verifier refuses a larger one.
ASSUME BoundAssumption == Bound \in 0 .. (R \div 4) \div 2^(LogN - 1)

VARIABLES
    pc,
    key,      \* the basis and the public form, from keygen on
    h, t,     \* the challenge and its coset
    z,        \* the sample
    w,        \* the signer's w, then the verifier's
    s,        \* the signature
    honest,   \* s is what the signer returned for h
    ref,      \* it is the reference verifier's turn
    i,        \* the verifier's prime
    c1, c2,   \* its buffers,
    nnacc,    \* its sum,
    tnorm,    \* and the residue of the first prime
    verdict

signVars == <<t, z>>
buffers == <<c1, c2, nnacc>>
vrfyVars == <<ref, i, buffers, tnorm, verdict>>
vars == <<pc, key, h, signVars, w, s, honest, vrfyVars>>

NoKey == <<>>
ZeroVector == <<Zero, Zero>>

Init ==
    /\ pc = "keygen"
    /\ key = NoKey
    /\ h = ZeroVector /\ t = ZeroVector /\ z = ZeroVector
    /\ w = ZeroVector /\ s = ZeroVector
    /\ honest = FALSE /\ ref = FALSE /\ i = 0
    /\ c1 = Zero /\ c2 = Zero /\ nnacc = 0 /\ tnorm = 0 /\ verdict = FALSE

-----------------------------------------------------------------------------
(***************************************************************************)
(* Key generation.                                                         *)
(***************************************************************************)
\* e8_keygen: the public form of what the solver returned ...
Draw ==
    /\ pc = "keygen"
    /\ \E B \in Bases : key' = [basis |-> B, q |-> KeygenQForm(B)]
    /\ pc' = "check"
    /\ UNCHANGED <<h, signVars, w, s, honest, vrfyVars>>

\* ... is within the limits and can be divided by, or the key is discarded.
Usable(q) ==
    /\ LimitsOK(q)
    /\ PolyWithin(q.q11, LimQ11Head, LimQ11)
    /\ \A j \in 1 .. VrfyPrimes : Invertible(q.q00, j)

Keep ==
    /\ pc = "check"
    /\ Usable(key.q)
    /\ pc' = "ready"
    /\ UNCHANGED <<key, h, signVars, w, s, honest, vrfyVars>>

Discard ==
    /\ pc = "check"
    /\ ~Usable(key.q)
    /\ pc' = "keygen"
    /\ key' = NoKey
    /\ UNCHANGED <<h, signVars, w, s, honest, vrfyVars>>

\* A verifier can be given any public form.
Adopt ==
    /\ pc = "check"
    /\ ~Usable(key.q)
    /\ pc' = "adopted"
    /\ UNCHANGED <<key, h, signVars, w, s, honest, vrfyVars>>

-----------------------------------------------------------------------------
(***************************************************************************)
(* An attempt of e8_sign_sampler_core.  "broken" stands for the errors     *)
(* that end it.                                                            *)
(***************************************************************************)
Blocks == 0 .. k4 - 1

\* The sampler: each block of the result solves P z = x in the block's coset.
Sampled(coset, step) ==
    FromBlocks([r \in Blocks |->
        LET tau == BlockOf(coset, r)
            aim == BlockOf(step, r)
        IN  SolveP(BlockApplyP([b \in 1 .. 8 |-> tau[b] + 2 * aim[b]]), tau)])

Challenge ==
    /\ pc = "ready"
    /\ \E x \in Challenges : h' = x /\ t' = CosetOf(key.basis, x)
    /\ pc' = "challenged"
    /\ UNCHANGED <<key, z, w, s, honest, vrfyVars>>

Sample ==
    /\ pc = "challenged"
    /\ \E step \in Steps : z' = Sampled(t, step)
    /\ pc' = "sampled"
    /\ UNCHANGED <<key, h, t, w, s, honest, vrfyVars>>

\* The norm that the sampler returns, from the blocks.
SampleNorm(v) == SumOver(Blocks, LAMBDA r : BlockNorm2(BlockOf(v, r)))

Retry ==
    /\ \/ pc = "sampled" /\ SampleNorm(z) > Bound
       \/ pc = "chosen" /\ Integral(h, w) /\ ~FitsInt16(HalfOf(h, w))
    /\ pc' = "ready"
    /\ h' = ZeroVector /\ t' = ZeroVector /\ z' = ZeroVector /\ w' = ZeroVector
    /\ UNCHANGED <<key, s, honest, vrfyVars>>

\* compute_s_from_sample.
InvertSample ==
    /\ pc = "sampled"
    /\ SampleNorm(z) <= Bound
    /\ \E v \in {InverseWNtt(key.basis, z)} :
          /\ w' = v
          /\ pc' = IF v # NoVector /\ <<Mod2(z[1]), Mod2(z[2])>> = t
                   THEN "inverted" ELSE "broken"
    /\ UNCHANGED <<key, h, signVars, s, honest, vrfyVars>>

\* compute_s_from_w.
Choose ==
    /\ pc = "inverted"
    /\ w' = SymmetricChoice(w)
    /\ pc' = IF Integral(h, w') THEN "chosen" ELSE "broken"
    /\ UNCHANGED <<key, h, signVars, s, honest, vrfyVars>>

Sign ==
    /\ pc = "chosen"
    /\ FitsInt16(HalfOf(h, w))
    /\ s' = HalfOf(h, w)
    /\ honest' = TRUE
    /\ pc' = "sent"
    /\ UNCHANGED <<key, h, signVars, w, vrfyVars>>

-----------------------------------------------------------------------------
(***************************************************************************)
(* What arrives.                                                           *)
(***************************************************************************)
VectorAdd(v, d) == [c \in 1 .. 2 |-> PolyAdd(v[c], d[c])]

\* Each coefficient arrives as 16 bits.
Change ==
    /\ pc = "sent"
    /\ honest
    /\ \E d \in Changes : FitsInt16(VectorAdd(s, d)) /\ s' = VectorAdd(s, d)
    /\ honest' = FALSE
    /\ UNCHANGED <<pc, key, h, signVars, w, vrfyVars>>

Forge ==
    /\ pc \in {"ready", "adopted"}
    /\ h' \in Challenges
    /\ s' \in Forgeries
    /\ pc' = "sent"
    /\ UNCHANGED <<key, signVars, w, honest, vrfyVars>>

-----------------------------------------------------------------------------
(***************************************************************************)
(* Both verifiers: up to the primes, and after each.                       *)
(***************************************************************************)
\* e8_verify_finish and e8_verify_finish_ref; only the first looks at the key.
Begin ==
    /\ pc = "sent"
    /\ ref' \in BOOLEAN
    /\ w' = WOf(h, s)
    /\ IF (ref' \/ DecodesAsKey(key.q)) /\ SymBreak(w')
       THEN pc' = "load" /\ i' = 1
       ELSE pc' = "done" /\ i' = i
    /\ UNCHANGED <<key, h, signVars, s, honest, buffers, tnorm, verdict>>

LastPrime == IF ref THEN Len(Primes) ELSE VrfyPrimes
EarlyMax == Bound * 2^(LogN - 1)
Agrees(x) == IF i = 1 THEN ref \/ x <= EarlyMax ELSE x = tnorm

\* What x, the half of a trace in this prime, decides.
Decide(x) ==
    /\ tnorm' = x
    /\ IF Agrees(x) /\ i < LastPrime
       THEN pc' = "load" /\ i' = i + 1 /\ verdict' = verdict
       ELSE /\ pc' = "done"
            /\ i' = i
            /\ verdict' = (Agrees(x) /\ x % hn = 0 /\ x \div hn <= Bound)

P == Primes[i]
R2 == MpMul(R % P.p, R % P.p, P)
R3 == MpMul(R2, R % P.p, P)
HalfSum(term(_)) == FoldLeft(LAMBDA a, u : MpAdd(a, term(u), P), 0, Range0(hn))

-----------------------------------------------------------------------------
(***************************************************************************)
(* completion_half, for one prime, in its two buffers.                     *)
(***************************************************************************)
At(stage) == pc = stage /\ ~ref
Stay == UNCHANGED <<key, h, signVars, w, s, honest, ref>>

Load ==
    /\ At("load")
    /\ c2' = Ntt(Residues(w[2], P), i)
    /\ c1' = NttAutoadj(key.q.q00, i)
    /\ pc' = "invert"
    /\ Stay /\ UNCHANGED <<i, nnacc, tnorm, verdict>>

\* The inverse by Fermat, from the exponent's highest bit on, of a value
\* divided by R; the result is not.
FermatInverse(x) ==
    LET xm == Montymul(x, R2, P)
        step(y, k) ==
            LET y2 == Montymul(y, y, P)
            IN  IF ((P.p - 2) \div 2^(WordBits - 1 - k)) % 2 = 1 THEN Montymul(y2, xm, P) ELSE y2
    IN  Montymul(FoldLeft(step, R % P.p, Range0(WordBits)), 1, P)

\* Montgomery's trick: the products of the first values, one inversion, and
\* back down.
Prefix == FoldLeft(LAMBDA a, u : Append(a, Montymul(Last(a), c1[u], P)),
                   <<c1[0]>>, [u \in 1 .. hn - 1 |-> u])
BackDown(prefix) ==
    LET down(a, u) == [bx |-> Montymul(a.bx, c1[u], P),
                       inv |-> <<Montymul(a.bx, prefix[u], P)>> \o a.inv]
        end == FoldLeft(down, [bx |-> FermatInverse(Last(prefix)), inv |-> <<>>],
                        [u \in 1 .. hn - 1 |-> hn - u])
    IN  <<end.bx>> \o end.inv

Invert ==
    /\ At("invert")
    /\ \E prefix \in {Prefix} :
          IF Last(prefix) = 0
          THEN pc' = "done" /\ c1' = c1
          ELSE \E inv \in {BackDown(prefix)} :
                  pc' = "divide" /\ c1' = [u \in 0 .. hn - 1 |-> inv[u + 1]]
    /\ Stay /\ UNCHANGED <<i, c2, nnacc, tnorm, verdict>>

\* d = w1/q00, and the sum's part that is multiplied by Delta.
Half(u) == IF u < hn THEN u ELSE Opposite(u)
Divide ==
    /\ At("divide")
    /\ c2' = [u \in Index |-> Montymul(c2[u], c1[Half(u)], P)]
    /\ nnacc' = HalfSum(LAMBDA u :
                   Montymul(Montymul(c2'[u], c2[Opposite(u)], P), DeltaMont[i][u], P))
    /\ pc' = "cross"
    /\ Stay /\ UNCHANGED <<i, c1, tnorm, verdict>>

\* q01 d.
Cross ==
    /\ At("cross")
    /\ \E t01 \in {Ntt(Residues(key.q.q01, P), i)} :
          c1' = [u \in Index |-> Montymul(Montymul(t01[u], c2[u], P), R3, P)]
    /\ pc' = "add"
    /\ Stay /\ UNCHANGED <<i, c2, nnacc, tnorm, verdict>>

\* e = w0 + q01 d; the buffer is then free for q00 once more.
KeepBuffer == c1' = c1
ReloadQ00 == c1' = NttAutoadj(key.q.q00, i)
Add ==
    /\ At("add")
    /\ \E t0 \in {Ntt(Residues(w[1], P), i)} :
          c2' = [u \in Index |-> MpAdd(t0[u], c1[u], P)]
    /\ ReloadQ00
    /\ pc' = "trace"
    /\ Stay /\ UNCHANGED <<i, nnacc, tnorm, verdict>>

Trace ==
    /\ At("trace")
    /\ \E x \in {MpAdd(nnacc, HalfSum(LAMBDA u :
                    Montymul(c1[u], Montymul(c2[u], c2[Opposite(u)], P), P)), P)} :
          \E y \in {Montymul(x, R3, P)} : nnacc' = y /\ Decide(y)
    /\ Stay /\ UNCHANGED <<c1, c2>>

-----------------------------------------------------------------------------
(***************************************************************************)
(* e8_completion_half_mod: every transform anew, an inversion for each     *)
(* coefficient.                                                            *)
(***************************************************************************)
RefAt(stage) == pc = stage /\ ref

RefLoad ==
    /\ RefAt("load")
    /\ c1' = [q00 |-> Ntt(SetI32(key.q.q00, P), i), q01 |-> Ntt(SetI32(key.q.q01, P), i),
              w0 |-> Ntt(SetI32(w[1], P), i), w1 |-> Ntt(SetI32(w[2], P), i),
              delta |-> Ntt(SetI32(Delta, P), i)]
    /\ pc' = "divide"
    /\ Stay /\ UNCHANGED <<i, c2, nnacc, tnorm, verdict>>

RefDivide ==
    /\ RefAt("divide")
    /\ IF \E u \in Index : c1.q00[u] = 0
       THEN pc' = "done" /\ c2' = c2
       ELSE pc' = "trace" /\ c2' = [u \in Index |-> MpMul(c1.w1[u], MpPow(c1.q00[u], P.p - 2, P), P)]
    /\ Stay /\ UNCHANGED <<i, c1, nnacc, tnorm, verdict>>

RefTrace ==
    /\ RefAt("trace")
    /\ LET e(u) == MpAdd(c1.w0[u], MpMul(c1.q01[u], c2[u], P), P)
           v(u) == Opposite(u)
           term(u) == MpAdd(MpMul(c1.q00[u], MpMul(e(u), e(v(u)), P), P),
                            MpMul(c1.delta[u], MpMul(c2[u], c1.w1[v(u)], P), P), P)
       IN  \E x \in {HalfSum(term)} : nnacc' = x /\ Decide(x)
    /\ Stay /\ UNCHANGED <<c1, c2>>

Next ==
    \/ Draw \/ Keep \/ Discard \/ Adopt
    \/ Challenge \/ Sample \/ Retry \/ InvertSample \/ Choose \/ Sign
    \/ Change \/ Forge \/ Begin
    \/ Load \/ Invert \/ Divide \/ Cross \/ Add \/ Trace
    \/ RefLoad \/ RefDivide \/ RefTrace

Spec == Init /\ [][Next]_vars

-----------------------------------------------------------------------------
(***************************************************************************)
(* Properties.                                                             *)
(***************************************************************************)
\* What verification is by its definition, in integers.
Definition == SymBreak(w) /\ QNormDirect(QForm(key.basis), w) <= Bound

\* The public form that keygen brings back from one prime is B* S B.  The
\* verifier's residues, half of q00's values, one inversion for all of them,
\* two buffers and an early end come to the definition: a signature is
\* accepted if and only if its w has the right sign and its norm under the
\* whole form, computed in integers, is within the bound.  That holds of every
\* key that it can divide by; a key that keygen has kept is one.  The
\* reference verifier looks at no limits, and divides in one prime more than
\* keygen has checked.
VerdictExact ==
    /\ pc = "check" => \A e \in DOMAIN key.q : key.q[e] = QForm(key.basis)[e]
    /\ pc = "done" =>
        verdict = (/\ Definition
                   /\ \A j \in 1 .. LastPrime : Invertible(key.q.q00, j)
                   /\ ref \/ DecodesAsKey(key.q))

\* What is sampled in the coset is a signature: the sampler's blocks are in
\* the lattice and the norm it found is that of P z, the w that comes back
\* from the first prime is that of the inverse basis, no check on the way
\* fails, and the receiver, who knows h and s only, finds the same norm and
\* accepts.
SamplesSign ==
    /\ pc # "broken"
    /\ pc = "inverted" =>
          /\ w = InverseW(key.basis, z)
          /\ SampleNorm(z) = LET x == ApplyP(z) IN Inner(x[1], x[1]) + Inner(x[2], x[2])
    /\ (pc = "sent" /\ honest) =>
          QNormDirect(QForm(key.basis), WOf(h, s)) = SampleNorm(z)
    /\ (pc = "done" /\ honest /\ ~ref) => verdict
=============================================================================
