------------------------------ MODULE HawkSign ------------------------------
(***************************************************************************)
(* The HAWK signer, sign_finish_inner() of src/hawk_sign.c and the variant *)
(* signer the benchmarks derive from it: an unbounded loop of attempts     *)
(* over one buffer, tmp, whose areas are reused for one thing after        *)
(* another.  An encoded key has f and g expanded into that buffer, where   *)
(* the last steps of an attempt overwrite them; a decoded key is read from *)
(* its own memory.                                                         *)
(*                                                                         *)
(* Data are terms: what an area holds is the operation that made it,       *)
(* applied to what that operation read, until the code has no more use for *)
(* it: then it is Junk, which is a term of nothing.                        *)
(***************************************************************************)
EXTENDS HawkSplit

CONSTANTS
    Keys,         \* private keys
    Messages,
    Rand,         \* what the RNG gives for a salt
    MaxNorm,      \* max_xnorm
    CounterMod,   \* 2^32: attempt is a uint32_t
    Threads       \* thread counts the harness selects

ASSUME MaxNormAssumption == MaxNorm \in Nat /\ MaxNorm < NormTop
ASSUME CounterAssumption == CounterMod \in Nat \ {0}
ASSUME SelectAssumption == Threads \subseteq 1 .. MaxThreads

VARIABLES
    pc,
    \* The arguments: the key, whether it is decoded, use_shake
    key, decoded, use_shake,
    \* The locals
    hm, attempt, salt, h1buf,
    \* The areas of tmp, besides those of x0 and x1: g, then what lies
    \* between it and x0, the mod 2 values and scratch, and f
    mem,
    \* What the caller gets
    sig

argVars == <<key, decoded, use_shake>>
localVars == <<hm, attempt, salt, h1buf>>
signVars == <<pc, argVars, localVars, mem, sig>>
vars == <<splitVars, signVars>>

Areas == {"g", "mod2", "scratch", "f"}
NoSig == <<>>

\* The two halves of the coordinates.
X0 == 0 .. Degree - 1
X1 == Degree .. 2 * Degree - 1

-----------------------------------------------------------------------------
(***************************************************************************)
(* Terms.                                                                  *)
(***************************************************************************)
PolyF(k) == <<"f", k>>
PolyG(k) == <<"g", k>>

\* The hash of the message and the key's hpub; the salt; the challenge.
HashMessage(k, m) == <<"hm", k, m>>
HashSalt(m, material, a, r) == <<"salt", m, material, a, r>>
HashChallenge(m, s) == <<"h", m, s>>

\* basis_m2_mul: the target, from f and g modulo 2 and the key's F2 and G2.
Target(f, g, k, h) == <<"t", f, g, k, h>>

\* What the signer absorbs of the key.
KeyMaterial == IF decoded THEN <<"fg", key>> ELSE <<"kgseed", key>>

-----------------------------------------------------------------------------
Init ==
    /\ SplitInit
    /\ pc = "idle"
    /\ key \in Keys /\ decoded = FALSE /\ use_shake = TRUE
    /\ hm = Junk /\ attempt = 0 /\ salt = Junk /\ h1buf = Junk
    /\ mem = [a \in Areas |-> Junk]
    /\ sig = NoSig

\* hawkv_select, between two signatures.
SelectVariant(s, t) ==
    /\ pc = "idle"
    /\ Select(s, t)
    /\ UNCHANGED signVars

\* Hawk_regen_fg into the buffer, of an encoded key.
Regen(m, k, d) ==
    IF d THEN m ELSE [m EXCEPT !["f"] = PolyF(k), !["g"] = PolyG(k)]

\* The call, up to the loop.
Start(k, d, s, m) ==
    /\ pc = "idle"
    /\ key' = k /\ decoded' = d /\ use_shake' = s
    /\ mem' = Regen(mem, k, d)
    /\ hm' = HashMessage(k, m)
    /\ attempt' = 0
    /\ sig' = NoSig
    /\ pc' = "attempt"
    /\ UNCHANGED <<splitVars, salt, h1buf>>

\* f and g where the call finds them.
F == IF decoded THEN PolyF(key) ELSE mem["f"]
G == IF decoded THEN PolyG(key) ELSE mem["g"]

\* The head of an attempt: the salt, the challenge and the target.
MakeTarget(r) ==
    /\ pc = "attempt"
    /\ salt' = IF use_shake THEN HashSalt(hm, KeyMaterial, attempt, r)
               ELSE <<"rand", r>>
    /\ LET h == HashChallenge(hm, salt')
       IN  mem' = [mem EXCEPT !["mod2"] = [h |-> h, t |-> Target(F, G, key, h)],
                              !["scratch"] = Junk]
    /\ pc' = "sample"
    /\ UNCHANGED <<splitVars, argVars, hm, attempt, h1buf, sig>>

\* The sampler is called: the selected one in SHAKE mode.
CallSampler ==
    /\ pc = "sample"
    /\ \/ use_shake /\ split /\ SplitCall(mem["mod2"].t) /\ pc' = "sampling"
       \/ ~(use_shake /\ split) /\ SampleAll(mem["mod2"].t) /\ pc' = "sampled"
    /\ UNCHANGED <<argVars, localVars, mem, sig>>

\* A step of the split sampler, which may be its return.
Sampling(Step) ==
    /\ Step
    /\ pc' = IF pc = "sampling" /\ spc' = "off" THEN "sampled" ELSE pc
    /\ UNCHANGED <<argVars, localVars, mem, sig>>

\* attempt += 2 and once more around the loop.
Again == pc' = "attempt" /\ attempt' = (attempt + 2) % CounterMod

WithinNorm == xsn <= MaxNorm

\* The norm is too large: f and g are still there.
RejectNorm ==
    /\ pc = "sampled" /\ ~WithinNorm
    /\ Again
    /\ UNCHANGED <<splitVars, argVars, hm, salt, h1buf, mem, sig>>

\* h1 is saved, and w1 <- g * x0: g widens from its area over the mod 2
\* values, x0 from its own over the scratch.
TimesG ==
    /\ pc = "sampled" /\ WithinNorm
    /\ h1buf' = mem["mod2"].h
    /\ mem' = [mem EXCEPT !["g"] = <<"w1", G, Restrict(x, X0)>>,
                          !["mod2"] = Junk, !["scratch"] = Junk]
    /\ x' = [v \in Coordinates |-> IF v \in X0 THEN Junk ELSE x[v]]
    /\ pc' = "product"
    /\ UNCHANGED <<selectVars, callVars, workerVars, poolVars, argVars, hm,
                   attempt, salt, sig>>

\* w2 <- x1 over the scratch and x0, w3 <- f, which widens from its area over
\* x1; then w3 <- w2 * w3 - w1.  symbreak's choice of a sign is part of the
\* term, as are f and g.
X1First == Restrict(x, X1)

TimesF ==
    /\ pc = "product"
    /\ mem' = [mem EXCEPT !["f"] = <<"w3", F, X1First, mem["g"]>>,
                          !["scratch"] = Junk]
    /\ x' = [v \in Coordinates |-> Junk]
    /\ pc' = "encode"
    /\ UNCHANGED <<selectVars, callVars, workerVars, poolVars, argVars,
                   localVars, sig>>

\* What an attempt leaves of the buffer: s1 over x1 and f, a product, or the
\* encoded signature, over g and the mod 2 values.
Spent == [a \in Areas |-> Junk]

\* f and g are expanded again, or, of a decoded key, still in their place.
AfterLimit == Regen(Spent, key, decoded)
AfterSize == Regen(Spent, key, decoded)

\* A coefficient of s1 is beyond the limit.
RejectLimit ==
    /\ pc = "encode"
    /\ mem' = AfterLimit
    /\ Again
    /\ UNCHANGED <<splitVars, argVars, hm, salt, h1buf, sig>>

\* The encoding, into the start of the buffer, is too long.
RejectSize ==
    /\ pc = "encode"
    /\ mem' = AfterSize
    /\ Again
    /\ UNCHANGED <<splitVars, argVars, hm, salt, h1buf, sig>>

\* The signature is encoded: the salt, and s1 = (h1 - w3) / 2.
Encode ==
    /\ pc = "encode"
    /\ sig' = [salt |-> salt, h1 |-> h1buf, s1 |-> mem["f"]]
    /\ mem' = Spent
    /\ pc' = "idle"
    /\ UNCHANGED <<splitVars, argVars, localVars>>

-----------------------------------------------------------------------------
SignStep ==
    \/ \E r \in Rand : MakeTarget(r)
    \/ CallSampler \/ RejectNorm
    \/ TimesG \/ TimesF
    \/ RejectLimit \/ RejectSize \/ Encode

Next ==
    \/ \E s \in BOOLEAN, t \in Threads : SelectVariant(s, t)
    \/ \E k \in Keys, d, s \in BOOLEAN, m \in Messages : Start(k, d, s, m)
    \/ SignStep
    \/ Sampling(CallStep)
    \/ \E w \in Workers : Sampling(WorkerStep(w))
    \/ \E s \in 0 .. MaxThreads - 2 : Sampling(PoolStep(s))

Spec == Init /\ [][Next]_vars

\* The threads run: the signer, and each worker; the pool's part is what
\* CmnPool is shown to grant.
Fairness ==
    /\ WF_vars(SignStep)
    /\ WF_vars(Sampling(CallStep))
    /\ \A w \in Workers : WF_vars(Sampling(WorkerStep(w)))
    /\ \A s \in 0 .. MaxThreads - 2 : WF_vars(Sampling(PoolStep(s)))

FairSpec == Spec /\ Fairness
-----------------------------------------------------------------------------
(***************************************************************************)
(* Properties.                                                             *)
(***************************************************************************)

\* The target of a challenge, and the vectors sampled for it.
TargetOf(s) == Target(PolyF(key), PolyG(key), key, HashChallenge(hm, s))
Vectors(t) == [Coordinates -> {Sample(t, c) : c \in CoordNorms}]
ShortVectors(t) == {y \in Vectors(t) : SquareSum(y) <= MaxNorm}

\* A signature verifies: it is h1 - 2 (g x0 - f x1) for the challenge of its
\* own salt, the f and g of its own key, and an x that was sampled, all of it,
\* for the target of that challenge, and is within the bound, however its
\* coordinates were shared among the workers.  Nothing of an earlier attempt,
\* or of what the buffer held before, is in it.
SignatureVerifies ==
    sig # NoSig =>
       /\ sig.h1 = HashChallenge(hm, sig.salt)
       /\ \E y \in ShortVectors(TargetOf(sig.salt)) :
             sig.s1 = <<"w3", PolyF(key), Restrict(y, X1),
                        <<"w1", PolyG(key), Restrict(y, X0)>>>>

\* The samples are not for ever above the bound, nor s1 beyond its limits.
Luck ==
    /\ []<>(pc = "sampled") => []<>(pc = "sampled" /\ WithinNorm)
    /\ SF_vars(Encode)

\* With that luck the signer returns, also with ranges that fail and jobs that
\* the pool refuses: it has no limit of attempts, and no failure path.
SignReturns == Luck => (pc # "idle" ~> pc = "idle")

-----------------------------------------------------------------------------
(***************************************************************************)
(* The inductive invariant.                                                *)
(***************************************************************************)
TypeOK ==
    /\ pc \in {"idle", "attempt", "sample", "sampling", "sampled", "product",
               "encode"}
    /\ key \in Keys /\ decoded \in BOOLEAN /\ use_shake \in BOOLEAN
    /\ attempt \in 0 .. CounterMod - 1
    /\ mem = [a \in Areas |-> mem[a]]

\* f and g are there whenever an attempt is going to read them.
KeyInv ==
    /\ pc \in {"attempt", "sample", "sampling", "sampled", "product"} =>
          F = PolyF(key)
    /\ pc \in {"attempt", "sample", "sampling", "sampled"} => G = PolyG(key)

\* What the areas hold at each point of an attempt.
BufferInv ==
    LET t == TargetOf(salt)
        h == HashChallenge(hm, salt)
    IN  /\ pc = "sampling" <=> spc # "off"
        /\ pc = "sampling" => target = t
        /\ pc \in {"sample", "sampling", "sampled"} =>
              mem["mod2"] = [h |-> h, t |-> t]
        /\ pc = "sampled" /\ xsn # NormTop => x \in Vectors(t) /\ xsn = SquareSum(x)
        /\ pc \in {"product", "encode"} => h1buf = h
        /\ pc = "product" =>
              \E y \in ShortVectors(t) :
                 /\ mem["g"] = <<"w1", PolyG(key), Restrict(y, X0)>>
                 /\ Restrict(x, X1) = Restrict(y, X1)
        /\ pc = "encode" =>
              \E y \in ShortVectors(t) :
                 mem["f"] = <<"w3", PolyF(key), Restrict(y, X1),
                              <<"w1", PolyG(key), Restrict(y, X0)>>>>

HawkInv ==
    /\ SplitInv
    /\ TypeOK
    /\ KeyInv
    /\ BufferInv
    /\ SignatureVerifies
=============================================================================
