-------------------------------- MODULE E8Sign --------------------------------
(***************************************************************************)
(* Signing: e8_sign_sampler_core() of e8/src/e8_sign.c and the public      *)
(* entry e8_sign_finish_inner() of e8/src/e8_api.c.  A call hashes the     *)
(* message once and then makes attempts, each with its own salt, target    *)
(* coset and sampler streams, until a sample is short enough and its       *)
(* signature fits, an attempt fails, or the attempts are used up.  The     *)
(* caller-supplied-salt signers (e8/src/e8_sign_legacy.c) run the same     *)
(* loop with one salt and one target for all attempts.                     *)
(*                                                                         *)
(* SHAKE256 is injective: a hash is the tuple of what it absorbed.  The    *)
(* sampler is module E8Sampler seen from outside: it draws a seed, and     *)
(* returns 0, or 1 with a sample of the target coset and its squared norm. *)
(***************************************************************************)
EXTENDS Integers, Sequences, FiniteSets

CONSTANTS
    Messages,       \* messages with the key's hpub
    Rand,           \* byte strings the RNG may return, again and again
    Norms,          \* squared norms of a sample
    NormBound,      \* the verification bound
    Int64Max,       \* INT64_MAX
    MaxAttempts,    \* E8_SIGN_MAX_ATTEMPTS, max_attempts of the legacy calls
    CounterMod      \* 2^32: the attempt counters are uint32_t

ASSUME NormsAssumption == Norms \subseteq Nat /\ NormBound \in Nat \ {0}
                          /\ Int64Max \in Nat /\ NormBound <= Int64Max
ASSUME AttemptsAssumption == MaxAttempts \in Nat \ {0}
ASSUME CounterAssumption == CounterMod \in Nat /\ 2 * MaxAttempts <= CounterMod

VARIABLES
    \* The prepared key buffer of the application, and how it set the sampler
    magic,            \* its magic is E8_PREPARED_KEY_MAGIC
    legacy_mode,      \* e8_sampler_rng_mode
    automatic,        \* the sampler's thread count is automatic
    \* The call
    pc,
    entry,            \* "encoded", "prepared" or "salt": which entry it is
    hm,               \* SHAKE256(message || hpub)
    attempt,
    \* The locals of an attempt
    salt,             \* sig_salt
    h,                \* the challenge, h0b and h1b
    t,                \* the target coset, t0 and t1
    prefix,           \* the absorbed prefix of the attempt's streams
    z,                \* the sample: its coset and norm
    \* What the caller gets
    ret,
    trace_attempts,
    sig,              \* the signature, by what its polynomials are made of
    \* History of the call: lengths asked of the RNG, and the keyed hashes
    requests,
    absorbed

keyVars == <<magic, legacy_mode, automatic>>
attemptVars == <<salt, h, t, prefix, z>>
callVars == <<pc, entry, hm, attempt, ret, trace_attempts>>
history == <<requests, absorbed>>
vars == <<keyVars, callVars, attemptVars, sig, history>>

None == <<>>

-----------------------------------------------------------------------------
(***************************************************************************)
(* Hashes.                                                                 *)
(***************************************************************************)

\* hash_message, hash_challenge, e8_compute_t_mod2_prepared.
HashMessage(m) == <<"hm", m>>
HashChallenge(m, x) == <<"h", m, x>>
Coset(x) == <<"t", x>>

\* The salt key: kgseed of an encoded key, f || g of a prepared one, nothing
\* for a caller-supplied salt.
SaltKey ==
    CASE entry = "encoded" -> "kgseed"
      [] entry = "prepared" -> "fg"
      [] entry = "salt" -> "empty"

\* The attempt counters, enc32le((uint32_t)attempt << 1), plus 1.
SameCounter(a) == a % CounterMod
SaltCounter(a) == (2 * a) % CounterMod
PrefixCounter(a) == (2 * a + 1) % CounterMod

\* derive_salt and e8_sampler_prefix_init absorb these first; derive_salt then
\* absorbs what the RNG gave, and hashes it all to the salt.
SaltInput == <<hm, SaltKey, SaltCounter(attempt)>>
PrefixInput == <<hm, SaltKey, PrefixCounter(attempt)>>

\* The salt of an attempt, and one that the caller supplies.
KeptSalt(x) == IF attempt > 0 THEN salt ELSE <<"derived", SaltInput, x>>
DerivedSalt(x) == <<"derived", SaltInput, x>>
GivenSalt(x) == <<"given", x>>

\* What is asked of the RNG: a salt, or a seed of so many bytes.
SaltRequest == <<"salt">>
BoundSeed == <<"seed", 40>>
MasterSeed == <<"seed", 32>>

-----------------------------------------------------------------------------
Init ==
    /\ magic = FALSE /\ legacy_mode = "worker" /\ automatic = FALSE
    /\ pc = "idle" /\ entry = "encoded" /\ hm = None /\ attempt = 0
    /\ salt = None /\ h = None /\ t = None /\ prefix = None
    /\ z = None
    /\ ret = 0 /\ trace_attempts = 0
    /\ sig = None
    /\ requests = <<>> /\ absorbed = <<>>

\* e8_prepare_private_key: the magic is cleared first and set at the end.
PrepareKey ==
    /\ pc = "idle"
    /\ magic' = TRUE
    /\ UNCHANGED <<legacy_mode, automatic, callVars, attemptVars, sig, history>>

\* e8_sampler_set_rng_mode, and e8_sampler_set_thread_count to an automatic
\* or a fixed count.
SetMode(m, a) ==
    /\ pc = "idle"
    /\ legacy_mode' = m /\ automatic' = a
    /\ UNCHANGED <<magic, callVars, attemptVars, sig, history>>

\* e8_sign_finish_prepared finds no prepared key in the buffer.
RefuseKey ==
    /\ pc = "idle" /\ ~magic
    /\ entry' = "prepared" /\ ret' = 0 /\ trace_attempts' = 0
    /\ requests' = <<>> /\ absorbed' = <<>>
    /\ UNCHANGED <<keyVars, pc, hm, attempt, attemptVars, sig>>

\* A call of the public API, up to the loop.
StartApi(e, m) ==
    /\ pc = "idle"
    /\ e = "prepared" => magic
    /\ entry' = e /\ hm' = HashMessage(m)
    /\ attempt' = 0 /\ trace_attempts' = 0
    /\ pc' = "attempt"
    /\ requests' = <<>> /\ absorbed' = <<>>
    /\ UNCHANGED <<keyVars, ret, attemptVars, sig>>

\* A call with the caller's salt: h and t are computed once.  The trace of
\* the attempts is left as it was until the loop is over.
StartSalted(m, x) ==
    /\ pc = "idle"
    /\ entry' = "salt" /\ hm' = HashMessage(m)
    /\ salt' = GivenSalt(x)
    /\ h' = HashChallenge(hm', salt') /\ t' = Coset(h')
    /\ attempt' = 0
    /\ pc' = "attempt"
    /\ requests' = <<>> /\ absorbed' = <<>>
    /\ UNCHANGED <<keyVars, ret, trace_attempts, prefix, z, sig>>

\* The condition of the loop.
OneMoreAttempt == attempt <= MaxAttempts
AttemptLeft == attempt < MaxAttempts

\* The salt of this attempt, its challenge and its target coset.
StaleChallenge(x) == IF attempt = 0 THEN HashChallenge(hm, x) ELSE h
NewChallenge(x) == HashChallenge(hm, x)

DrawSalt(x) ==
    /\ pc = "attempt" /\ AttemptLeft /\ entry # "salt"
    /\ salt' = DerivedSalt(x)
    /\ h' = NewChallenge(salt') /\ t' = Coset(h')
    /\ requests' = Append(requests, SaltRequest)
    /\ absorbed' = Append(absorbed, SaltInput)
    /\ pc' = "prefix"
    /\ UNCHANGED <<keyVars, entry, hm, attempt, ret, trace_attempts, prefix, z,
                   sig>>

\* The streams of the sampler are bound to the attempt: the public API always
\* binds them, a caller-supplied salt takes the configured mode, and an
\* automatic thread count overrides the mode.
ModeOnly == legacy_mode = "worker" \/ automatic
Bound == entry # "salt" \/ legacy_mode = "worker" \/ automatic

\* The binding prefix of this attempt's sampler streams.  Streams that are
\* not bound start from the seed alone.
MakePrefix ==
    /\ \/ pc = "prefix"
       \/ pc = "attempt" /\ AttemptLeft /\ entry = "salt"
    /\ prefix' = PrefixInput
    /\ absorbed' = IF Bound THEN Append(absorbed, PrefixInput) ELSE absorbed
    /\ pc' = "sample"
    /\ UNCHANGED <<keyVars, entry, hm, attempt, ret, trace_attempts, salt, h, t,
                   z, sig, requests>>

\* The seed of the sampler.
SeedRequest == IF Bound THEN BoundSeed ELSE MasterSeed

\* The call returns, and its locals are gone.
Return(r) ==
    /\ pc' = "idle" /\ ret' = r
    /\ salt' = None /\ h' = None /\ t' = None /\ prefix' = None
    /\ z' = None

\* sample_z returns 0: the call fails.
SampleFails ==
    /\ pc = "sample"
    /\ requests' = Append(requests, SeedRequest)
    /\ Return(0)
    /\ UNCHANGED <<keyVars, entry, hm, attempt, trace_attempts, sig, absorbed>>

\* The norm is within the verification bound.
LooseBound(n) == n <= NormBound + 1
WithinBound(n) == n <= NormBound

\* sample_z returns 1 with a sample of the target coset: a norm above
\* INT64_MAX fails the call, one above the bound the attempt.
Sample(n) ==
    /\ pc = "sample"
    /\ requests' = Append(requests, SeedRequest)
    /\ \/ n > Int64Max /\ Return(0) /\ UNCHANGED attempt
       \/ /\ n <= Int64Max /\ z' = [coset |-> t, norm |-> n]
          /\ IF WithinBound(n)
             THEN pc' = "reconstruct" /\ UNCHANGED attempt
             ELSE pc' = "attempt" /\ attempt' = attempt + 1
          /\ UNCHANGED <<ret, salt, h, t, prefix>>
    /\ UNCHANGED <<keyVars, entry, hm, trace_attempts, sig, absorbed>>

\* compute_s_from_sample: -1 for a sample outside the target coset, or a
\* product r finds beyond the range of the prime; 0 for a coefficient that
\* does not fit 16 bits; 1 with the signature polynomials.
SampleToS(r) == IF z.coset # t THEN -1 ELSE r

\* The last step of an attempt: it fails the call, is rejected, or is
\* encoded and the call returns 1.
Reconstruct(r) ==
    /\ pc = "reconstruct"
    /\ \/ /\ SampleToS(r) = -1
          /\ Return(0) /\ UNCHANGED <<attempt, sig, trace_attempts>>
       \/ /\ SampleToS(r) = 0
          /\ pc' = "attempt" /\ attempt' = attempt + 1
          /\ UNCHANGED <<ret, attemptVars, sig, trace_attempts>>
       \/ /\ SampleToS(r) = 1
          /\ sig' = [salt |-> salt, challenge |-> h, sample |-> z]
          /\ trace_attempts' = attempt + 1
          /\ Return(1) /\ UNCHANGED attempt
    /\ UNCHANGED <<keyVars, entry, hm, history>>

\* The attempts are used up.
Exhausted ==
    /\ pc = "attempt" /\ ~AttemptLeft
    /\ trace_attempts' = MaxAttempts
    /\ Return(0)
    /\ UNCHANGED <<keyVars, entry, hm, attempt, sig, history>>

-----------------------------------------------------------------------------
Attempt ==
    \/ \E x \in Rand : DrawSalt(x)
    \/ MakePrefix
    \/ SampleFails
    \/ \E n \in Norms : Sample(n)
    \/ \E r \in {-1, 0, 1} : Reconstruct(r)
    \/ Exhausted

Next ==
    \/ PrepareKey
    \/ \E m \in {"worker", "block"}, a \in BOOLEAN : SetMode(m, a)
    \/ RefuseKey
    \/ \E e \in {"encoded", "prepared"}, m \in Messages : StartApi(e, m)
    \/ \E m \in Messages, x \in Rand : StartSalted(m, x)
    \/ Attempt

Spec == Init /\ [][Next]_vars

-----------------------------------------------------------------------------
(***************************************************************************)
(* Properties.                                                             *)
(***************************************************************************)
Salts == {GivenSalt(x) : x \in Rand} \cup
         {<<"derived", <<HashMessage(m), k, c>>, x>> : m \in Messages,
             k \in {"kgseed", "fg"}, c \in 0 .. CounterMod - 1, x \in Rand}
Challenges == {HashChallenge(HashMessage(m), x) : m \in Messages, x \in Salts}
Samples == [coset : {Coset(x) : x \in Challenges}, norm : Norms]

\* Every variable has its type.
TypeOK ==
    /\ magic \in BOOLEAN /\ automatic \in BOOLEAN
    /\ legacy_mode \in {"worker", "block"}
    /\ pc \in {"idle", "attempt", "prefix", "sample", "reconstruct"}
    /\ entry \in {"encoded", "prepared", "salt"}
    /\ hm \in {HashMessage(m) : m \in Messages} \cup {None}
    /\ attempt \in 0 .. MaxAttempts
    /\ salt \in Salts \cup {None}
    /\ h \in Challenges \cup {None}
    /\ z \in Samples \cup {None}
    /\ ret \in {0, 1} /\ trace_attempts \in 0 .. MaxAttempts
    /\ Len(requests) <= 2 * MaxAttempts

\* A signature that was returned verifies: its polynomials are a sample,
\* within the bound, of the coset that the verifier computes again from the
\* message and the salt in the signature, never of an earlier attempt's.
Verifies(m, x) ==
    LET c == HashChallenge(m, x.salt)
    IN  /\ x.challenge = c
        /\ x.sample.coset = Coset(c)
        /\ x.sample.norm <= NormBound

SignatureVerifies == pc = "idle" /\ ret = 1 => Verifies(hm, sig)

\* The salt in a signature of the public API is the one derived, with HAWK's
\* counter, in the attempt the call reports as its last.
SaltOfLastAttempt ==
    pc = "idle" /\ ret = 1 /\ entry # "salt" =>
       \E x \in Rand :
          sig.salt =
             <<"derived", <<hm, SaltKey, 2 * (trace_attempts - 1)>>, x>>

\* The RNG is asked for a salt and then a 40-byte seed in every attempt of
\* the public API, and nothing else, however the application has set the
\* sampler for other calls; with a caller-supplied salt, for a seed in every
\* attempt.  A call that succeeds reports as many attempts.
RequestsOf(attempts) ==
    IF entry = "salt" THEN attempts ELSE 2 * attempts

TwoRequestsPerAttempt ==
    /\ entry # "salt" => \A i \in DOMAIN requests :
          requests[i] = IF i % 2 = 1 THEN <<"salt">> ELSE <<"seed", 40>>
    /\ pc = "idle" /\ ret = 1 => Len(requests) = RequestsOf(trace_attempts)

\* No two keyed hashes of a call, of its salts and of its bound sampler
\* streams, start alike, even if the RNG repeats itself: the streams differ
\* from attempt to attempt and are never the salt's.
HashesDistinct ==
    \A i, j \in DOMAIN absorbed : absorbed[i] = absorbed[j] => i = j

-----------------------------------------------------------------------------
(***************************************************************************)
(* The inductive invariant.                                                *)
(***************************************************************************)
InAttempt == pc \in {"prefix", "sample", "reconstruct"}
Calling == pc # "idle"

\* What the locals of the call hold, relative to one another: in an attempt,
\* the challenge is that of the salt and the target that of the challenge.
LocalsInv ==
    /\ Calling => hm \in {HashMessage(m) : m \in Messages}
    /\ InAttempt => attempt < MaxAttempts
    /\ InAttempt \/ (pc = "attempt" /\ entry = "salt") =>
          salt \in Salts /\ h = HashChallenge(hm, salt) /\ t = Coset(h)
    /\ Calling /\ entry # "salt" /\ InAttempt =>
          \E x \in Rand : salt = <<"derived", <<hm, SaltKey, 2 * attempt>>, x>>
    /\ pc = "prefix" => entry # "salt"
    /\ pc = "reconstruct" =>
          z.coset = t /\ z.norm \in Norms /\ z.norm <= NormBound

\* How many requests and keyed hashes the call has made at each point.
Done == IF pc = "reconstruct" THEN attempt + 1 ELSE attempt
Half == IF entry # "salt" /\ pc \in {"prefix", "sample"} THEN 1 ELSE 0

RequestsInv ==
    /\ Calling => Len(requests) = RequestsOf(Done) + Half
    /\ requests \in Seq({<<"salt">>, <<"seed", 40>>, <<"seed", 32>>})
    /\ entry # "salt" => \A i \in DOMAIN requests :
          requests[i] = IF i % 2 = 1 THEN <<"salt">> ELSE <<"seed", 40>>

\* The counter of keyed hash i of the call.
CounterOf(i) == IF entry = "salt" THEN 2 * i - 1 ELSE i - 1

AbsorbedInv ==
    /\ absorbed \in Seq({hm} \X {SaltKey} \X Nat)
    /\ \A i \in DOMAIN absorbed :
          absorbed[i] = <<hm, SaltKey, CounterOf(i)>>
    /\ Calling /\ (entry # "salt" \/ Bound) =>
          Len(absorbed) = IF entry = "salt"
                          THEN IF InAttempt THEN attempt + 1 ELSE attempt
                          ELSE IF pc \in {"sample", "reconstruct"}
                               THEN 2 * attempt + 2 ELSE 2 * attempt + Half
    /\ Calling /\ ~Bound => absorbed = <<>>

\* The inductive invariant: what makes a retry forget the attempt before it.
SignInv ==
    /\ TypeOK
    /\ LocalsInv
    /\ RequestsInv
    /\ AbsorbedInv
    /\ SignatureVerifies
    /\ SaltOfLastAttempt
    /\ pc = "idle" /\ ret = 1 => Len(requests) = RequestsOf(trace_attempts)
=============================================================================
