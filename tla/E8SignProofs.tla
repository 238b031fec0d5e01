---------------------------- MODULE E8SignProofs ----------------------------
(***************************************************************************)
(* Proofs about E8Sign, for every set of messages, every RNG, every number *)
(* of attempts that the 32-bit counters can count, and every bound.        *)
(***************************************************************************)
EXTENDS E8Sign, SequenceTheorems, TLAPS

\* The attempt counters do not wrap.
LEMMA CounterFacts ==
    ASSUME NEW a \in 0 .. MaxAttempts - 1
    PROVE  /\ SaltCounter(a) = 2 * a /\ SaltCounter(a) \in 0 .. CounterMod - 1
           /\ PrefixCounter(a) = 2 * a + 1
<1>1. 2 * a \in 0 .. CounterMod - 1 /\ 2 * a + 1 \in 0 .. CounterMod - 1
  BY AttemptsAssumption, CounterAssumption
<1>2. \A x \in 0 .. CounterMod - 1 : x % CounterMod = x
  BY CounterAssumption, AttemptsAssumption
<1>3. QED
  BY <1>1, <1>2 DEF SaltCounter, PrefixCounter

LEMMA SignInit == Init => SignInv
<1> SUFFICES ASSUME Init PROVE SignInv
  OBVIOUS
<1>1. TypeOK
  <2>1. /\ Len(requests) = 0
        /\ attempt \in 0 .. MaxAttempts /\ trace_attempts \in 0 .. MaxAttempts
    BY AttemptsAssumption DEF Init
  <2>2. Len(requests) <= 2 * MaxAttempts
    BY <2>1, AttemptsAssumption
  <2>3. QED
    BY <2>1, <2>2 DEF Init, TypeOK
<1>2. LocalsInv
  BY DEF Init, LocalsInv, InAttempt, Calling
<1>3. RequestsInv
  BY DEF Init, RequestsInv, Calling
<1>4. AbsorbedInv
  BY DEF Init, AbsorbedInv, Calling
<1>5. QED
  BY <1>1, <1>2, <1>3, <1>4 DEF Init, SignInv, SignatureVerifies,
     SaltOfLastAttempt

LEMMA StepKey ==
    ASSUME SignInv,
           \/ PrepareKey
           \/ \E m \in {"worker", "block"}, a \in BOOLEAN : SetMode(m, a)
    PROVE  SignInv'
<1>1. pc = "idle" /\ UNCHANGED <<callVars, attemptVars, sig, history>>
  BY DEF PrepareKey, SetMode
<1>2. /\ magic' \in BOOLEAN /\ automatic' \in BOOLEAN
      /\ legacy_mode' \in {"worker", "block"}
  BY DEF PrepareKey, SetMode, SignInv, TypeOK
<1>3. QED
  BY <1>1, <1>2 DEF SignInv, callVars, attemptVars, history, TypeOK, LocalsInv,
     RequestsInv, AbsorbedInv, SignatureVerifies, SaltOfLastAttempt, InAttempt,
     Calling, SaltKey, CounterOf, RequestsOf

LEMMA StepRefuse ==
    ASSUME SignInv, RefuseKey
    PROVE  SignInv'
BY AttemptsAssumption DEF RefuseKey, SignInv, keyVars, attemptVars, TypeOK,
   LocalsInv,
   RequestsInv, AbsorbedInv, SignatureVerifies, SaltOfLastAttempt, InAttempt,
   Calling

LEMMA StepStartApi ==
    ASSUME SignInv, NEW e \in {"encoded", "prepared"}, NEW m \in Messages,
           StartApi(e, m)
    PROVE  SignInv'
BY AttemptsAssumption DEF StartApi, SignInv, keyVars, attemptVars, TypeOK,
   LocalsInv,
   RequestsInv, AbsorbedInv, SignatureVerifies, SaltOfLastAttempt, InAttempt,
   Calling, Done, Half, RequestsOf, Bound

LEMMA StepStartSalted ==
    ASSUME SignInv, NEW m \in Messages, NEW x \in Rand, StartSalted(m, x)
    PROVE  SignInv'
BY AttemptsAssumption DEF StartSalted, SignInv, keyVars, attemptVars, TypeOK,
   LocalsInv,
   RequestsInv, AbsorbedInv, SignatureVerifies, SaltOfLastAttempt, InAttempt,
   Calling, Done, Half, RequestsOf, Bound, Salts, Challenges

LEMMA StepDrawSalt ==
    ASSUME SignInv, NEW x \in Rand, DrawSalt(x)
    PROVE  SignInv'
<1>1. attempt \in 0 .. MaxAttempts - 1 /\ entry \in {"encoded", "prepared"}
  BY AttemptsAssumption DEF DrawSalt, AttemptLeft, SignInv, TypeOK
<1>2. salt' = <<"derived", <<hm, SaltKey, 2 * attempt>>, x>>
  BY <1>1, CounterFacts DEF DrawSalt, DerivedSalt, SaltInput
<1>3. SaltKey \in {"kgseed", "fg"} /\ SaltKey' = SaltKey
  BY <1>1 DEF SaltKey, DrawSalt
<1>4. salt' \in Salts
  BY <1>1, <1>2, <1>3, CounterFacts DEF Salts, SignInv, LocalsInv, Calling,
     DrawSalt
<1>5. TypeOK'
  <2>1. h' \in Challenges
    BY <1>4 DEF DrawSalt, NewChallenge, SignInv, LocalsInv, Calling, Challenges
  <2>2. Len(requests') <= 2 * MaxAttempts
    <3>1. Len(requests) = 2 * attempt
      BY <1>1 DEF DrawSalt, SignInv, RequestsInv, Calling, RequestsOf, Done,
         Half
    <3>2. Len(requests') = 2 * attempt + 1
      BY <1>1, <3>1 DEF DrawSalt, SignInv, RequestsInv
    <3>3. QED
      BY <1>1, <3>2, AttemptsAssumption
  <2>3. QED
    BY <1>4, <2>1, <2>2 DEF DrawSalt, SignInv, keyVars, TypeOK
<1>6. LocalsInv'
  BY <1>1, <1>2, <1>3, <1>4 DEF DrawSalt, NewChallenge, SignInv, keyVars,
     LocalsInv, Calling, InAttempt, AttemptLeft
<1>7. RequestsInv'
  <2>1. Len(requests) = 2 * attempt
    BY <1>1 DEF DrawSalt, SignInv, RequestsInv, Calling, RequestsOf, Done, Half
  <2>2. Len(requests') = 2 * attempt + 1
    BY <1>1, <2>1 DEF DrawSalt, SignInv, RequestsInv
  <2>3. requests' \in Seq({<<"salt">>, <<"seed", 40>>, <<"seed", 32>>})
    BY DEF DrawSalt, SignInv, RequestsInv, SaltRequest
  <2>4. \A i \in DOMAIN requests' :
          requests'[i] = IF i % 2 = 1 THEN <<"salt">> ELSE <<"seed", 40>>
    <3> TAKE i \in DOMAIN requests'
    <3>1. CASE i = 2 * attempt + 1
      <4>1. i % 2 = 1
        BY <1>1, <3>1
      <4>2. requests'[i] = <<"salt">>
        BY <2>1, <3>1 DEF DrawSalt, SignInv, RequestsInv, SaltRequest
      <4>3. QED
        BY <4>1, <4>2
    <3>2. CASE i # 2 * attempt + 1
      <4>1. i \in DOMAIN requests /\ requests'[i] = requests[i]
        BY <1>1, <2>1, <2>2, <2>3, <3>2 DEF DrawSalt, SignInv, RequestsInv
      <4>2. QED
        BY <1>1, <4>1 DEF DrawSalt, SignInv, RequestsInv
    <3>3. QED
      BY <3>1, <3>2
  <2>5. QED
    BY <1>1, <2>2, <2>3, <2>4 DEF DrawSalt, RequestsInv, Calling, Done, Half,
       RequestsOf
<1>8. AbsorbedInv'
  BY <1>1, <1>3, CounterFacts, SMTT(30) DEF DrawSalt, SignInv, TypeOK, AbsorbedInv,
     Calling, Half, InAttempt, SaltInput, CounterOf, Bound, keyVars
<1>9. QED
  BY <1>5, <1>6, <1>7, <1>8 DEF DrawSalt, SignInv, SignatureVerifies,
     SaltOfLastAttempt

LEMMA StepMakePrefix ==
    ASSUME SignInv, MakePrefix
    PROVE  SignInv'
<1>1. attempt \in 0 .. MaxAttempts - 1
  BY AttemptsAssumption DEF MakePrefix, AttemptLeft, SignInv, TypeOK,
     LocalsInv, InAttempt
<1>2. PrefixInput = <<hm, SaltKey, 2 * attempt + 1>>
  BY <1>1, CounterFacts DEF PrefixInput
<1>3. TypeOK'
  BY DEF MakePrefix, SignInv, keyVars, TypeOK
<1>4. LocalsInv'
  <2>1. SaltKey' = SaltKey /\ UNCHANGED <<entry, hm, attempt, salt, h, t, z>>
    BY DEF MakePrefix, SaltKey
  <2>2. pc' = "sample" /\ (pc = "prefix" \/ (pc = "attempt" /\ entry = "salt"))
    BY DEF MakePrefix
  <2>3. salt' \in Salts /\ h' = HashChallenge(hm', salt') /\ t' = Coset(h')
    BY <2>1, <2>2 DEF SignInv, LocalsInv, InAttempt
  <2>4. entry' # "salt" =>
          \E x \in Rand :
             salt' = <<"derived", <<hm', SaltKey', 2 * attempt'>>, x>>
    BY <2>1, <2>2 DEF SignInv, LocalsInv, Calling, InAttempt
  <2>5. hm' \in {HashMessage(m) : m \in Messages}
    BY <2>1, <2>2 DEF SignInv, LocalsInv, Calling
  <2>6. QED
    BY AttemptsAssumption, <1>1, <2>1, <2>2, <2>3, <2>4, <2>5 DEF LocalsInv
<1>5. RequestsInv'
  BY DEF MakePrefix, SignInv, LocalsInv, RequestsInv, Calling, Done, Half,
     RequestsOf
<1>6. AbsorbedInv'
  <2>1. /\ SaltKey' = SaltKey /\ (Bound' <=> Bound)
        /\ UNCHANGED <<entry, hm, attempt>> /\ pc' = "sample"
        /\ pc = "prefix" \/ (pc = "attempt" /\ entry = "salt")
    BY DEF MakePrefix, SaltKey, Bound, keyVars
  <2>2. CASE Bound
    <3>1. absorbed' = Append(absorbed, <<hm, SaltKey, 2 * attempt + 1>>)
      BY <1>2, <2>2 DEF MakePrefix
    <3>2. Len(absorbed) = IF entry = "salt" THEN attempt ELSE 2 * attempt + 1
      BY <2>1, <2>2 DEF SignInv, LocalsInv, AbsorbedInv, Calling, InAttempt,
         Half
    <3>3. CounterOf(Len(absorbed) + 1) = 2 * attempt + 1
      BY <1>1, <3>2 DEF CounterOf
    <3>4. QED
      <4>1. absorbed \in Seq({hm} \X {SaltKey} \X Nat)
        BY DEF SignInv, AbsorbedInv
      <4>2. absorbed' \in Seq({hm} \X {SaltKey} \X Nat)
        BY <1>1, <3>1, <4>1
      <4>3. Len(absorbed') = Len(absorbed) + 1
        BY <3>1, <4>1
      <4>4. ASSUME NEW i \in DOMAIN absorbed'
            PROVE  absorbed'[i] = <<hm, SaltKey, CounterOf(i)>>
        <5>1. CASE i = Len(absorbed) + 1
          BY <3>1, <3>3, <4>1, <5>1
        <5>2. CASE i # Len(absorbed) + 1
          BY <3>1, <4>1, <4>3, <5>2 DEF SignInv, AbsorbedInv
        <5>3. QED
          BY <5>1, <5>2
      <4>5. QED
        BY <1>1, <2>1, <2>2, <3>2, <4>2, <4>3, <4>4 DEF AbsorbedInv,
           CounterOf, Calling, InAttempt
  <2>3. CASE ~Bound
    BY <2>1, <2>3 DEF MakePrefix, SignInv, AbsorbedInv, CounterOf, Calling,
       Bound
  <2>4. QED
    BY <2>2, <2>3
<1>7. QED
  BY <1>3, <1>4, <1>5, <1>6 DEF MakePrefix, SignInv, SignatureVerifies,
     SaltOfLastAttempt

\* The request for the seed completes those of an attempt.
LEMMA SeedRequested ==
    ASSUME SignInv, pc = "sample", entry' = entry,
           requests' = Append(requests, SeedRequest)
    PROVE  /\ Len(requests') = RequestsOf(attempt + 1)
           /\ Len(requests') <= 2 * MaxAttempts
           /\ requests' \in Seq({<<"salt">>, <<"seed", 40>>, <<"seed", 32>>})
           /\ entry' # "salt" => \A i \in DOMAIN requests' :
                 requests'[i] = IF i % 2 = 1 THEN <<"salt">> ELSE <<"seed", 40>>
<1>1. attempt \in 0 .. MaxAttempts - 1
  BY AttemptsAssumption DEF SignInv, TypeOK, LocalsInv, InAttempt
<1>2. /\ requests \in Seq({<<"salt">>, <<"seed", 40>>, <<"seed", 32>>})
      /\ SeedRequest \in {<<"seed", 40>>, <<"seed", 32>>}
      /\ entry # "salt" => SeedRequest = <<"seed", 40>>
  BY DEF SignInv, RequestsInv, SeedRequest, BoundSeed, MasterSeed, Bound
<1>3. Len(requests) = IF entry = "salt" THEN attempt ELSE 2 * attempt + 1
  BY <1>1 DEF SignInv, RequestsInv, Calling, Done, Half, RequestsOf
<1>4. Len(requests') = IF entry = "salt" THEN attempt + 1 ELSE 2 * attempt + 2
  BY <1>1, <1>2, <1>3
<1>5. requests' \in Seq({<<"salt">>, <<"seed", 40>>, <<"seed", 32>>})
  BY <1>2
<1>6. ASSUME entry # "salt", NEW i \in DOMAIN requests'
      PROVE  requests'[i] = IF i % 2 = 1 THEN <<"salt">> ELSE <<"seed", 40>>
  <2>1. CASE i = 2 * attempt + 2
    <3>1. i % 2 = 0
      BY <1>1, <2>1
    <3>2. requests'[i] = <<"seed", 40>>
      BY <1>1, <1>2, <1>3, <1>6, <2>1
    <3>3. QED
      BY <3>1, <3>2
  <2>2. CASE i # 2 * attempt + 2
    <3>1. i \in DOMAIN requests /\ requests'[i] = requests[i]
      BY <1>1, <1>2, <1>3, <1>4, <1>6, <2>2
    <3>2. QED
      BY <1>6, <3>1 DEF SignInv, RequestsInv
  <2>3. QED
    BY <2>1, <2>2
<1>7. Len(requests') = RequestsOf(attempt + 1)
  BY <1>1, <1>4 DEF RequestsOf
<1>8. Len(requests') <= 2 * MaxAttempts
  BY <1>1, <1>4, AttemptsAssumption
<1>9. QED
  BY <1>5, <1>6, <1>7, <1>8

\* A call that fails keeps nothing but its history.
LEMMA FailedCall ==
    ASSUME SignInv, Return(0), TypeOK', RequestsInv',
           UNCHANGED <<keyVars, entry, hm, absorbed>>
    PROVE  SignInv'
<1>1. SaltKey' = SaltKey
  BY DEF SaltKey
<1>2. LocalsInv'
  BY DEF Return, LocalsInv, InAttempt, Calling
<1>3. AbsorbedInv'
  BY <1>1 DEF Return, SignInv, AbsorbedInv, Calling, CounterOf
<1>4. QED
  BY <1>2, <1>3 DEF Return, SignInv, SignatureVerifies, SaltOfLastAttempt

LEMMA StepSampleFails ==
    ASSUME SignInv, SampleFails
    PROVE  SignInv'
<1>1. TypeOK'
  BY SeedRequested DEF SampleFails, Return, SignInv, TypeOK, keyVars
<1>2. RequestsInv'
  BY SeedRequested DEF SampleFails, Return, RequestsInv, Calling
<1>3. QED
  BY <1>1, <1>2, FailedCall DEF SampleFails

LEMMA StepSample ==
    ASSUME SignInv, NEW n \in Norms, Sample(n)
    PROVE  SignInv'
<1>1. attempt \in 0 .. MaxAttempts - 1
  BY AttemptsAssumption DEF SignInv, TypeOK, LocalsInv, InAttempt, Sample
<1>2. CASE Return(0) /\ UNCHANGED attempt
  <2>1. TypeOK'
    BY <1>2, SeedRequested DEF Sample, Return, SignInv, TypeOK, keyVars
  <2>2. RequestsInv'
    BY <1>2, SeedRequested DEF Sample, Return, RequestsInv, Calling
  <2>3. QED
    BY <1>2, <2>1, <2>2, FailedCall DEF Sample
<1>3. CASE /\ z' = [coset |-> t, norm |-> n]
           /\ IF WithinBound(n)
              THEN pc' = "reconstruct" /\ UNCHANGED attempt
              ELSE pc' = "attempt" /\ attempt' = attempt + 1
           /\ UNCHANGED <<ret, salt, h, t, prefix>>
  <2>1. /\ UNCHANGED <<keyVars, entry, hm, ret, trace_attempts, salt, h, t,
                       prefix, sig, absorbed>>
        /\ \/ WithinBound(n) /\ pc' = "reconstruct" /\ attempt' = attempt
           \/ pc' = "attempt" /\ attempt' = attempt + 1
    BY <1>3 DEF Sample
  <2>2. SaltKey' = SaltKey /\ (Bound' <=> Bound)
    BY <2>1 DEF SaltKey, Bound, keyVars
  <2>3. z' \in Samples
    BY <1>3 DEF Sample, SignInv, LocalsInv, InAttempt, Calling, Samples,
       Challenges
  <2>4. TypeOK'
    BY <1>1, <2>1, <2>3, SeedRequested, AttemptsAssumption
    DEF Sample, SignInv, TypeOK, keyVars
  <2>5. LocalsInv'
    BY <1>1, <1>3, <2>1, <2>2, AttemptsAssumption
    DEF Sample, SignInv, LocalsInv, InAttempt, Calling, WithinBound
  <2>6. RequestsInv'
    BY <1>1, <2>1, SeedRequested DEF Sample, RequestsInv, Calling, Done, Half,
       RequestsOf
  <2>7. AbsorbedInv'
    BY <1>1, <2>1, <2>2 DEF Sample, SignInv, AbsorbedInv, Calling, InAttempt,
       Half, CounterOf
  <2>8. QED
    BY <2>1, <2>4, <2>5, <2>6, <2>7 DEF SignInv, SignatureVerifies,
       SaltOfLastAttempt
<1>4. QED
  BY <1>2, <1>3 DEF Sample

LEMMA StepReconstruct ==
    ASSUME SignInv, NEW r \in {-1, 0, 1}, Reconstruct(r)
    PROVE  SignInv'
<1>1. /\ attempt \in 0 .. MaxAttempts - 1
      /\ UNCHANGED <<keyVars, entry, hm, history>>
  BY AttemptsAssumption DEF SignInv, TypeOK, LocalsInv, InAttempt, Reconstruct
<1>2. SaltKey' = SaltKey /\ (Bound' <=> Bound)
  BY <1>1 DEF SaltKey, Bound, keyVars
<1>3. CASE Return(0) /\ UNCHANGED <<attempt, sig, trace_attempts>>
  <2>1. TypeOK'
    BY <1>1, <1>3 DEF Return, SignInv, TypeOK, keyVars, history
  <2>2. RequestsInv'
    BY <1>1, <1>3 DEF Return, SignInv, RequestsInv, Calling, history
  <2>3. QED
    BY <1>1, <1>3, <2>1, <2>2, FailedCall DEF history
<1>4. CASE /\ pc' = "attempt" /\ attempt' = attempt + 1
           /\ UNCHANGED <<ret, attemptVars, sig, trace_attempts>>
  <2>1. TypeOK'
    BY <1>1, <1>4, AttemptsAssumption
    DEF SignInv, TypeOK, keyVars, history, attemptVars
  <2>2. LocalsInv'
    BY <1>1, <1>2, <1>4 DEF Reconstruct, SignInv, LocalsInv, InAttempt,
       Calling,
       attemptVars
  <2>3. RequestsInv'
    BY <1>1, <1>4 DEF Reconstruct, SignInv, RequestsInv, Calling, Done, Half,
       RequestsOf, history
  <2>4. AbsorbedInv'
    BY <1>1, <1>2, <1>4 DEF Reconstruct, SignInv, AbsorbedInv, Calling,
       InAttempt, Half, CounterOf, history
  <2>5. QED
    BY <1>1, <1>4, <2>1, <2>2, <2>3, <2>4 DEF SignInv, SignatureVerifies,
       SaltOfLastAttempt
<1>5. CASE /\ sig' = [salt |-> salt, challenge |-> h, sample |-> z]
           /\ trace_attempts' = attempt + 1
           /\ Return(1) /\ UNCHANGED attempt
  <2>1. TypeOK'
    BY <1>1, <1>5, AttemptsAssumption
    DEF Return, SignInv, TypeOK, keyVars, history
  <2>2. LocalsInv'
    BY <1>5 DEF Return, LocalsInv, InAttempt, Calling
  <2>3. RequestsInv' /\ Len(requests') = RequestsOf(trace_attempts')
    BY <1>1, <1>5 DEF Reconstruct, Return, SignInv, RequestsInv, Calling, Done,
       Half, RequestsOf, history
  <2>4. AbsorbedInv'
    BY <1>1, <1>2, <1>5 DEF Return, SignInv, AbsorbedInv, Calling, CounterOf,
       history
  <2>5. SignatureVerifies'
    BY <1>1, <1>5 DEF Reconstruct, SignInv, LocalsInv, InAttempt,
       SignatureVerifies, Verifies
  <2>6. SaltOfLastAttempt'
    <3>1. entry # "salt" =>
            \E x \in Rand :
               salt = <<"derived", <<hm, SaltKey, 2 * attempt>>, x>>
      BY DEF Reconstruct, SignInv, LocalsInv, InAttempt, Calling
    <3>2. trace_attempts' - 1 = attempt /\ sig'.salt = salt
      BY <1>1, <1>5
    <3>3. QED
      BY <1>1, <1>2, <3>1, <3>2 DEF SaltOfLastAttempt
  <2>7. QED
    BY <1>1, <2>1, <2>2, <2>3, <2>4, <2>5, <2>6 DEF SignInv, RequestsOf
<1>6. QED
  BY <1>3, <1>4, <1>5 DEF Reconstruct

LEMMA StepExhausted ==
    ASSUME SignInv, Exhausted
    PROVE  SignInv'
<1>1. TypeOK'
  BY AttemptsAssumption DEF Exhausted, Return, SignInv, TypeOK, keyVars,
     history
<1>2. RequestsInv'
  BY DEF Exhausted, Return, SignInv, RequestsInv, Calling, history
<1>3. QED
  BY <1>1, <1>2, FailedCall DEF Exhausted, history

LEMMA SignStep == SignInv /\ [Next]_vars => SignInv'
<1> SUFFICES ASSUME SignInv, [Next]_vars PROVE SignInv'
  OBVIOUS
<1>1. CASE Attempt
  BY <1>1, StepDrawSalt, StepMakePrefix, StepSampleFails, StepSample,
     StepReconstruct, StepExhausted DEF Attempt
<1>2. CASE UNCHANGED vars
  BY <1>2 DEF vars, keyVars, callVars, attemptVars, history, SignInv, TypeOK,
     LocalsInv, RequestsInv, AbsorbedInv, SignatureVerifies, SaltOfLastAttempt,
     InAttempt, Calling, SaltKey, CounterOf, RequestsOf, Done, Half, Bound
<1>3. QED
  BY <1>1, <1>2, StepKey, StepRefuse, StepStartApi, StepStartSalted DEF Next

\* The inductive invariant holds in every reachable state of every sequence
\* of calls.
THEOREM SignInvariance == Spec => []SignInv
<1>1. QED
  BY SignInit, SignStep, PTL DEF Spec

\* Every variable keeps its type, and the attempts stay within their limit.
THEOREM SignTypes == Spec => []TypeOK
<1>1. QED
  BY SignInvariance, PTL DEF SignInv

\* Whatever the RNG returns and the sampler does, a signature is made of the
\* salt, the challenge and the sample of one attempt, and verifies.
THEOREM SignaturesVerify == Spec => []SignatureVerifies
<1>1. QED
  BY SignInvariance, PTL DEF SignInv

\* The salt in the signature is that of the attempt reported as the last.
THEOREM SaltIsLast == Spec => []SaltOfLastAttempt
<1>1. QED
  BY SignInvariance, PTL DEF SignInv

\* The RNG sees a salt and a 40-byte seed per attempt of the public API.
THEOREM RequestsAsMade == Spec => []TwoRequestsPerAttempt
<1>1. SignInv => TwoRequestsPerAttempt
  BY DEF SignInv, RequestsInv, TwoRequestsPerAttempt
<1>2. QED
  BY SignInvariance, <1>1, PTL

\* No two keyed hashes of a call start alike, although the RNG may repeat
\* itself: the counters of salts and streams never meet.
THEOREM StreamsDistinct == Spec => []HashesDistinct
<1>1. SignInv => HashesDistinct
  <2>1. SUFFICES ASSUME SignInv, NEW i \in DOMAIN absorbed,
                        NEW j \in DOMAIN absorbed, absorbed[i] = absorbed[j]
                 PROVE  i = j
    BY DEF HashesDistinct
  <2>2. CounterOf(i) = CounterOf(j) /\ i \in Nat /\ j \in Nat
    BY <2>1 DEF SignInv, AbsorbedInv
  <2>3. QED
    BY <2>2 DEF CounterOf
<1>2. QED
  BY SignInvariance, <1>1, PTL
=============================================================================
