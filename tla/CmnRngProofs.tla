---------------------------- MODULE CmnRngProofs ----------------------------
(***************************************************************************)
(* Proofs about CmnRng, for every rate of the sponge, every size of the    *)
(* buffer, every seed material and every mix of reads.                     *)
(***************************************************************************)
EXTENDS CmnRng, SequenceTheorems, TLAPS

-----------------------------------------------------------------------------
(***************************************************************************)
(* Blocks and offsets.                                                     *)
(***************************************************************************)
LEMMA DivFacts ==
    ASSUME NEW x \in Nat
    PROVE  /\ x \div Rate \in Nat /\ x % Rate \in 0 .. Rate - 1
           /\ (x + Rate) \div Rate = x \div Rate + 1
           /\ x < Rate => x \div Rate = 0
BY RateAssumption

\* A place in the output, by its block and offset.
LEMMA PlaceFacts ==
    ASSUME NEW q \in Nat, NEW s \in 0 .. Rate - 1
    PROVE  /\ q * Rate + s \in Nat
           /\ (q * Rate + s) \div Rate = q /\ (q * Rate + s) % Rate = s
BY RateAssumption

LEMMA BlocksForFacts ==
    ASSUME NEW x \in Nat
    PROVE  /\ BlocksFor(x) \in Nat
           /\ BlocksFor(0) = 0
           /\ x > 0 /\ x <= Rate => BlocksFor(x) = 1
           /\ x > Rate => BlocksFor(x) = BlocksFor(x - Rate) + 1
<1>1. Rate \in Nat /\ Rate > 0
  BY RateAssumption
<1>2. BlocksFor(x) \in Nat
  BY <1>1, DivFacts DEF BlocksFor
<1>3. BlocksFor(0) = 0
  BY <1>1, DivFacts DEF BlocksFor
<1>4. ASSUME x > 0, x <= Rate
      PROVE  BlocksFor(x) = 1
  <2>1. x - 1 \in Nat /\ x - 1 < Rate /\ x + Rate - 1 = (x - 1) + Rate
    BY <1>1, <1>4
  <2>2. QED
    BY <2>1, DivFacts DEF BlocksFor
<1>5. ASSUME x > Rate
      PROVE  BlocksFor(x) = BlocksFor(x - Rate) + 1
  <2>1. x - Rate + Rate - 1 \in Nat
        /\ x + Rate - 1 = (x - Rate + Rate - 1) + Rate
    BY <1>1, <1>5
  <2>2. QED
    BY <2>1, DivFacts DEF BlocksFor
<1>6. QED
  BY <1>2, <1>3, <1>4, <1>5

\* One turn of shake_extract processes what is due.
LEMMA ToProcessStep ==
    ASSUME NEW n \in Nat \ {0}, NEW p \in 0 .. Rate
    PROVE  LET d == IF p = Rate THEN 0 ELSE p
               c == AtMost(Rate - d, n)
           IN  /\ c \in 1 .. n /\ d \in 0 .. Rate - 1 /\ d + c <= Rate
               /\ ToProcess(p, n)
                    = ToProcess(d + c, n - c) + (IF p = Rate THEN 1 ELSE 0)
<1> DEFINE d == IF p = Rate THEN 0 ELSE p
           c == AtMost(Rate - d, n)
<1>1. Rate \in Nat /\ Rate > 0
  BY RateAssumption
<1>2. c \in 1 .. n /\ d \in 0 .. Rate - 1 /\ d + c <= Rate
  BY <1>1 DEF AtMost
<1>3. CASE n <= Rate - d
  <2>1. c = n /\ ToProcess(d + c, n - c) = 0
    BY <1>1, <1>2, <1>3 DEF AtMost, ToProcess
  <2>2. p = Rate => ToProcess(p, n) = 1
    BY <1>1, <1>3, BlocksForFacts DEF ToProcess
  <2>3. p # Rate => ToProcess(p, n) = 0
    BY <1>1, <1>3 DEF ToProcess
  <2>4. QED
    BY <1>2, <2>1, <2>2, <2>3
<1>4. CASE n > Rate - d
  <2>1. c = Rate - d /\ d + c = Rate /\ n - c \in Nat /\ n - c > 0
    BY <1>1, <1>2, <1>4 DEF AtMost
  <2>2. ToProcess(d + c, n - c) = BlocksFor(n - c)
    BY <1>1, <2>1 DEF ToProcess
  <2>3. CASE p = Rate
    <3>1. c = Rate /\ n > Rate
      BY <1>1, <1>4, <2>1, <2>3
    <3>2. ToProcess(p, n) = BlocksFor(n) /\ BlocksFor(n) = BlocksFor(n - Rate) + 1
      BY <1>1, <2>3, <3>1, BlocksForFacts DEF ToProcess
    <3>3. QED
      BY <1>2, <2>2, <2>3, <3>1, <3>2
  <2>4. CASE p # Rate
    <3>1. ToProcess(p, n) = BlocksFor(n - c)
      BY <1>1, <1>4, <2>1, <2>4 DEF ToProcess
    <3>2. QED
      BY <1>2, <2>1, <2>2, <2>4, <3>1, BlocksForFacts
  <2>5. QED
    BY <2>3, <2>4
<1>5. QED
  BY <1>1, <1>2, <1>3, <1>4

\* One turn of shake_inject processes the block it fills.
LEMMA InjectStep ==
    ASSUME NEW p \in 0 .. Rate - 1, NEW n \in Nat \ {0},
           NEW c, c = AtMost(Rate - p, n)
    PROVE  /\ c \in 1 .. n /\ p + c <= Rate
           /\ p + c = Rate => (p + n) \div Rate = (n - c) \div Rate + 1
           /\ p + c # Rate => p + c < Rate /\ p + c + (n - c) = p + n
<1>1. Rate \in Nat /\ Rate > 0
  BY RateAssumption
<1>2. c \in 1 .. n /\ p + c <= Rate
  BY <1>1 DEF AtMost
<1>3. ASSUME p + c = Rate
      PROVE  (p + n) \div Rate = (n - c) \div Rate + 1
  <2>1. n - c \in Nat /\ p + n = (n - c) + Rate
    BY <1>1, <1>2, <1>3
  <2>2. QED
    BY <2>1, DivFacts
<1>4. QED
  BY <1>1, <1>2, <1>3

-----------------------------------------------------------------------------
(***************************************************************************)
(* Bytes.                                                                  *)
(***************************************************************************)

\* The bytes are where they were, in a stream that goes on.
LEMMA BytesKept ==
    ASSUME RngInv, Flowing,
           UNCHANGED <<bufVars, source, bytes_squeezed, out, first, stream>>,
           Flowing'
    PROVE  BytesInv'
BY DEF RngInv, BytesInv, bufVars, Buffered, OutputByte

\* Delivering bytes of the buffer.
LEMMA DeliverFacts ==
    ASSUME RngInv, Flowing, Flowing', NEW n \in 0 .. Buffered, Deliver(n),
           UNCHANGED <<buf, source, bytes_squeezed, out, first>>
    PROVE  /\ stream' \in Seq(Byte) /\ Len(stream') = Len(stream) + n
           /\ pos' \in 0 .. Len(buf') /\ Buffered' = Buffered - n
           /\ BytesInv'
<1>1. /\ buf \in Seq(Byte) /\ stream \in Seq(Byte) /\ Len(buf) \in Nat
      /\ Len(stream) \in Nat /\ pos \in 0 .. Len(buf) /\ pos + n \in 0 .. Len(buf)
      /\ n \in Nat /\ pos' = pos + n /\ bytes_squeezed \in Nat
  BY LenProperties DEF RngInv, TypeOK, Buffered, Deliver
<1> DEFINE part == SubSeq(buf, pos + 1, pos + n)
<1>2. \A i \in pos + 1 .. pos + n : buf[i] \in Byte
  BY <1>1, ElementOfSeq
<1>3. /\ part \in Seq(Byte) /\ Len(part) = n
      /\ \A i \in 1 .. n : part[i] = buf[pos + i]
  BY <1>1, <1>2, SubSeqProperties
<1>4. stream' = stream \o part
  BY DEF Deliver
<1> HIDE DEF part
<1>5. /\ stream' \in Seq(Byte) /\ Len(stream') = Len(stream) + n
      /\ \A i \in 1 .. Len(stream) + n :
            stream'[i] = IF i <= Len(stream) THEN stream[i]
                         ELSE part[i - Len(stream)]
  BY <1>1, <1>3, <1>4, ConcatProperties
<1>6. Buffered' = Buffered - n /\ pos' \in 0 .. Len(buf')
  BY <1>1 DEF Buffered
<1>7. /\ \A x : OutputByte(x)' = OutputByte(x)
      /\ Len(stream) = bytes_squeezed - Buffered
      /\ \A i \in 1 .. Len(stream) : stream[i] = OutputByte(i - 1)
      /\ \A i \in pos + 1 .. Len(buf) :
            buf[i] = OutputByte(Len(stream) - pos + i - 1)
      /\ \A i \in 1 .. Len(out) : out[i] = OutputByte(bytes_squeezed + i - 1)
  BY DEF OutputByte, RngInv, BytesInv
<1>8. \A i \in 1 .. Len(stream') : stream'[i] = OutputByte(i - 1)
  <2> TAKE i \in 1 .. Len(stream')
  <2>1. CASE i <= Len(stream)
    BY <1>1, <1>5, <1>7, <2>1
  <2>2. CASE i > Len(stream)
    <3> DEFINE j == pos + (i - Len(stream))
    <3>1. i - Len(stream) \in 1 .. n /\ j \in pos + 1 .. Len(buf)
      BY <1>1, <1>5, <2>2
    <3>2. stream'[i] = buf[j]
      BY <1>1, <1>3, <1>5, <2>2, <3>1
    <3>3. Len(stream) - pos + j - 1 = i - 1
      BY <1>1, <3>1
    <3>4. QED
      BY <1>7, <3>1, <3>2, <3>3
  <2>3. QED
    BY <1>1, <2>1, <2>2
<1>9. \A i \in pos' + 1 .. Len(buf) :
         buf[i] = OutputByte(Len(stream') - pos' + i - 1)
  <2> TAKE i \in pos' + 1 .. Len(buf)
  <2>1. i \in pos + 1 .. Len(buf)
        /\ Len(stream') - pos' + i - 1 = Len(stream) - pos + i - 1
    BY <1>1, <1>5
  <2>2. QED
    BY <1>7, <2>1
<1>10. Len(stream') = bytes_squeezed' - Buffered'
  BY <1>1, <1>5, <1>6, <1>7 DEF Buffered
<1>11. QED
  BY <1>5, <1>6, <1>7, <1>8, <1>9, <1>10 DEF BytesInv

-----------------------------------------------------------------------------
(***************************************************************************)
(* Starting a stream.                                                      *)
(***************************************************************************)
LEMMA RngInit == Init => RngInv
<1> SUFFICES ASSUME Init PROVE RngInv
  OBVIOUS
<1>1. TypeOK
  BY RateAssumption, BufLenAssumption DEF Init, TypeOK
<1>2. SpongeInv
  BY DEF Init, SpongeInv, Flowing
<1>3. BytesInv
  <2>1. Len(stream) = 0 /\ Len(buf) = 0 /\ Len(out) = 0 /\ Buffered = 0
    BY DEF Init, Buffered
  <2>2. QED
    BY <2>1 DEF Init, BytesInv
<1>4. RequestInv
  BY DEF Init, RequestInv
<1>5. QED
  BY <1>1, <1>2, <1>3, <1>4 DEF RngInv

LEMMA StepStart ==
    ASSUME RngInv, NEW d \in 0 .. Rate - 1,
           NEW x \in Pieces, NEW y \in Pieces, NEW w \in Pieces,
           Start(d, <<x, y, w>>)
    PROVE  RngInv'
<1>1. /\ pc \in {"unset", "ready"} /\ out = <<>>
      /\ UNCHANGED <<todo, rem, want, out, into>>
      /\ bytes_squeezed' = 0 /\ refills' = 0 /\ permutations' = 0
      /\ pos' = 0 /\ buf' = <<>> /\ blocks' = 0 /\ first' = 0
      /\ asked' = 0 /\ stream' = <<>> /\ source' = "shake" /\ dptr' = d
      /\ pieces' = <<x, y, w>> /\ pc' = "absorb"
  BY DEF Start, NewStream, Reset, squeezeVars, RngInv, BytesInv, RequestInv,
     Flowing
<1>2. pieces' \in Seq(Pieces)
  BY <1>1
<1>3. TypeOK'
  BY <1>1, <1>2, RateAssumption DEF RngInv, TypeOK
<1>4. SpongeInv'
  BY <1>1, RateAssumption DEF SpongeInv, Flowing
<1>5. BytesInv'
  <2>1. Len(stream') = 0 /\ Len(buf') = 0 /\ Len(out') = 0 /\ Buffered' = 0
    BY <1>1 DEF Buffered
  <2>2. QED
    BY <1>1, <2>1 DEF BytesInv
<1>6. RequestInv'
  BY <1>1 DEF RequestInv
<1>7. QED
  BY <1>3, <1>4, <1>5, <1>6 DEF RngInv

LEMMA StepStartSource ==
    ASSUME RngInv, StartSource
    PROVE  RngInv'
<1>1. /\ pc \in {"unset", "ready"} /\ out = <<>>
      /\ UNCHANGED <<todo, rem, want, out, into, pieces>>
      /\ bytes_squeezed' = 0 /\ refills' = 0 /\ permutations' = 0
      /\ pos' = 0 /\ buf' = <<>> /\ blocks' = 0 /\ first' = 0
      /\ asked' = 0 /\ stream' = <<>> /\ source' = "callback" /\ dptr' = 0
      /\ pc' = "ready"
  BY DEF StartSource, NewStream, Reset, squeezeVars, RngInv, BytesInv,
     RequestInv, Flowing
<1>2. TypeOK'
  BY <1>1, RateAssumption DEF RngInv, TypeOK
<1>3. SpongeInv'
  BY <1>1 DEF SpongeInv
<1>4. BytesInv'
  <2>1. Len(stream') = 0 /\ Len(buf') = 0 /\ Len(out') = 0 /\ Buffered' = 0
    BY <1>1 DEF Buffered
  <2>2. QED
    BY <1>1, <2>1 DEF BytesInv
<1>5. RequestInv'
  BY <1>1 DEF RequestInv
<1>6. QED
  BY <1>2, <1>3, <1>4, <1>5 DEF RngInv

LEMMA StepAbsorbPiece ==
    ASSUME RngInv, AbsorbPiece
    PROVE  RngInv'
<1>1. /\ pc = "absorb" /\ pc' = "inject" /\ ~Flowing /\ ~Flowing'
      /\ todo' = Head(pieces) /\ pieces' = Tail(pieces) /\ pieces # <<>>
      /\ permutations' = permutations + AbsorbCost(Head(pieces))
      /\ UNCHANGED <<spongeVars, bufVars, source, bytes_squeezed, refills,
                     squeezeVars, history>>
  BY DEF AbsorbPiece, Flowing
<1>2. todo' \in Nat /\ pieces' \in Seq(Pieces)
  BY <1>1, HeadTailProperties, LengthsAssumption DEF RngInv, TypeOK
<1>3. /\ dptr \in Nat /\ AbsorbCost(Head(pieces)) \in Nat
      /\ AbsorbCost(Head(pieces)) = (dptr + Head(pieces)) \div Rate
  <2>1. dptr \in Nat /\ Head(pieces) \in Nat
    BY <1>1, <1>2, RateAssumption DEF RngInv, TypeOK
  <2>2. dptr + Head(pieces) \in Nat
    BY <2>1
  <2>3. QED
    BY <2>1, <2>2, DivFacts DEF AbsorbCost
<1>4. TypeOK'
  BY <1>1, <1>2, <1>3 DEF RngInv, TypeOK, spongeVars, bufVars, squeezeVars,
     history
<1>5. SpongeInv'
  BY <1>1, <1>3 DEF RngInv, SpongeInv, spongeVars
<1>6. BytesInv' /\ RequestInv'
  BY <1>1 DEF RngInv, BytesInv, RequestInv, bufVars, squeezeVars, history,
     Buffered, OutputByte
<1>7. QED
  BY <1>4, <1>5, <1>6 DEF RngInv

LEMMA StepInject ==
    ASSUME RngInv, Inject
    PROVE  RngInv'
<1>1. /\ pc = "inject" /\ pc' \in {"inject", "absorb"} /\ ~Flowing /\ ~Flowing'
      /\ UNCHANGED <<bufVars, source, counters, pieces, squeezeVars, history>>
  BY DEF Inject, Flowing
<1>2. /\ dptr \in 0 .. Rate - 1 /\ todo \in Nat /\ blocks \in Nat
      /\ source = "shake" /\ permutations = blocks + (dptr + todo) \div Rate
  BY <1>1, RateAssumption DEF RngInv, TypeOK, SpongeInv
<1>3. /\ dptr' \in 0 .. Rate - 1 /\ todo' \in Nat /\ blocks' \in Nat
      /\ pc' = "inject" => permutations = blocks' + (dptr' + todo') \div Rate
      /\ pc' = "absorb" => permutations = blocks'
  <2>1. CASE todo = 0
    <3>1. pc' = "absorb" /\ dptr' = dptr /\ blocks' = blocks /\ todo' = todo
      BY <2>1 DEF Inject, spongeVars
    <3>2. (dptr + todo) \div Rate = 0
      BY <1>2, <2>1, DivFacts, RateAssumption
    <3>3. QED
      BY <1>2, <3>1, <3>2
  <2>2. CASE todo # 0
    <3> DEFINE c == AtMost(Rate - dptr, todo)
    <3>1. /\ c \in 1 .. todo /\ dptr + c <= Rate
          /\ dptr + c = Rate =>
                (dptr + todo) \div Rate = (todo - c) \div Rate + 1
          /\ dptr + c # Rate =>
                dptr + c < Rate /\ dptr + c + (todo - c) = dptr + todo
      BY <1>2, <2>2, InjectStep
    <3>2. /\ dptr' = IF dptr + c = Rate THEN 0 ELSE dptr + c
          /\ blocks' = IF dptr + c = Rate THEN blocks + 1 ELSE blocks
          /\ todo' = todo - c /\ pc' = "inject"
      BY <1>1, <2>2 DEF Inject
    <3> HIDE DEF c
    <3>3. todo - c \in Nat /\ 0 + (todo - c) = todo - c
          /\ (todo - c) \div Rate \in Nat
      BY <1>2, <3>1, DivFacts
    <3>4. CASE dptr + c = Rate
      BY <1>2, <3>1, <3>2, <3>3, <3>4, RateAssumption
    <3>5. CASE dptr + c # Rate
      BY <1>2, <3>1, <3>2, <3>3, <3>5, RateAssumption
    <3>6. QED
      BY <3>4, <3>5
  <2>3. QED
    BY <2>1, <2>2
<1>4. TypeOK'
  BY <1>1, <1>3, RateAssumption DEF RngInv, TypeOK, bufVars, counters,
     squeezeVars, history
<1>5. SpongeInv'
  BY <1>1, <1>2, <1>3, RateAssumption DEF SpongeInv, counters
<1>6. BytesInv' /\ RequestInv'
  BY <1>1 DEF RngInv, BytesInv, RequestInv, bufVars, counters, squeezeVars,
     history, Buffered, OutputByte
<1>7. QED
  BY <1>4, <1>5, <1>6 DEF RngInv

LEMMA StepFlip ==
    ASSUME RngInv, Flip
    PROVE  RngInv'
<1>1. /\ pc = "absorb" /\ pc' = "ready" /\ ~Flowing /\ Flowing'
      /\ dptr' = Rate /\ first' = blocks + 1
      /\ UNCHANGED <<blocks, bufVars, source, counters, pieces, todo,
                     squeezeVars, asked, stream>>
  BY DEF Flip, Flowing
<1>2. TypeOK'
  BY <1>1, RateAssumption DEF RngInv, TypeOK, bufVars, counters, squeezeVars
<1>3. SpongeInv'
  <2>1. bytes_squeezed' + Len(out') = 0
    BY <1>1 DEF RngInv, BytesInv, counters, squeezeVars
  <2>2. (blocks' - first') * Rate + dptr' = 0
    BY <1>1, RateAssumption DEF RngInv, TypeOK
  <2>3. QED
    BY <1>1, <2>1, <2>2 DEF RngInv, SpongeInv, counters
<1>4. BytesInv' /\ RequestInv'
  BY <1>1 DEF RngInv, TypeOK, BytesInv, RequestInv, bufVars, counters,
     squeezeVars, Buffered
<1>5. QED
  BY <1>2, <1>3, <1>4 DEF RngInv

-----------------------------------------------------------------------------
(***************************************************************************)
(* Reads.                                                                  *)
(***************************************************************************)
LEMMA StreamTypes ==
    ASSUME RngInv
    PROVE  /\ Rate \in Nat \ {0} /\ BufLen \in Nat \ {0}
           /\ dptr \in 0 .. Rate /\ blocks \in Nat /\ permutations \in Nat
           /\ bytes_squeezed \in Nat /\ first \in Nat /\ asked \in Nat
           /\ todo \in Nat /\ rem \in Nat /\ want \in Nat
           /\ Buffered \in Nat /\ Len(buf) \in Nat /\ pos \in 0 .. Len(buf)
           /\ Len(stream) \in Nat /\ Len(out) \in Nat
           /\ bytes_squeezed = Len(stream) + Buffered
<1>1. Rate \in Nat \ {0} /\ BufLen \in Nat \ {0}
  BY RateAssumption, BufLenAssumption
<1>2. Len(buf) \in Nat /\ Len(stream) \in Nat /\ Len(out) \in Nat
  BY LenProperties DEF RngInv, TypeOK
<1>3. pos \in 0 .. Len(buf) /\ bytes_squeezed \in Nat
  BY DEF RngInv, TypeOK
<1>4. Buffered \in Nat
  BY <1>2, <1>3 DEF Buffered
<1>5. Len(stream) = bytes_squeezed - Buffered
  BY DEF RngInv, BytesInv
<1>6. bytes_squeezed = Len(stream) + Buffered
  BY <1>2, <1>3, <1>4, <1>5
<1>7. QED
  BY <1>1, <1>2, <1>3, <1>4, <1>6 DEF RngInv, TypeOK

\* What a squeeze has to count is what the sponge will process.
LEMMA CountFacts ==
    ASSUME RngInv, NEW n \in Nat
    PROVE  ToCount(n) \in Nat /\ BlocksFor(ToCount(n)) = ToProcess(dptr, n)
<1>1. dptr \in 0 .. Rate /\ Rate \in Nat
  BY StreamTypes
<1>2. CASE n > Rate - dptr
  <2>1. ToCount(n) = n - (Rate - dptr) /\ n - (Rate - dptr) \in Nat
    BY <1>1, <1>2 DEF ToCount
  <2>2. QED
    BY <1>2, <2>1 DEF ToProcess
<1>3. CASE ~(n > Rate - dptr)
  <2>1. ToCount(n) = 0 /\ ToProcess(dptr, n) = 0
    BY <1>3 DEF ToCount, ToProcess
  <2>2. QED
    BY <2>1, BlocksForFacts
<1>4. QED
  BY <1>2, <1>3

\* A squeeze begins.
LEMMA SqueezeBegins ==
    ASSUME RngInv, pc \in {"ready", "bytes"}, NEW n \in Nat,
           NEW target \in {"buf", "caller"}, Squeeze(n, target),
           UNCHANGED <<spongeVars, source, counters, first>>
    PROVE  /\ rem' \in Nat /\ want' = n /\ out' = <<>> /\ into' = target
           /\ pc' = "count" /\ SpongeInv'
<1>1. /\ permutations = blocks /\ permutations' = permutations
      /\ UNCHANGED <<dptr, blocks, source, bytes_squeezed, first>>
      /\ out = <<>>
  BY DEF RngInv, SpongeInv, RequestInv, spongeVars, counters
<1>2. /\ want' = n /\ out' = <<>> /\ into' = target /\ pc' = "count"
      /\ rem' = IF source = "shake" THEN ToCount(n) ELSE 0
  BY DEF Squeeze
<1>3. ToCount(n) \in Nat /\ BlocksFor(ToCount(n)) = ToProcess(dptr, n)
      /\ BlocksFor(0) = 0
  BY CountFacts, BlocksForFacts
<1>4. rem' \in Nat
  BY <1>2, <1>3
<1>5. BlocksFor(rem)' = IF source = "shake" THEN ToProcess(dptr, n) ELSE 0
  <2>1. CASE source = "shake"
    <3>1. BlocksFor(rem)' = BlocksFor(ToCount(n))
      BY <1>2, <2>1 DEF BlocksFor
    <3>2. QED
      BY <1>3, <2>1, <3>1
  <2>2. CASE source # "shake"
    <3>1. BlocksFor(rem)' = BlocksFor(0)
      BY <1>2, <2>2 DEF BlocksFor
    <3>2. QED
      BY <1>3, <2>2, <3>1
  <2>3. QED
    BY <2>1, <2>2
<1>6. ToProcess(dptr, want)' = ToProcess(dptr, n)
  BY <1>1, <1>2 DEF ToProcess, BlocksFor
<1>7. Flowing /\ (source = "shake" =>
         bytes_squeezed + Len(out) = (blocks - first) * Rate + dptr)
  BY DEF RngInv, SpongeInv, Flowing
<1>8. SpongeInv'
  BY <1>1, <1>2, <1>5, <1>6, <1>7 DEF SpongeInv
<1>9. QED
  BY <1>2, <1>4, <1>8

LEMMA StepReadBytes ==
    ASSUME RngInv, NEW n \in Nat, ReadBytes(n)
    PROVE  RngInv'
<1>1. /\ pc = "ready" /\ pc' = "bytes" /\ asked' = asked + n /\ todo' = n
      /\ UNCHANGED <<dptr, blocks, buf, pos, source, bytes_squeezed, refills,
                     permutations, pieces, rem, want, out, into, first,
                     stream>>
      /\ Flowing /\ Flowing'
  BY DEF ReadBytes, spongeVars, bufVars, counters, squeezeVars, Flowing
<1>2. TypeOK'
  BY <1>1 DEF RngInv, TypeOK
<1>3. SpongeInv'
  BY <1>1 DEF RngInv, SpongeInv
<1>4. BytesInv'
  BY <1>1, BytesKept DEF bufVars
<1>5. RequestInv'
  BY <1>1 DEF RngInv, RequestInv
<1>6. QED
  BY <1>2, <1>3, <1>4, <1>5 DEF RngInv

LEMMA StepBytesRefill ==
    ASSUME RngInv, BytesRefill
    PROVE  RngInv'
<1>1. /\ pc = "bytes" /\ Buffered = 0 /\ Squeeze(BufLen, "buf")
      /\ UNCHANGED <<spongeVars, bufVars, source, counters, pieces, todo,
                     history>>
      /\ BufLen \in Nat
  BY StreamTypes DEF BytesRefill
<1>2. /\ rem' \in Nat /\ want' = BufLen /\ out' = <<>> /\ into' = "buf"
      /\ pc' = "count" /\ SpongeInv'
  BY <1>1, SqueezeBegins DEF history
<1>3. out = <<>> /\ Flowing /\ Flowing'
  BY <1>1, <1>2 DEF RngInv, RequestInv, Flowing
<1>4. TypeOK'
  BY <1>1, <1>2, <1>3 DEF RngInv, TypeOK, spongeVars, bufVars, counters,
     history
<1>5. BytesInv'
  BY <1>1, <1>2, <1>3, BytesKept DEF counters, history
<1>6. RequestInv'
  <2>1. Len(out') = 0 /\ Buffered' = 0
    BY <1>1, <1>2 DEF bufVars, Buffered
  <2>2. QED
    BY <1>1, <1>2, <2>1 DEF RngInv, RequestInv, history
<1>7. QED
  BY <1>2, <1>4, <1>5, <1>6 DEF RngInv

LEMMA StepBytesCopy ==
    ASSUME RngInv, BytesCopy
    PROVE  RngInv'
<1> DEFINE n == AtMost(Buffered, todo)
<1>1. /\ pc = "bytes" /\ pc' = pc /\ Deliver(n) /\ todo' = todo - n
      /\ UNCHANGED <<dptr, blocks, buf, source, bytes_squeezed, refills,
                     permutations, pieces, rem, want, out, into, first,
                     asked>>
      /\ Flowing /\ Flowing'
  BY DEF BytesCopy, spongeVars, counters, squeezeVars, Flowing
<1>2. n \in 0 .. Buffered /\ n <= todo /\ todo - n \in Nat
  BY StreamTypes, SMTT(30) DEF AtMost
<1> HIDE DEF n
<1>3. /\ stream' \in Seq(Byte) /\ Len(stream') = Len(stream) + n
      /\ pos' \in 0 .. Len(buf') /\ BytesInv'
  BY <1>1, <1>2, DeliverFacts
<1>4. TypeOK'
  BY <1>1, <1>2, <1>3 DEF RngInv, TypeOK
<1>5. SpongeInv'
  BY <1>1 DEF RngInv, SpongeInv
<1>6. RequestInv'
  <2>1. Len(stream) + todo = asked /\ out = <<>>
    BY <1>1 DEF RngInv, RequestInv
  <2>2. (Len(stream) + n) + (todo - n) = asked
    BY <1>2, <2>1, StreamTypes, SMTT(30)
  <2>3. QED
    BY <1>1, <1>3, <2>1, <2>2 DEF RequestInv
<1>7. QED
  BY <1>3, <1>4, <1>5, <1>6 DEF RngInv

LEMMA StepBytesDone ==
    ASSUME RngInv, BytesDone
    PROVE  RngInv'
<1>1. /\ pc = "bytes" /\ pc' = "ready" /\ todo = 0
      /\ UNCHANGED <<dptr, blocks, bufVars, source, bytes_squeezed, refills,
                     permutations, pieces, todo, rem, want, out, into, first,
                     asked, stream>>
      /\ Flowing /\ Flowing'
  BY DEF BytesDone, spongeVars, counters, squeezeVars, history, Flowing
<1>2. TypeOK'
  BY <1>1 DEF RngInv, TypeOK, bufVars
<1>3. SpongeInv'
  BY <1>1 DEF RngInv, SpongeInv
<1>4. BytesInv'
  BY <1>1, BytesKept
<1>5. RequestInv'
  <2>1. Len(stream) + 0 = asked /\ out = <<>>
    BY <1>1 DEF RngInv, RequestInv
  <2>2. Len(stream) = asked
    BY <2>1, StreamTypes
  <2>3. QED
    BY <1>1, <2>1, <2>2 DEF RequestInv
<1>6. QED
  BY <1>2, <1>3, <1>4, <1>5 DEF RngInv

LEMMA StepReadWord ==
    ASSUME RngInv, NEW w \in Nat, ReadWord(w)
    PROVE  RngInv'
<1>1. /\ pc = "ready" /\ asked' = asked + w /\ Flowing
      /\ UNCHANGED <<dptr, blocks, source, bytes_squeezed, refills,
                     permutations, pieces, rem, want, out, into, first>>
      /\ Len(stream) = asked /\ out = <<>>
  BY DEF ReadWord, spongeVars, counters, squeezeVars, Flowing, RngInv,
     RequestInv
<1>2. CASE Buffered >= w
  <2>1. Deliver(w) /\ UNCHANGED <<buf, pc, todo>> /\ Flowing'
    BY <1>1, <1>2 DEF ReadWord, Word, Flowing
  <2>2. w \in 0 .. Buffered
    BY <1>2, StreamTypes
  <2>3. /\ stream' \in Seq(Byte) /\ Len(stream') = Len(stream) + w
        /\ pos' \in 0 .. Len(buf') /\ BytesInv'
    BY <1>1, <2>1, <2>2, DeliverFacts
  <2>4. TypeOK'
    BY <1>1, <2>1, <2>3 DEF RngInv, TypeOK
  <2>5. SpongeInv'
    BY <1>1, <2>1 DEF RngInv, SpongeInv
  <2>6. RequestInv'
    BY <1>1, <2>1, <2>3 DEF RequestInv
  <2>7. QED
    BY <2>3, <2>4, <2>5, <2>6 DEF RngInv
<1>3. CASE ~(Buffered >= w)
  <2>1. /\ todo' = w /\ pc' = "bytes" /\ UNCHANGED <<bufVars, stream>>
        /\ Flowing'
    BY <1>3 DEF ReadWord, Word, Flowing
  <2>2. TypeOK'
    BY <1>1, <2>1 DEF RngInv, TypeOK, bufVars
  <2>3. SpongeInv'
    BY <1>1, <2>1 DEF RngInv, SpongeInv
  <2>4. BytesInv'
    BY <1>1, <2>1, BytesKept
  <2>5. RequestInv'
    BY <1>1, <2>1 DEF RequestInv
  <2>6. QED
    BY <2>2, <2>3, <2>4, <2>5 DEF RngInv
<1>4. QED
  BY <1>2, <1>3

LEMMA StepReadBulk ==
    ASSUME RngInv, NEW n \in Nat, ReadBulk(n)
    PROVE  RngInv'
<1> DEFINE c == AtMost(Buffered, n)
<1>1. /\ pc = "ready" /\ asked' = asked + n /\ Deliver(c) /\ Flowing
      /\ UNCHANGED <<dptr, blocks, buf, source, bytes_squeezed, refills,
                     permutations, pieces, todo, first>>
      /\ Len(stream) = asked /\ out = <<>>
  BY DEF ReadBulk, spongeVars, counters, Flowing, RngInv, RequestInv
<1>2. c \in 0 .. Buffered /\ (n > Buffered => c = Buffered)
      /\ (~(n > Buffered) => c = n)
  BY StreamTypes DEF AtMost
<1>3. out' = out /\ Flowing'
  BY <1>1 DEF ReadBulk, Squeeze, squeezeVars, Flowing
<1> HIDE DEF c
<1>4. /\ stream' \in Seq(Byte) /\ Len(stream') = Len(stream) + c
      /\ pos' \in 0 .. Len(buf') /\ Buffered' = Buffered - c /\ BytesInv'
  BY <1>1, <1>2, <1>3, DeliverFacts
<1>5. CASE n > Buffered
  <2>1. Squeeze(n - Buffered, "caller") /\ n - Buffered \in Nat
    BY <1>5, StreamTypes, SMTT(30) DEF ReadBulk
  <2>2. /\ rem' \in Nat /\ want' = n - Buffered /\ into' = "caller"
        /\ pc' = "count" /\ SpongeInv'
    BY <1>1, <2>1, SqueezeBegins DEF spongeVars, counters
  <2>3. TypeOK'
    BY <1>1, <1>3, <1>4, <2>1, <2>2 DEF RngInv, TypeOK
  <2>4. RequestInv'
    <3>1. /\ Len(stream') = Len(stream) + Buffered /\ Buffered' = 0
          /\ Len(out') = 0
      BY <1>1, <1>2, <1>3, <1>4, <1>5, StreamTypes
    <3>2. (Len(stream) + Buffered) + 0 + (n - Buffered) = asked + n
      BY <1>1, StreamTypes, SMTT(30)
    <3>3. QED
      BY <1>1, <1>3, <2>2, <3>1, <3>2 DEF RequestInv
  <2>5. QED
    BY <1>4, <2>2, <2>3, <2>4 DEF RngInv
<1>6. CASE ~(n > Buffered)
  <2>1. UNCHANGED <<pc, rem, want, into>>
    BY <1>6 DEF ReadBulk, squeezeVars
  <2>2. TypeOK'
    BY <1>1, <1>3, <1>4, <2>1 DEF RngInv, TypeOK
  <2>3. SpongeInv'
    BY <1>1, <1>3, <2>1 DEF RngInv, SpongeInv
  <2>4. RequestInv'
    BY <1>1, <1>2, <1>3, <1>4, <1>6, <2>1 DEF RequestInv
  <2>5. QED
    BY <1>4, <2>2, <2>3, <2>4 DEF RngInv
<1>7. QED
  BY <1>5, <1>6

-----------------------------------------------------------------------------
(***************************************************************************)
(* cmn_rng_squeeze.                                                        *)
(***************************************************************************)
LEMMA StepCount ==
    ASSUME RngInv, Count
    PROVE  RngInv'
<1>1. /\ pc = "count" /\ pc' = pc /\ rem > 0 /\ rem' = rem - AtMost(rem, Rate)
      /\ permutations' = permutations + 1
      /\ UNCHANGED <<dptr, blocks, bufVars, source, bytes_squeezed, refills,
                     pieces, todo, want, out, into, first, asked, stream>>
      /\ Flowing /\ Flowing'
  BY DEF Count, spongeVars, history, Flowing
<1>2. /\ rem' \in Nat /\ BlocksFor(rem) = BlocksFor(rem)' + 1
      /\ BlocksFor(rem)' \in Nat
  <2>1. rem \in Nat /\ Rate \in Nat \ {0}
    BY StreamTypes
  <2>2. CASE rem <= Rate
    <3>1. rem' = 0 /\ BlocksFor(rem) = 1
      BY <1>1, <2>1, <2>2, BlocksForFacts DEF AtMost
    <3>2. BlocksFor(rem)' = BlocksFor(0) /\ BlocksFor(0) = 0
      BY <2>1, <3>1, BlocksForFacts DEF BlocksFor
    <3>3. QED
      BY <3>1, <3>2
  <2>3. CASE rem > Rate
    <3>1. /\ rem' = rem - Rate /\ rem - Rate \in Nat
          /\ BlocksFor(rem) = BlocksFor(rem - Rate) + 1
          /\ BlocksFor(rem - Rate) \in Nat
      BY <1>1, <2>1, <2>3, BlocksForFacts DEF AtMost
    <3>2. BlocksFor(rem)' = BlocksFor(rem - Rate)
      BY <3>1 DEF BlocksFor
    <3>3. QED
      BY <3>1, <3>2
  <2>4. QED
    BY <2>1, <2>2, <2>3
<1>3. TypeOK'
  BY <1>1, <1>2 DEF RngInv, TypeOK, bufVars
<1>4. SpongeInv'
  <2>1. ToProcess(dptr, want)' = ToProcess(dptr, want)
    BY <1>1 DEF ToProcess, BlocksFor
  <2>2. permutations + (BlocksFor(rem)' + 1)
          = blocks + IF source = "shake" THEN ToProcess(dptr, want) ELSE 0
    BY <1>1, <1>2 DEF RngInv, SpongeInv
  <2>3. permutations + 1 + BlocksFor(rem)'
          = permutations + (BlocksFor(rem)' + 1)
    BY <1>2, StreamTypes
  <2>4. QED
    BY <1>1, <2>1, <2>2, <2>3 DEF RngInv, SpongeInv
<1>5. BytesInv'
  BY <1>1, BytesKept
<1>6. RequestInv'
  BY <1>1 DEF RngInv, RequestInv, bufVars, Buffered
<1>7. QED
  BY <1>3, <1>4, <1>5, <1>6 DEF RngInv

LEMMA StepCounted ==
    ASSUME RngInv, Counted
    PROVE  RngInv'
<1>1. /\ pc = "count" /\ pc' = "extract" /\ rem = 0
      /\ UNCHANGED <<dptr, blocks, bufVars, source, bytes_squeezed, refills,
                     permutations, pieces, todo, rem, want, out, into, first,
                     asked, stream>>
      /\ Flowing /\ Flowing'
  BY DEF Counted, spongeVars, counters, squeezeVars, history, Flowing
<1>2. TypeOK'
  BY <1>1 DEF RngInv, TypeOK, bufVars
<1>3. SpongeInv'
  <2>1. BlocksFor(rem) = 0 /\ permutations + 0 = permutations
    BY <1>1, BlocksForFacts, StreamTypes
  <2>2. permutations
          = blocks + IF source = "shake" THEN ToProcess(dptr, want) ELSE 0
    BY <1>1, <2>1 DEF RngInv, SpongeInv
  <2>3. ToProcess(dptr, want)' = ToProcess(dptr, want)
    BY <1>1 DEF ToProcess, BlocksFor
  <2>4. QED
    BY <1>1, <2>2, <2>3 DEF RngInv, SpongeInv
<1>4. BytesInv'
  BY <1>1, BytesKept
<1>5. RequestInv'
  BY <1>1 DEF RngInv, RequestInv, bufVars, Buffered
<1>6. QED
  BY <1>2, <1>3, <1>4, <1>5 DEF RngInv

\* A quotient is not negative when what it stands for is not.
LEMMA QuotientNat ==
    ASSUME NEW q \in Int, NEW s \in 0 .. Rate - 1, q * Rate + s \in Nat
    PROVE  q \in Nat
BY RateAssumption

\* Bytes taken from the source that are the next of the output keep what is
\* known of the bytes.
LEMMA TakeFacts ==
    ASSUME RngInv, Flowing, Flowing', NEW n \in Nat,
           UNCHANGED <<bufVars, source, bytes_squeezed, first, stream>>,
           NEW part \in Seq(Byte), Len(part) = n, out' = out \o part,
           \A i \in 1 .. n :
              part[i] = OutputByte(bytes_squeezed + Len(out) + i - 1)
    PROVE  out' \in Seq(Byte) /\ Len(out') = Len(out) + n /\ BytesInv'
<1>1. out \in Seq(Byte) /\ Len(out) \in Nat /\ bytes_squeezed \in Nat
  BY StreamTypes DEF RngInv, TypeOK
<1>2. /\ out' \in Seq(Byte) /\ Len(out') = Len(out) + n
      /\ \A i \in 1 .. Len(out) + n :
            out'[i] = IF i <= Len(out) THEN out[i] ELSE part[i - Len(out)]
  BY <1>1, ConcatProperties
<1>3. /\ \A x : OutputByte(x)' = OutputByte(x)
      /\ \A i \in 1 .. Len(out) : out[i] = OutputByte(bytes_squeezed + i - 1)
  BY DEF OutputByte, RngInv, BytesInv
<1>4. \A i \in 1 .. Len(out') : out'[i] = OutputByte(bytes_squeezed + i - 1)
  <2> TAKE i \in 1 .. Len(out')
  <2>1. CASE i <= Len(out)
    BY <1>1, <1>2, <1>3, <2>1
  <2>2. CASE i > Len(out)
    <3>1. i - Len(out) \in 1 .. n /\ out'[i] = part[i - Len(out)]
      BY <1>1, <1>2, <2>2
    <3>2. bytes_squeezed + Len(out) + (i - Len(out)) - 1 = bytes_squeezed + i - 1
      BY <1>1, <1>2
    <3>3. QED
      BY <3>1, <3>2
  <2>3. QED
    BY <1>1, <2>1, <2>2
<1>5. BytesInv'
  BY <1>3, <1>4 DEF RngInv, BytesInv, bufVars, Buffered
<1>6. QED
  BY <1>2, <1>5

LEMMA StepExtract ==
    ASSUME RngInv, Extract
    PROVE  RngInv'
<1> DEFINE b == IF dptr = Rate THEN blocks + 1 ELSE blocks
           d == IF dptr = Rate THEN 0 ELSE dptr
           c == AtMost(Rate - d, want)
           part == [i \in 1 .. c |-> <<b, d + i - 1>>]
<1>1. /\ pc = "extract" /\ pc' = pc /\ want > 0 /\ source = "shake"
      /\ blocks' = b /\ dptr' = d + c /\ want' = want - c
      /\ out' = out \o part
      /\ UNCHANGED <<bufVars, source, bytes_squeezed, refills, permutations,
                     pieces, todo, rem, into, first, asked, stream>>
      /\ Flowing /\ Flowing'
  BY DEF Extract, counters, history, Flowing
<1>2. /\ want \in Nat \ {0} /\ dptr \in 0 .. Rate /\ blocks \in Nat
      /\ first \in Nat /\ Rate \in Nat \ {0} /\ Len(out) \in Nat
      /\ bytes_squeezed \in Nat
  BY <1>1, StreamTypes
<1>3. /\ c \in 1 .. want /\ d \in 0 .. Rate - 1 /\ d + c <= Rate
      /\ ToProcess(dptr, want)
           = ToProcess(d + c, want - c) + (IF dptr = Rate THEN 1 ELSE 0)
  BY <1>2, ToProcessStep
<1>4. bytes_squeezed + Len(out) = (b - first) * Rate + d
  <2>1. bytes_squeezed + Len(out) = (blocks - first) * Rate + dptr
    BY <1>1 DEF RngInv, SpongeInv
  <2>2. CASE dptr = Rate
    <3>1. (blocks - first) * Rate + Rate = (blocks + 1 - first) * Rate
      BY <1>2
    <3>2. QED
      BY <1>2, <2>1, <2>2, <3>1
  <2>3. CASE dptr # Rate
    BY <2>1, <2>3
  <2>4. QED
    BY <2>2, <2>3
<1>5. b \in Nat /\ b - first \in Nat
  <2>1. b \in Nat /\ b - first \in Int
    BY <1>2
  <2>2. (b - first) * Rate + d \in Nat
    BY <1>2, <1>4
  <2> HIDE DEF b, d
  <2>3. QED
    BY <1>3, <2>1, <2>2, QuotientNat
<1> HIDE DEF c, d, b
<1>6. part \in Seq(Byte) /\ Len(part) = c
  <2>1. \A i \in 1 .. c : d + i - 1 \in Nat
    BY <1>3
  <2>2. \A i \in 1 .. c : <<b, d + i - 1>> \in Byte
    BY <1>5, <2>1 DEF Byte
  <2>3. QED
    BY <1>3, <2>2
<1>7. ASSUME NEW i \in 1 .. c
      PROVE  part[i] = OutputByte(bytes_squeezed + Len(out) + i - 1)
  <2> DEFINE q == b - first
             s == d + i - 1
  <2>1. q \in Nat /\ s \in 0 .. Rate - 1 /\ first + q = b
    BY <1>2, <1>3, <1>5
  <2>2. bytes_squeezed + Len(out) + i - 1 = q * Rate + s
    <3>1. q * Rate \in Nat
      BY <1>2, <2>1
    <3>2. bytes_squeezed + Len(out) = q * Rate + d
      BY <1>4
    <3> HIDE DEF q
    <3>3. QED
      BY <1>2, <1>3, <3>1, <3>2
  <2> HIDE DEF q, s
  <2>3. (q * Rate + s) \div Rate = q /\ (q * Rate + s) % Rate = s
    BY <2>1, PlaceFacts
  <2>4. OutputByte(q * Rate + s) = <<b, s>>
    BY <1>1, <2>1, <2>3 DEF OutputByte
  <2>5. QED
    BY <2>2, <2>4 DEF s
<1> HIDE DEF part
<1>8. out' \in Seq(Byte) /\ Len(out') = Len(out) + c /\ BytesInv'
  <2>1. c \in Nat
    BY <1>2, <1>3
  <2>2. QED
    BY <1>1, <1>6, <1>7, <2>1, TakeFacts
<1>9. TypeOK'
  <2>1. dptr' \in 0 .. Rate /\ want' \in Nat /\ blocks' \in Nat
    BY <1>1, <1>2, <1>3, <1>5
  <2>2. QED
    BY <1>1, <1>8, <2>1 DEF RngInv, TypeOK, bufVars
<1>10. SpongeInv'
  <2>1. bytes_squeezed' + Len(out') = (blocks' - first') * Rate + dptr'
    <3>1. (b - first) * Rate \in Nat
      BY <1>2, <1>5
    <3>2. bytes_squeezed + (Len(out) + c) = (b - first) * Rate + (d + c)
      BY <1>2, <1>3, <1>4, <3>1
    <3>3. QED
      BY <1>1, <1>8, <3>2
  <2>2. ToProcess(dptr, want)' = ToProcess(d + c, want - c)
    BY <1>1 DEF ToProcess, BlocksFor
  <2>3. permutations = blocks + ToProcess(dptr, want)
    BY <1>1 DEF RngInv, SpongeInv
  <2>4. ToProcess(d + c, want - c) \in Int
    <3>1. want - c \in Nat /\ d + c \in Nat
      BY <1>2, <1>3
    <3>2. want - c > Rate - (d + c) => want - c - (Rate - (d + c)) \in Nat
      BY <1>2, <1>3
    <3>3. QED
      BY <3>2, BlocksForFacts DEF ToProcess
  <2>5. permutations = b + ToProcess(d + c, want - c)
    BY <1>2, <1>3, <2>3, <2>4 DEF b
  <2>6. QED
    BY <1>1, <2>1, <2>2, <2>5 DEF SpongeInv
<1>11. RequestInv'
  <2>1. Buffered' = Buffered
    BY <1>1 DEF bufVars, Buffered
  <2>2. Len(out) + c + (want - c) = Len(out) + want
    BY <1>2, <1>3
  <2>3. Len(stream) + (Len(out) + c) + (want - c) = Len(stream) + Len(out) + want
    BY <1>2, <1>3, StreamTypes
  <2>4. QED
    BY <1>1, <1>8, <2>1, <2>2, <2>3 DEF RngInv, RequestInv
<1>12. QED
  BY <1>8, <1>9, <1>10, <1>11 DEF RngInv

LEMMA StepCallSource ==
    ASSUME RngInv, CallSource
    PROVE  RngInv'
<1> DEFINE part == [i \in 1 .. want |-> <<0, bytes_squeezed + i - 1>>]
<1>1. /\ pc = "extract" /\ pc' = pc /\ want > 0 /\ source = "callback"
      /\ want' = 0 /\ out' = part
      /\ UNCHANGED <<dptr, blocks, bufVars, source, bytes_squeezed, refills,
                     permutations, pieces, todo, rem, into, first, asked,
                     stream>>
      /\ Flowing /\ Flowing'
  BY DEF CallSource, spongeVars, counters, history, Flowing
<1>2. want \in Nat /\ bytes_squeezed \in Nat /\ Len(out) \in Nat
  BY StreamTypes
<1>3. part \in Seq(Byte) /\ Len(part) = want
  <2>1. \A i \in 1 .. want : <<0, bytes_squeezed + i - 1>> \in Byte
    BY <1>2 DEF Byte
  <2>2. part \in [1 .. want -> Byte]
    BY <2>1
  <2> HIDE DEF part
  <2>3. QED
    BY <1>2, <2>2
<1>4. \A i \in 1 .. want : part[i] = OutputByte(bytes_squeezed + i - 1)
  BY <1>1 DEF OutputByte
<1> HIDE DEF part
<1>5. BytesInv'
  <2>1. \A x : OutputByte(x)' = OutputByte(x)
    BY <1>1 DEF OutputByte
  <2>2. QED
    BY <1>1, <1>3, <1>4, <2>1 DEF RngInv, BytesInv, bufVars, Buffered
<1>6. TypeOK'
  BY <1>1, <1>3 DEF RngInv, TypeOK, bufVars
<1>7. SpongeInv'
  BY <1>1 DEF RngInv, SpongeInv
<1>8. RequestInv'
  <2>1. out = <<>> /\ Len(out) = 0
    BY <1>1 DEF RngInv, RequestInv
  <2>2. Buffered' = Buffered /\ Len(out') = want
    BY <1>1, <1>3 DEF bufVars, Buffered
  <2>3. /\ 0 + want = want + 0
        /\ Len(stream) + 0 + want = Len(stream) + want + 0
    BY <1>2, StreamTypes
  <2>4. QED
    BY <1>1, <2>1, <2>2, <2>3 DEF RngInv, RequestInv
<1>9. QED
  BY <1>5, <1>6, <1>7, <1>8 DEF RngInv

LEMMA StepSqueezed ==
    ASSUME RngInv, Squeezed
    PROVE  RngInv'
<1>1. /\ pc = "extract" /\ want = 0 /\ Flowing /\ Buffered = 0
      /\ bytes_squeezed' = bytes_squeezed + Len(out)
      /\ refills' = refills + 1 /\ out' = <<>>
      /\ UNCHANGED <<dptr, blocks, source, permutations, pieces, todo, rem,
                     want, into, first, asked>>
  BY DEF Squeezed, spongeVars, RngInv, RequestInv, Flowing
<1>2. /\ Len(out) \in Nat /\ Len(stream) \in Nat /\ bytes_squeezed \in Nat
      /\ bytes_squeezed = Len(stream) /\ dptr \in 0 .. Rate /\ Rate \in Nat
      /\ blocks \in Nat /\ pos \in 0 .. Len(buf) /\ Len(buf) \in Nat
  BY <1>1, StreamTypes
<1>3. /\ \A x : OutputByte(x)' = OutputByte(x)
      /\ \A i \in 1 .. Len(out) : out[i] = OutputByte(bytes_squeezed + i - 1)
      /\ \A i \in 1 .. Len(stream) : stream[i] = OutputByte(i - 1)
      /\ out \in Seq(Byte) /\ stream \in Seq(Byte) /\ Len(out') = 0
  BY <1>1 DEF OutputByte, RngInv, BytesInv, TypeOK
<1>4. permutations = blocks
  <2>1. source = "shake" => ToProcess(dptr, want) = 0
    BY <1>1, <1>2 DEF ToProcess
  <2>2. QED
    BY <1>1, <1>2, <2>1 DEF RngInv, SpongeInv
<1>5. source = "shake" =>
         bytes_squeezed' + Len(out') = (blocks - first) * Rate + dptr
  <2>1. bytes_squeezed + Len(out) + 0 = bytes_squeezed + Len(out)
    BY <1>2
  <2>2. QED
    BY <1>1, <1>3, <2>1 DEF RngInv, SpongeInv
<1>6. CASE into = "buf" /\ buf' = out /\ pos' = 0 /\ pc' = "bytes"
           /\ UNCHANGED stream
  <2>1. Len(out) = BufLen /\ Len(stream) + todo = asked
    <3>1. Len(out) + 0 = BufLen /\ Len(stream) + todo = asked
      BY <1>1, <1>6 DEF RngInv, RequestInv
    <3>2. QED
      BY <1>2, <3>1
  <2>2. TypeOK'
    <3>1. Len(buf') \in {0, BufLen} /\ pos' \in 0 .. Len(buf')
      BY <1>2, <1>6, <2>1
    <3>2. QED
      BY <1>1, <1>2, <1>3, <1>6, <3>1 DEF RngInv, TypeOK
  <2>3. SpongeInv'
    BY <1>1, <1>4, <1>5, <1>6 DEF SpongeInv
  <2>4. BytesInv'
    <3>1. Buffered' = Len(out) /\ Flowing'
      BY <1>2, <1>6 DEF Buffered, Flowing
    <3>2. Len(stream') = bytes_squeezed' - Buffered'
      BY <1>1, <1>2, <1>6, <3>1
    <3>3. \A i \in pos' + 1 .. Len(buf') :
             buf'[i] = OutputByte(Len(stream') - pos' + i - 1)
      <4> TAKE i \in pos' + 1 .. Len(buf')
      <4>1. i \in 1 .. Len(out) /\ Len(stream') - pos' + i - 1
                                     = bytes_squeezed + i - 1
        BY <1>2, <1>6
      <4>2. QED
        BY <1>3, <1>6, <4>1
    <3>4. QED
      BY <1>3, <1>6, <3>1, <3>2, <3>3 DEF BytesInv
  <2>5. RequestInv'
    BY <1>1, <1>6, <2>1 DEF RequestInv
  <2>6. QED
    BY <2>2, <2>3, <2>4, <2>5 DEF RngInv
<1>7. CASE into = "caller" /\ stream' = stream \o out /\ pc' = "ready"
           /\ UNCHANGED bufVars
  <2>1. /\ stream' \in Seq(Byte) /\ Len(stream') = Len(stream) + Len(out)
        /\ \A i \in 1 .. Len(stream) + Len(out) :
              stream'[i] = IF i <= Len(stream) THEN stream[i]
                           ELSE out[i - Len(stream)]
    BY <1>3, <1>7, ConcatProperties
  <2>2. Len(stream) + Len(out) = asked
    <3>1. Len(stream) + Len(out) + 0 = asked
      BY <1>1, <1>7 DEF RngInv, RequestInv
    <3>2. QED
      BY <1>2, <3>1
  <2>3. TypeOK'
    BY <1>1, <1>2, <1>7, <2>1 DEF RngInv, TypeOK, bufVars
  <2>4. SpongeInv'
    BY <1>1, <1>4, <1>5, <1>7 DEF SpongeInv
  <2>5. BytesInv'
    <3>1. Buffered' = 0 /\ Flowing' /\ pos' = Len(buf')
      BY <1>1, <1>2, <1>7 DEF Buffered, Flowing, bufVars
    <3>2. Len(stream') = bytes_squeezed' - Buffered'
      BY <1>1, <1>2, <2>1, <3>1
    <3>3. \A i \in 1 .. Len(stream') : stream'[i] = OutputByte(i - 1)
      <4> TAKE i \in 1 .. Len(stream')
      <4>1. CASE i <= Len(stream)
        BY <1>2, <1>3, <2>1, <4>1
      <4>2. CASE i > Len(stream)
        <5>1. i - Len(stream) \in 1 .. Len(out)
              /\ stream'[i] = out[i - Len(stream)]
          BY <1>2, <2>1, <4>2
        <5>2. bytes_squeezed + (i - Len(stream)) - 1 = i - 1
          BY <1>2, <2>1
        <5>3. QED
          BY <1>3, <5>1, <5>2
      <4>3. QED
        BY <1>2, <2>1, <4>1, <4>2
    <3>4. \A i \in pos' + 1 .. Len(buf') : FALSE
      BY <1>2, <1>7, <3>1 DEF bufVars
    <3>5. QED
      BY <1>3, <3>1, <3>2, <3>3, <3>4 DEF BytesInv
  <2>6. RequestInv'
    BY <1>1, <1>7, <2>1, <2>2 DEF RequestInv
  <2>7. QED
    BY <2>3, <2>4, <2>5, <2>6 DEF RngInv
<1>8. QED
  BY <1>6, <1>7 DEF Squeezed

-----------------------------------------------------------------------------
LEMMA RngStep == RngInv /\ [Next]_vars => RngInv'
<1> SUFFICES ASSUME RngInv, [Next]_vars PROVE RngInv'
  OBVIOUS
<1>1. ASSUME NEW n \in Reads, ReadBytes(n) \/ ReadBulk(n)
      PROVE  RngInv'
  BY <1>1, StepReadBytes, StepReadBulk, LengthsAssumption
<1>2. ASSUME NEW w \in Words, ReadWord(w)
      PROVE  RngInv'
  BY <1>2, StepReadWord, LengthsAssumption
<1>3. CASE UNCHANGED vars
  BY <1>3, ZenonT(60) DEF vars, spongeVars, bufVars, counters, squeezeVars, history,
     RngInv, TypeOK, SpongeInv, BytesInv, RequestInv, Flowing, Buffered,
     OutputByte, ToProcess, BlocksFor
<1>4. QED
  BY <1>1, <1>2, <1>3, StepStart, StepStartSource, StepAbsorbPiece, StepInject,
     StepFlip, StepBytesRefill, StepBytesCopy, StepBytesDone, StepCount,
     StepCounted, StepExtract, StepCallSource, StepSqueezed DEF Next

\* The inductive invariant holds in every reachable state.
THEOREM RngInvariance == Spec => []RngInv
<1>1. QED
  BY RngInit, RngStep, PTL DEF Spec

\* Every variable keeps its type: no position leaves its buffer.
THEOREM RngTypes == Spec => []TypeOK
<1>1. RngInv => TypeOK
  BY DEF RngInv
<1>2. QED
  BY <1>1, RngInvariance, PTL

\* The caller gets the output of SHAKE256, or of the callback, in order and
\* every byte once, whatever the rate, the buffer and the mix of reads.
THEOREM OutputInOrder == Spec => []StreamInOrder
<1>1. RngInv => StreamInOrder
  BY DEF RngInv, BytesInv, RequestInv, StreamInOrder
<1>2. QED
  BY <1>1, RngInvariance, PTL

\* The permutations the stream counts beforehand are those the sponge makes,
\* and the bytes it says it delivered those the caller got.
THEOREM CountsExactly == Spec => []CountersExact
<1>1. RngInv => CountersExact
  BY DEF RngInv, SpongeInv, BytesInv, CountersExact, bytes_delivered, Buffered
<1>2. QED
  BY <1>1, RngInvariance, PTL
=============================================================================
