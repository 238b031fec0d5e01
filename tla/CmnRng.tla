------------------------------- MODULE CmnRng -------------------------------
(***************************************************************************)
(* A random stream of the samplers, e8/common/cmn_rng.c, over the SHAKE256 *)
(* sponge of src/sha3.c: the seed material is absorbed piece by piece, and *)
(* the output is read through a small buffer or past it, in reads of every *)
(* width, while counters say what the stream cost.                         *)
(*                                                                         *)
(* A byte of output is where it stands in the sponge: the pair of the      *)
(* block (how many times process_block() ran) and the offset in it.  The   *)
(* byte of a callback source is <<0, its index>>.  The loops of sha3.c and *)
(* of cmn_rng.c take one step per turn.                                    *)
(***************************************************************************)
EXTENDS Integers, Sequences

CONSTANTS
    Rate,       \* sc->rate: 136 bytes
    BufLen,     \* sizeof r->buf: 128 bytes
    Words,      \* widths of the word reads: 8 and 4 bytes
    Pieces,     \* lengths of domain, seed and label
    Reads,      \* lengths of the other reads
    MaxBytes    \* bound: bytes read from a stream

ASSUME RateAssumption == Rate \in Nat \ {0}
ASSUME BufLenAssumption == BufLen \in Nat \ {0}
ASSUME LengthsAssumption ==
    Words \subseteq Nat /\ Pieces \subseteq Nat /\ Reads \subseteq Nat

VARIABLES
    \* The sponge: shake_context, by its position and the blocks so far
    dptr, blocks,
    \* The stream: cmn_rng
    buf, pos,
    source,           \* "shake" or "callback"
    bytes_squeezed, refills, permutations,
    \* The call under way
    pc,
    pieces,           \* lengths still to absorb
    todo,             \* bytes left of the piece, or of the caller's read
    rem,              \* of the counting loop of cmn_rng_squeeze
    want,             \* bytes left to extract
    out, into,        \* the bytes extracted, and where they go
    \* History: the first output block, the bytes asked for, those delivered
    first, asked, stream

spongeVars == <<dptr, blocks>>
bufVars == <<buf, pos>>
counters == <<bytes_squeezed, refills, permutations>>
squeezeVars == <<rem, want, out, into>>
history == <<first, asked, stream>>
vars == <<spongeVars, bufVars, source, counters, pc, pieces, todo,
          squeezeVars, history>>

Init ==
    /\ dptr = 0 /\ blocks = 0
    /\ buf = <<>> /\ pos = 0 /\ source = "shake"
    /\ bytes_squeezed = 0 /\ refills = 0 /\ permutations = 0
    /\ pc = "unset" /\ pieces = <<>> /\ todo = 0
    /\ rem = 0 /\ want = 0 /\ out = <<>> /\ into = "buf"
    /\ first = 0 /\ asked = 0 /\ stream = <<>>

AtMost(x, bound) == IF x > bound THEN bound ELSE x

-----------------------------------------------------------------------------
(***************************************************************************)
(* Starting a stream.                                                      *)
(***************************************************************************)

\* What cmn_rng_start and cmn_rng_init_source leave of an earlier stream.
Reset ==
    /\ bytes_squeezed' = 0 /\ refills' = 0 /\ permutations' = 0
    /\ pos' = 0 /\ buf' = <<>>

NewStream ==
    /\ pc \in {"unset", "ready"}
    /\ Reset
    /\ blocks' = 0 /\ first' = 0 /\ asked' = 0 /\ stream' = <<>>
    /\ UNCHANGED <<todo, squeezeVars>>

\* cmn_rng_init and cmn_rng_init_prefixed: the context is new, or a copy of
\* one that has absorbed a prefix up to offset d.
Start(d, lengths) ==
    /\ NewStream
    /\ source' = "shake"
    /\ dptr' = d /\ pieces' = lengths
    /\ pc' = "absorb"

\* cmn_rng_init_source.
StartSource ==
    /\ NewStream
    /\ source' = "callback" /\ pc' = "ready"
    /\ dptr' = 0
    /\ UNCHANGED pieces

\* The permutations cmn_rng_absorb says a piece will cost.
AbsorbCostFresh(len) == len \div Rate
AbsorbCost(len) == (dptr + len) \div Rate

AbsorbPiece ==
    /\ pc = "absorb" /\ pieces # <<>>
    /\ permutations' = permutations + AbsorbCost(Head(pieces))
    /\ todo' = Head(pieces) /\ pieces' = Tail(pieces)
    /\ pc' = "inject"
    /\ UNCHANGED <<spongeVars, bufVars, source, bytes_squeezed, refills,
                   squeezeVars, history>>

\* One turn of the loop of shake_inject, and its end.
Inject ==
    /\ pc = "inject"
    /\ IF todo = 0
       THEN pc' = "absorb" /\ UNCHANGED <<spongeVars, todo>>
       ELSE LET clen == AtMost(Rate - dptr, todo)
                full == dptr + clen = Rate
            IN  /\ dptr' = IF full THEN 0 ELSE dptr + clen
                /\ blocks' = IF full THEN blocks + 1 ELSE blocks
                /\ todo' = todo - clen
                /\ UNCHANGED pc
    /\ UNCHANGED <<bufVars, source, counters, pieces, squeezeVars, history>>

\* Every piece is absorbed: shake_flip.
Flip ==
    /\ pc = "absorb" /\ pieces = <<>>
    /\ dptr' = Rate /\ first' = blocks + 1
    /\ pc' = "ready"
    /\ UNCHANGED <<blocks, bufVars, source, counters, pieces, todo, squeezeVars,
                   asked, stream>>

-----------------------------------------------------------------------------
(***************************************************************************)
(* Reads.                                                                  *)
(***************************************************************************)
Buffered == Len(buf) - pos

\* The next n bytes of the buffer go to the caller.
DeliverTwice(n) ==
    /\ stream' = stream \o SubSeq(buf, pos + 1, pos + n)
    /\ pos' = pos + 2 * n
Deliver(n) ==
    /\ stream' = stream \o SubSeq(buf, pos + 1, pos + n)
    /\ pos' = pos + n

\* What a squeeze of len bytes has still to count: the permutations beyond
\* those of the block that is open.
CountIfReached(len) == IF len >= Rate - dptr THEN len - (Rate - dptr) + 1 ELSE 0
ToCount(len) == IF len > Rate - dptr THEN len - (Rate - dptr) ELSE 0

\* cmn_rng_squeeze: len bytes to the buffer or to the caller.
Squeeze(len, target) ==
    /\ want' = len /\ out' = <<>> /\ into' = target
    /\ rem' = IF source = "shake" THEN ToCount(len) ELSE 0
    /\ pc' = "count"

\* cmn_rng_read_bytes is called.
ReadBytes(n) ==
    /\ pc = "ready"
    /\ asked' = asked + n /\ todo' = n /\ pc' = "bytes"
    /\ UNCHANGED <<spongeVars, bufVars, source, counters, pieces, squeezeVars,
                   first, stream>>

\* One turn of its loop: the buffer is refilled when it is empty, and then
\* gives what it has.
BytesRefill ==
    /\ pc = "bytes" /\ todo > 0 /\ Buffered = 0
    /\ Squeeze(BufLen, "buf")
    /\ UNCHANGED <<spongeVars, bufVars, source, counters, pieces, todo, history>>

BytesCopy ==
    /\ pc = "bytes" /\ todo > 0 /\ Buffered > 0
    /\ Deliver(AtMost(Buffered, todo))
    /\ todo' = todo - AtMost(Buffered, todo)
    /\ UNCHANGED <<spongeVars, buf, source, counters, pc, pieces, squeezeVars,
                   first, asked>>

BytesDone ==
    /\ pc = "bytes" /\ todo = 0
    /\ pc' = "ready"
    /\ UNCHANGED <<spongeVars, bufVars, source, counters, pieces, todo,
                   squeezeVars, history>>

\* cmn_rng_read_u64le and cmn_rng_read_u32le: from the buffer if it has the
\* whole word, by cmn_rng_read_bytes otherwise.
WordDiscarding(w) ==
    IF Buffered >= w
    THEN Deliver(w) /\ UNCHANGED <<buf, pc, todo>>
    ELSE buf' = <<>> /\ pos' = 0 /\ todo' = w /\ pc' = "bytes" /\ UNCHANGED stream
Word(w) ==
    IF Buffered >= w
    THEN Deliver(w) /\ UNCHANGED <<buf, pc, todo>>
    ELSE todo' = w /\ pc' = "bytes" /\ UNCHANGED <<bufVars, stream>>

ReadWord(w) ==
    /\ pc = "ready"
    /\ asked' = asked + w
    /\ Word(w)
    /\ UNCHANGED <<spongeVars, source, counters, pieces, squeezeVars, first>>

\* cmn_rng_read_bulk: the buffered bytes, and the rest past the buffer.
ReadBulk(n) ==
    /\ pc = "ready"
    /\ asked' = asked + n
    /\ Deliver(AtMost(Buffered, n))
    /\ IF n > Buffered
       THEN Squeeze(n - Buffered, "caller")
       ELSE UNCHANGED <<pc, squeezeVars>>
    /\ UNCHANGED <<spongeVars, buf, source, counters, pieces, todo, first>>

-----------------------------------------------------------------------------
(***************************************************************************)
(* cmn_rng_squeeze.                                                        *)
(***************************************************************************)

\* One turn of the loop that counts the permutations.
Count ==
    /\ pc = "count" /\ rem > 0
    /\ permutations' = permutations + 1
    /\ rem' = rem - AtMost(rem, Rate)
    /\ UNCHANGED <<spongeVars, bufVars, source, bytes_squeezed, refills, pc,
                   pieces, todo, want, out, into, history>>

Counted ==
    /\ pc = "count" /\ rem = 0
    /\ pc' = "extract"
    /\ UNCHANGED <<spongeVars, bufVars, source, counters, pieces, todo,
                   squeezeVars, history>>

\* One turn of the loop of shake_extract: a full block is processed first.
Extract ==
    /\ pc = "extract" /\ want > 0 /\ source = "shake"
    /\ LET b == IF dptr = Rate THEN blocks + 1 ELSE blocks
           d == IF dptr = Rate THEN 0 ELSE dptr
           clen == AtMost(Rate - d, want)
       IN  /\ blocks' = b /\ dptr' = d + clen
           /\ want' = want - clen
           /\ out' = out \o [i \in 1 .. clen |-> <<b, d + i - 1>>]
    /\ UNCHANGED <<bufVars, source, counters, pc, pieces, todo, rem, into,
                   history>>

\* The callback gives its next bytes.
CallSource ==
    /\ pc = "extract" /\ want > 0 /\ source = "callback"
    /\ out' = [i \in 1 .. want |-> <<0, bytes_squeezed + i - 1>>]
    /\ want' = 0
    /\ UNCHANGED <<spongeVars, bufVars, source, counters, pc, pieces, todo, rem,
                   into, history>>

\* The bytes are there: a refill goes on with the read, a bulk read is over.
Squeezed ==
    /\ pc = "extract" /\ want = 0
    /\ bytes_squeezed' = bytes_squeezed + Len(out)
    /\ refills' = refills + 1
    /\ \/ /\ into = "buf" /\ buf' = out /\ pos' = 0 /\ pc' = "bytes"
          /\ UNCHANGED stream
       \/ /\ into = "caller" /\ stream' = stream \o out /\ pc' = "ready"
          /\ UNCHANGED bufVars
    /\ out' = <<>>
    /\ UNCHANGED <<spongeVars, source, permutations, pieces, todo, rem, want,
                   into, first, asked>>

-----------------------------------------------------------------------------
Fits(n) == asked + n <= MaxBytes

Next ==
    \/ \E d \in 0 .. Rate - 1, x, y, z \in Pieces : Start(d, <<x, y, z>>)
    \/ StartSource
    \/ AbsorbPiece \/ Inject \/ Flip
    \/ \E n \in Reads : Fits(n) /\ (ReadBytes(n) \/ ReadBulk(n))
    \/ \E w \in Words : Fits(w) /\ ReadWord(w)
    \/ BytesRefill \/ BytesCopy \/ BytesDone
    \/ Count \/ Counted \/ Extract \/ CallSource \/ Squeezed

Spec == Init /\ [][Next]_vars

-----------------------------------------------------------------------------
(***************************************************************************)
(* Properties.                                                             *)
(***************************************************************************)
Byte == Nat \X Nat

\* Every variable has its type.
TypeOK ==
    /\ dptr \in 0 .. Rate /\ blocks \in Nat
    /\ buf \in Seq(Byte) /\ Len(buf) \in {0, BufLen} /\ pos \in 0 .. Len(buf)
    /\ source \in {"shake", "callback"}
    /\ bytes_squeezed \in Nat /\ refills \in Nat /\ permutations \in Nat
    /\ pc \in {"unset", "absorb", "inject", "ready", "bytes", "count", "extract"}
    /\ pieces \in Seq(Pieces) /\ todo \in Nat /\ rem \in Nat /\ want \in Nat
    /\ out \in Seq(Byte) /\ into \in {"buf", "caller"}
    /\ first \in Nat /\ asked \in Nat /\ stream \in Seq(Byte)

\* Byte i of a stream's output: byte i of SHAKE256, or of the callback.
OutputByte(i) ==
    IF source = "callback" THEN <<0, i>> ELSE <<first + i \div Rate, i % Rate>>

\* Whatever the mix of reads, the caller gets the output of SHAKE256 in
\* order, every byte once, and as many as it asked for (cmn_rng.h: the
\* stream never discards bytes, and a bulk read gives what read_bytes would).
StreamInOrder ==
    /\ \A i \in 1 .. Len(stream) : stream[i] = OutputByte(i - 1)
    /\ pc = "ready" => Len(stream) = asked

\* bytes_delivered of cmn_rng_counters_get.
bytes_delivered == bytes_squeezed - (Len(buf) - pos)

\* Between calls the counters are what happened: the permutations that
\* cmn_rng_squeeze and cmn_rng_absorb work out beforehand are those the
\* sponge made after the prefix, and the bytes delivered those the caller got.
CountersExact ==
    pc = "ready" =>
       /\ permutations = blocks
       /\ bytes_delivered = Len(stream)

-----------------------------------------------------------------------------
(***************************************************************************)
(* The inductive invariant.                                                *)
(***************************************************************************)

\* A stream is set up.
Flowing == pc \in {"ready", "bytes", "count", "extract"}

\* The blocks that hold x bytes, and those to process for n bytes more when
\* the open block is read up to offset d.
BlocksFor(x) == (x + Rate - 1) \div Rate
ToProcess(d, n) == IF n > Rate - d THEN BlocksFor(n - (Rate - d)) ELSE 0

\* Where the sponge stands, and how far the count of permutations is ahead.
SpongeInv ==
    /\ pc \in {"absorb", "inject"} => dptr < Rate /\ source = "shake"
    /\ pc = "inject" => permutations = blocks + (dptr + todo) \div Rate
    /\ pc \in {"absorb", "ready", "bytes"} => permutations = blocks
    /\ Flowing /\ source = "shake" =>
          bytes_squeezed + Len(out) = (blocks - first) * Rate + dptr
    /\ pc = "count" =>
          permutations + BlocksFor(rem)
             = blocks + IF source = "shake" THEN ToProcess(dptr, want) ELSE 0
    /\ pc = "extract" =>
          permutations
             = blocks + IF source = "shake" THEN ToProcess(dptr, want) ELSE 0

\* Which bytes of the output are where.
BytesInv ==
    /\ ~Flowing => /\ stream = <<>> /\ buf = <<>> /\ out = <<>> /\ asked = 0
                   /\ bytes_squeezed = 0
    /\ Len(stream) = bytes_squeezed - Buffered
    /\ \A i \in 1 .. Len(stream) : stream[i] = OutputByte(i - 1)
    /\ \A i \in pos + 1 .. Len(buf) :
          buf[i] = OutputByte(Len(stream) - pos + i - 1)
    /\ \A i \in 1 .. Len(out) : out[i] = OutputByte(bytes_squeezed + i - 1)

\* What is left of the read under way.
RequestInv ==
    /\ pc \in {"ready", "bytes", "count"} => out = <<>>
    /\ pc = "ready" => Len(stream) = asked
    /\ pc = "bytes" => Len(stream) + todo = asked
    /\ pc \in {"count", "extract"} =>
          /\ Buffered = 0
          /\ into = "buf" => /\ Len(stream) + todo = asked
                             /\ Len(out) + want = BufLen
          /\ into = "caller" => Len(stream) + Len(out) + want = asked
    /\ pc = "extract" /\ source = "callback" /\ want > 0 => out = <<>>

RngInv ==
    /\ TypeOK
    /\ SpongeInv
    /\ BytesInv
    /\ RequestInv
=============================================================================
