----------------------------- MODULE GolombRice -----------------------------
(***************************************************************************)
(* What HAWK makes of its Golomb-Rice code: encode_public() of             *)
(* src/hawk_kgen.c, encode_sig() of src/hawk_sign.c, and the callers of    *)
(* decode_gr() in src/hawk_vrfy.c: public keys and signatures, with their  *)
(* sizes and what fills them up.  Sizes are in bytes of ByteBits bits.     *)
(***************************************************************************)
EXTENDS BitCode

CONSTANTS
    ByteBits,                \* 8
    Len00, Low00, Hi00,      \* q00: n/2 values, 5 or 6 low bits, 16 for the rest
    Extra,                   \* eb00_len: bits of q00[0] coded apart
    Len01, Low01, Hi01,      \* q01: n values, 8 to 10 low bits, 8 or 16
    PubSize,                 \* HAWK_PUBKEY_SIZE(logn)
    LenSig, LowSig, HiSig,   \* s1: n values, 5 or 6 low bits, 16
    SaltSize, SigSize,       \* salt_len, HAWK_SIG_SIZE(logn)
    GroupSize, WordSize      \* the 64-bit loop: 3 values, 8 bytes

ASSUME CodeAssumption ==
    /\ ByteBits \in Nat \ {0}
    /\ \A len \in {Len00, Len01, LenSig} : len \in Nat \ {0} /\ len % ByteBits = 0
    /\ Extra \in 0 .. ByteBits
    /\ {Low00, Low01, LowSig} \subseteq Nat /\ Low00 + Extra > 0
    /\ {Hi00, Hi01, HiSig} \subseteq Nat \ {0}
    /\ {PubSize, SaltSize, SigSize} \subseteq Nat /\ SaltSize <= SigSize
    /\ {GroupSize, WordSize} \subseteq Nat \ {0}

\* The 64-bit loop stores a word at a time: what is left of a byte and a group
\* must fit in one, and it must stop where a word of bits is still to come.
ASSUME WordAssumption ==
    WordSize * ByteBits >= ByteBits - 1 + GroupSize * HiSig

\* The decoder that takes a word at a time: a word of zeros is no value.
ASSUME LookAssumption ==
    /\ WordSize >= 2
    /\ \A hi \in {Hi00, Hi01, HiSig} : hi <= WordSize * ByteBits

ToByte(length) == length + ((-length) % ByteBits)

-----------------------------------------------------------------------------
(***************************************************************************)
(* Encoding.                                                               *)
(***************************************************************************)
\* q00[0] is coded without its lowest bits, which follow the code, in the bits
\* that it leaves of its last byte and, where these are too few, the next one.
EncodeQ00(q00) ==
    LET scaled == [q00 EXCEPT ![1] = @ \div Power(Extra)]
    IN  EncodeGR(scaled, Low00) \o BitsOf(q00[1] % Power(Extra), Extra)

\* encode_public: q00, q01, each from a byte of its own, and padding; NoBits
\* where that exceeds the size.
EncodePublic(q) ==
    LET first == EncodeQ00(q.q00)
        bits == Pad(first, ToByte(Len(first))) \o EncodeGR(q.q01, Low01)
    IN  IF ToByte(Len(bits)) <= PubSize * ByteBits
        THEN Pad(bits, PubSize * ByteBits)
        ELSE NoBits

-----------------------------------------------------------------------------
(***************************************************************************)
(* The signature's encoder has two ways to write the unary part into       *)
(* "room" bytes: byte by byte, or, on 64-bit machines with AVX2, first in  *)
(* groups that are stored a word at a time, which gives up when there is   *)
(* no room for a whole word.                                               *)
(***************************************************************************)
\* A loop's state: the bits that wait for their byte to be full, and the room.
Write(st, bits) ==
    LET length == st.pending + bits
    IN  [ok |-> st.ok, pending |-> length % ByteBits,
         room |-> st.room - length \div ByteBits]

WriteValue(st, k) ==
    LET next == Write(st, k + 1)
    IN  [next EXCEPT !.ok = st.ok /\ next.room >= 0]

WriteGroup(st, bits) ==
    [Write(st, bits) EXCEPT !.ok = st.ok /\ st.room >= WordSize]

\* The bits that the first j values take.
Taken(ks) ==
    LET taken[j \in 0 .. Len(ks)] ==
            IF j = 0 THEN 0 ELSE taken[j - 1] + ks[j] + 1
    IN  taken

\* The last partial byte.
RoomForAll(st) == st.ok /\ (st.pending > 0 => st.room > 0)

\* The groups start at 0, 3, ..., up to n - 64.
LastGroup(n) == n - GroupSize
LastStart(n) == n - WordSize * ByteBits
Groups(n) == IF n < WordSize * ByteBits THEN 0 ELSE LastStart(n) \div GroupSize + 1

Written(ks, from, st) ==
    LET written[j \in from .. Len(ks)] ==
            IF j = from THEN st ELSE WriteValue(written[j - 1], ks[j])
    IN  written[Len(ks)]

Begin(room) == [ok |-> TRUE, pending |-> 0, room |-> room]

FitsByBytes(ks, room) == RoomForAll(Written(ks, 0, Begin(room)))

FitsByWords(ks, room) ==
    LET taken == Taken(ks)
        last == Groups(Len(ks))
        words[j \in 0 .. last] ==
            IF j = 0 THEN Begin(room)
            ELSE WriteGroup(words[j - 1], taken[GroupSize * j] - taken[GroupSize * (j - 1)])
    IN  RoomForAll(Written(ks, GroupSize * last, words[last]))

\* The checks are made in this order: the least size first, then as it writes.
VariableRoom == SigSize - SaltSize - (LenSig \div ByteBits) * (LowSig + 1)
LeastRoom == VariableRoom >= LenSig \div ByteBits

EncodeSig(words, salt, s1) ==
    LET ks == [u \in DOMAIN s1 |-> Rest(s1[u], LowSig)]
        fits == IF words THEN FitsByWords(ks, VariableRoom)
                ELSE FitsByBytes(ks, VariableRoom)
    IN  IF LeastRoom /\ fits
        THEN Pad(salt \o EncodeGR(s1, LowSig), SigSize * ByteBits)
        ELSE NoBits

-----------------------------------------------------------------------------
(***************************************************************************)
(* Decoding, by a build with or without AVX2.                              *)
(***************************************************************************)
\* decode_gr and, in builds with AVX2, decode_gr_5_9, decode_gr_6_10 and so on.
DecodeVector(avx2, bits, count, low, hi) ==
    IF avx2 THEN DecodeWide(bits, count, low, hi, ByteBits, WordSize)
    ELSE DecodeGR(bits, count, low, hi)

\* The unused bits of the last byte are zero.
AnyEnd(bits, used) == TRUE
CleanEnd(bits, used) == AllZero(bits, used + 1, ToByte(used))

\* q00[0] is put together in an int16_t, one bit too narrow for what the code
\* can say.
Half16 == Power(Low00 + Extra - 1) * Hi00
Int16(x) == ((x + Half16) % (2 * Half16)) - Half16

\* decode_q00: with the bits of q00[0] that were coded apart.
WithExtra(bits, gr) ==
    LET end == gr.used + Extra
        eb00 == NumberAt(bits, gr.used + 1, Extra)
    IN  IF gr = None \/ Len(bits) < ToByte(end) \/ ~CleanEnd(bits, end) THEN None
        ELSE [values |-> [gr.values EXCEPT ![1] = Int16(@ * Power(Extra) + eb00)],
              used |-> ToByte(end)]

DecodeQ00(avx2, bits) ==
    WithExtra(bits, DecodeVector(avx2, bits, Len00, Low00, Hi00))

\* decode_q01 and decode_s1.
ToCleanEnd(bits, gr) ==
    IF gr # None /\ CleanEnd(bits, gr.used)
    THEN [gr EXCEPT !.used = ToByte(gr.used)] ELSE None

DecodeClean(avx2, bits, count, low, hi) ==
    ToCleanEnd(bits, DecodeVector(avx2, bits, count, low, hi))

\* decode_public_key, of a buffer that has its size: NoKey on an error.
NoKey == [q00 |-> <<>>, q01 |-> <<>>]

KeyFrom(d00, tail, d01) ==
    IF d00 = None \/ d01 = None \/ ~AllZero(tail, d01.used + 1, Len(tail)) THEN NoKey
    ELSE [q00 |-> d00.values, q01 |-> d01.values]

DecodeAfter(avx2, bits, d00) ==
    LET tail == SubSeq(bits, d00.used + 1, Len(bits))
    IN  KeyFrom(d00, tail, DecodeClean(avx2, tail, Len01, Low01, Hi01))

DecodePublic(avx2, bits) == DecodeAfter(avx2, bits, DecodeQ00(avx2, bits))

\* decode_sig_inner and its callers, of a buffer that has its size.
NoSignature == [salt |-> <<>>, s1 |-> <<>>]

SignatureFrom(salt, tail, s1) ==
    IF s1 = None \/ ~AllZero(tail, s1.used + 1, Len(tail)) THEN NoSignature
    ELSE [salt |-> salt, s1 |-> s1.values]

DecodeSig(avx2, bits) ==
    LET split == SaltSize * ByteBits
        tail == SubSeq(bits, split + 1, Len(bits))
    IN  SignatureFrom(SubSeq(bits, 1, split), tail,
                    DecodeClean(avx2, tail, LenSig, LowSig, HiSig))
=============================================================================
