------------------------------ MODULE HawkWire ------------------------------
(***************************************************************************)
(* HAWK's keys and signatures on their way: key pairs are made (Keygen),   *)
(* signers encode what they signed, and receivers decode what bytes they   *)
(* are given, which need not be what anyone has sent.                      *)
(***************************************************************************)
EXTENDS Keygen

CONSTANTS
    Salts, Vectors,   \* of the signatures that are sent
    Keys, Signatures  \* the buffers that are received

\* The signer's limit on s1 is what its code can say.
ASSUME WireAssumption ==
    /\ Salts \subseteq [1 .. SaltSize * ByteBits -> Bit]
    /\ Vectors \subseteq [1 .. LenSig -> Int]
    /\ \A s1 \in Vectors : \A u \in 1 .. LenSig : Rest(s1[u], LowSig) < HiSig
    /\ Keys \subseteq [1 .. PubSize * ByteBits -> Bit]
    /\ Signatures \subseteq [1 .. SigSize * ByteBits -> Bit]

VARIABLES
    wire,             \* what is on its way, and of what it was made
    decoded           \* what the receiver makes of it

vars == <<keygenVars, wire, decoded>>

Nothing == [is |-> "nothing", bits |-> NoBits, salt |-> <<>>, s1 |-> <<>>]

Receive(what, it) ==
    /\ wire' = what
    /\ decoded' = it
    /\ pc' = "received"
    /\ UNCHANGED <<api, seed_buf, fg, work, own, priv, pub>>

\* Zh(decode_public_key) and Zh(decode_signature).
ReceiveKey(avx2, bits) ==
    Receive([Nothing EXCEPT !.is = "key", !.bits = bits], DecodePublic(avx2, bits))

ReceiveSignature(avx2, bits) ==
    Receive([Nothing EXCEPT !.is = "signature", !.bits = bits], DecodeSig(avx2, bits))

\* encode_sig of a build with or without the 64-bit loop, and the receiver.
SendSignature(words, avx2, salt, s1) ==
    LET bits == EncodeSig(words, salt, s1)
    IN  Receive([is |-> "sent", bits |-> bits, salt |-> salt, s1 |-> s1],
                IF bits = NoBits THEN NoSignature ELSE DecodeSig(avx2, bits))

Received ==
    /\ pc = "received"
    /\ pc' = "idle" /\ wire' = Nothing /\ decoded' = NoSignature
    /\ UNCHANGED <<api, seed_buf, fg, work, own, priv, pub>>

-----------------------------------------------------------------------------
Init == KeygenInit /\ wire = Nothing /\ decoded = NoSignature

MakeKeys ==
    /\ KeygenStep \/ Forget \/ \E a \in {"hawk", "e8"} : Start(a)
    /\ UNCHANGED <<wire, decoded>>

Arrive ==
    /\ pc = "idle"
    /\ \E avx2 \in BOOLEAN :
          \/ \E bits \in Keys : ReceiveKey(avx2, bits)
          \/ \E bits \in Signatures : ReceiveSignature(avx2, bits)
          \/ \E words \in BOOLEAN, salt \in Salts, s1 \in Vectors :
                SendSignature(words, avx2, salt, s1)

Next == MakeKeys \/ Arrive \/ Received

-----------------------------------------------------------------------------
(***************************************************************************)
(* Properties.                                                             *)
(***************************************************************************)

\* q00[0] before it is put in an int16_t.
CodedHead(bits) ==
    LET gr == DecodeGR(bits, Len00, Low00, Hi00)
    IN  gr.values[1] * Power(Extra) + NumberAt(bits, gr.used + 1, Extra)

\* What a decoder accepts, whatever bytes it was given, is the encoding of
\* what it makes of them: no key and no signature has a second encoding.  But
\* for one value: a constant term of q00 that an int16_t does not hold is
\* accepted, and wraps.  All builds accept the same and decode it to the same.
Canonical ==
    /\ wire.is = "key" => \A avx2 \in BOOLEAN : decoded = DecodePublic(avx2, wire.bits)
    /\ wire.is = "signature" => \A avx2 \in BOOLEAN : decoded = DecodeSig(avx2, wire.bits)
    /\ wire.is = "key" /\ decoded # NoKey =>
          (EncodePublic(decoded) = wire.bits
              <=> CodedHead(wire.bits) = Int16(CodedHead(wire.bits)))
    /\ wire.is = "signature" /\ decoded # NoSignature =>
          EncodeSig(FALSE, decoded.salt, decoded.s1) = wire.bits

\* A signer of either build sends the same signatures: it refuses one only if
\* it does not fit, and what it sends is decoded to what was signed.
SentArrives ==
    wire.is = "sent" =>
       LET length == SaltSize * ByteBits + Len(EncodeGR(wire.s1, LowSig))
       IN  IF length <= SigSize * ByteBits
           THEN decoded = [salt |-> wire.salt, s1 |-> wire.s1]
           ELSE wire.bits = NoBits

\* The inductive invariant: what was received is what was given or sent.
WireInv ==
    /\ wire.is = "key" => wire.bits \in Keys /\ decoded = DecodePublic(FALSE, wire.bits)
    /\ wire.is = "signature" => wire.bits \in Signatures /\ decoded = DecodeSig(FALSE, wire.bits)
    /\ wire.is = "sent" =>
          /\ wire.salt \in Salts /\ wire.s1 \in Vectors
          /\ \E words \in BOOLEAN : wire.bits = EncodeSig(words, wire.salt, wire.s1)
          /\ \E avx2 \in BOOLEAN :
                decoded = IF wire.bits = NoBits THEN NoSignature
                          ELSE DecodeSig(avx2, wire.bits)
=============================================================================
