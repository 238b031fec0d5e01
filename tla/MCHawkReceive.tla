----------------------------- MODULE MCHawkReceive ---------------------------
(* Instances of HawkReceive for TLC. *)
EXTENDS HawkReceive

CONSTANTS small, hawkOnly, wideHead, wide, long, full

MCForm ==
    small :> [q00 |-> <<2, 0>>, q01 |-> <<-1, 1>>] @@
    hawkOnly :> [q00 |-> <<5, -1>>, q01 |-> <<0, 2>>] @@
    wideHead :> [q00 |-> <<8, 0>>, q01 |-> <<0, 0>>] @@   \* no int16_t
    wide :> [q00 |-> <<2, 9>>, q01 |-> <<0, 0>>] @@       \* out of a limit
    long :> [q00 |-> <<7, 5>>, q01 |-> <<3, -1>>] @@      \* does not fit
    full :> [q00 |-> <<7, -3>>, q01 |-> <<1, -1>>]        \* to the last bit

MCSeeds == DOMAIN MCForm
MCKeys == [1 .. PubSize * ByteBits -> Bit]

\* Signs and low bits of two kinds, and every variable part.
Fixed == {[u \in 1 .. (LowSig + 1) * LenSig |-> 0], [u \in 1 .. (LowSig + 1) * LenSig |-> u % 2]}
MCSignatures ==
    {<<1, 0>> \o fixed \o rest : fixed \in Fixed, rest \in [1 .. VariableRoom * ByteBits -> Bit]}
MCSalts == {<<1, 0>>}
MCVectors == [1 .. LenSig -> {-1, 2}]

\* Keys that decode, that do not, and that have a negative head; a signature
\* that decodes and one that is too long.
Key(q00, q01) == EncodePublic([q00 |-> q00, q01 |-> q01])
MCPairs ==
    {Key(<<2, 0>>, <<-1, 1>>), Key(<<-2, 0>>, <<-1, 1>>), Zeros(PubSize * ByteBits),
     [Key(<<2, 0>>, <<-1, 1>>) EXCEPT ![16] = 1],
     SubSeq(Key(<<2, 0>>, <<0, 0>>), 1, 8) \o Zeros(8)}
    \X {EncodeSig(FALSE, <<1, 0>>, [u \in 1 .. LenSig |-> -1]), Zeros(SigSize * ByteBits)}

\* tmp_len: too little, the documented least, and room to decode one, the
\* other, or both.
Rounded(length) == length + ((-length) % Round)
ForPub == Rounded(N \div 2 + N + HpubLen)
ForSig == Rounded(N + SaltLen)
MCSizes == {3} \cup {skew + 5 * N + extra :
    skew \in Skews, extra \in {-1, 0, ForSig, ForPub, ForPub + ForSig}}
=============================================================================
