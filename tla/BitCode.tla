------------------------------ MODULE BitCode ------------------------------
(***************************************************************************)
(* The Golomb-Rice code of a vector, for any number of low bits and any    *)
(* limit on the rest: encode_gr() of src/hawk_kgen.c and decode_gr() of    *)
(* src/hawk_vrfy.c.  A vector is coded in three parts: all the signs, the  *)
(* low bits of all magnitudes, and the rest of each magnitude in unary.    *)
(* A buffer is the sequence of its bits, the lowest of the first byte      *)
(* first.                                                                  *)
(***************************************************************************)
EXTENDS Integers, SequencesExt

Bit == {0, 1}
None == [values |-> <<>>, used |-> 0]
NoBits == <<>>

Zeros(k) == [i \in 1 .. k |-> 0]
Pad(bits, length) == bits \o Zeros(length - Len(bits))
AllZero(bits, from, to) == \A i \in from .. to : bits[i] = 0

\* 1 << k.
Power(k) ==
    LET power[j \in 0 .. k] == IF j = 0 THEN 1 ELSE 2 * power[j - 1]
    IN  power[k]

\* The bits of a number, and the number of k bits from a place on.
BitsOf(x, k) == [i \in 1 .. k |-> (x \div Power(i - 1)) % 2]
NumberAt(bits, from, k) ==
    LET number[j \in 0 .. k] ==
            IF j = 0 THEN 0
            ELSE number[j - 1] + bits[from + j - 1] * Power(j - 1)
    IN  number[k]

-----------------------------------------------------------------------------
\* w ^ tbmask(w): a negative number is complemented.
Magnitude(v) == IF v < 0 THEN -v - 1 ELSE v
SignBit(v) == IF v < 0 THEN 1 ELSE 0
Rest(v, low) == Magnitude(v) \div Power(low)
Unary(k) == Zeros(k) \o <<1>>

\* encode_gr, as far as the last bit it sets.
EncodeGR(a, low) ==
    LET fixed == [u \in DOMAIN a |-> BitsOf(Magnitude(a[u]), low)]
        rest == [u \in DOMAIN a |-> Unary(Rest(a[u], low))]
    IN  [u \in DOMAIN a |-> SignBit(a[u])] \o FlattenSeq(fixed) \o FlattenSeq(rest)

-----------------------------------------------------------------------------
(***************************************************************************)
(* Decoding.  An error of decode_gr is a result with no values.            *)
(***************************************************************************)
\* The unary part: each value ends at the next bit that is set, if it is near
\* enough and in the buffer.
ReadValue(bits, st, hi) ==
    LET ones == {i \in st.next .. Len(bits) : bits[i] = 1 /\ i < st.next + hi}
        end == CHOOSE i \in ones : \A j \in ones : i <= j
    IN  IF ~st.ok \/ ones = {} THEN [ok |-> FALSE, next |-> st.next, ks |-> st.ks]
        ELSE [ok |-> TRUE, next |-> end + 1, ks |-> Append(st.ks, end - st.next)]

ReadMany(bits, st, count, hi) ==
    LET read[u \in 0 .. count] ==
            IF u = 0 THEN st ELSE ReadValue(bits, read[u - 1], hi)
    IN  read[count]

ReadUnary(bits, from, count, hi) ==
    ReadMany(bits, [ok |-> TRUE, next |-> from, ks |-> <<>>], count, hi)

\* The signs and low bits, put to what was read of each value.
CodedValue(bits, ks, u, count, low) ==
    LET magnitude == ks[u] * Power(low) + NumberAt(bits, count + low * (u - 1) + 1, low)
    IN  IF bits[u] = 1 THEN -magnitude - 1 ELSE magnitude

CodedValues(bits, unary, count, low) ==
    IF ~unary.ok THEN None
    ELSE [values |-> [u \in 1 .. count |-> CodedValue(bits, unary.ks, u, count, low)],
          used |-> unary.next - 1]

\* decode_gr: the values, and how many bits they took.
DecodeGR(bits, count, low, hi) ==
    IF Len(bits) < (low + 1) * count THEN None
    ELSE CodedValues(bits, ReadUnary(bits, (low + 1) * count + 1, count, hi), count, low)

-----------------------------------------------------------------------------
(***************************************************************************)
(* The decoders of a build with AVX2.  They take a byte's worth of values  *)
(* at a time, from a word of "look" bytes whose last byte they fill up     *)
(* with guard bits, so that each of the values ends within the word; only  *)
(* where the values might reach into the last two bytes do they take them  *)
(* one by one.                                                             *)
(***************************************************************************)
\* acc_len: the bits of the last byte taken that are still to be read.
Buffered(st, byte) == (1 - st.next) % byte

\* x: the bits of the word, the last byte's worth of them set, after the bits
\* that were read.
Guarded(bits, st, byte, look) ==
    LET guard == st.next + byte * (look - 1)
    IN  [i \in 1 .. guard + byte - 1 |-> IF i < guard THEN bits[i] ELSE 1]

\* One turn of decode_gr_vpart, near the end of the buffer and before, where
\* "fast" is what was read of the word.
NearEnd(bits, st, byte, look) ==
    st.next - 1 + Buffered(st, byte) + byte * look > Len(bits)

FastTurn(bits, st, fast, hi, byte, look) ==
    IF \A i \in st.next .. st.next + byte * look - 1 : bits[i] = 0 THEN [st EXCEPT !.ok = FALSE]
    ELSE IF fast.next - st.next > byte * (look - 2) + Buffered(st, byte)
    THEN ReadMany(bits, st, byte, hi)
    ELSE [fast EXCEPT !.ok = \A u \in 1 .. byte : fast.ks[Len(st.ks) + u] < hi]

ReadTurn(bits, st, hi, byte, look) ==
    IF ~st.ok \/ NearEnd(bits, st, byte, look) THEN ReadMany(bits, st, byte, hi)
    ELSE FastTurn(bits, st, ReadMany(Guarded(bits, st, byte, look), st, byte, byte * look),
                  hi, byte, look)

\* decode_gr_vpart: all of them.
ReadWide(bits, from, count, hi, byte, look) ==
    LET read[t \in 0 .. count \div byte] ==
            IF t = 0 THEN [ok |-> TRUE, next |-> from, ks |-> <<>>]
            ELSE ReadTurn(bits, read[t - 1], hi, byte, look)
    IN  read[count \div byte]

\* decode_gr_5_9 and the others.
DecodeWide(bits, count, low, hi, byte, look) ==
    IF Len(bits) < (low + 2) * count THEN None
    ELSE CodedValues(bits, ReadWide(bits, (low + 1) * count + 1, count, hi, byte, look),
                     count, low)
=============================================================================
