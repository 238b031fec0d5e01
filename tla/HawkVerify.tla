----------------------------- MODULE HawkVerify -----------------------------
(***************************************************************************)
(* HAWK's verification, verify_finish() and verify_inner() of              *)
(* src/hawk_vrfy.c, as what it is hard to get right: every polynomial      *)
(* passes through one buffer of 10*n bytes, in which most are written over *)
(* another that is no longer needed, widened in place from half of the     *)
(* room they take, and decoded again where they are needed once more; and  *)
(* the key and the signature may come encoded, decoded by the caller, or   *)
(* be decoded in front of that buffer when there is room.                  *)
(*                                                                         *)
(* Memory is made of cells of 16 bits.  A cell holds an element of a       *)
(* polynomial, or half of one: <<term, index, part>>.  What is computed is *)
(* a term; the checks fail by the flaws that the inputs have.              *)
(***************************************************************************)
EXTENDS Integers, Sequences, SequencesExt

CONSTANTS
    N,                  \* n, the degree
    SaltLen, HpubLen,   \* the salt and the hash of the key, in cells
    Round,              \* 32 bytes, in cells
    Sizes,              \* tmp_len, in cells, not below the 7 bytes it must have
    Skews,              \* from tmp to the next multiple of 8 bytes, in cells
    Junk

VARIABLES
    pc,
    i,                  \* the turn of the loop, which has a modulus of its own
    sig, pub,           \* the cell where they are, or Encoded
    flaws,              \* what is wrong with them
    tt, room,           \* the buffer, past what was decoded in front of it
    mem,                \* it, and what the caller has decoded
    h,                  \* on the stack
    norm,               \* nnacc of each turn
    result

vars == <<pc, i, sig, pub, flaws, tt, room, mem, h, norm, result>>
place == <<sig, pub, flaws, tt, room>>

HN == N \div 2
Need == 5 * N
RoundUp(length) == length + ((-length) % Round)
PubLen == HN + N + HpubLen              \* HAWK_DECODED_PUB_LENGTH
SigLen == N + SaltLen                   \* HAWK_DECODED_SIG_LENGTH

\* The caller's memory is that below the buffer.
Encoded == -1
CallersPub == Encoded - PubLen
CallersSig == CallersPub - SigLen
Callers == CallersSig .. CallersSig + SigLen - 1 \cup CallersPub .. CallersPub + PubLen - 1

SigFlaws == {"signature"}
PubFlaws == {"q00", "q01", "padding"}
Flaws == SigFlaws \cup PubFlaws
         \cup {"order", "head", "division", "s0", "residues", "bound"}

-----------------------------------------------------------------------------
(***************************************************************************)
(* Memory.                                                                 *)
(***************************************************************************)
Put16(m, at, term, count) ==
    [c \in DOMAIN m |->
        IF c \in at .. at + count - 1 THEN <<term, c - at, "all">> ELSE m[c]]

Put32(m, at, term, count) ==
    [c \in DOMAIN m |->
        IF c \in at .. at + 2 * count - 1
        THEN <<term, (c - at) \div 2, IF (c - at) % 2 = 0 THEN "low" ELSE "high">>
        ELSE m[c]]

\* The polynomial that is in a place, if all of it is.
Get16(m, at, count) == IF m = Put16(m, at, m[at][1], count) THEN m[at][1] ELSE Junk
Get32(m, at, count) == IF m = Put32(m, at, m[at][1], count) THEN m[at][1] ELSE Junk

\* The loops that widen int16_t to 32 bits, from the first element on.
WidenOne(m, to, from, u) ==
    LET x == m[from + u]
        term == IF x[2] = u /\ x[3] = "all" THEN x[1] ELSE Junk
    IN  [m EXCEPT ![to + 2 * u] = <<term, u, "low">>,
                  ![to + 2 * u + 1] = <<term, u, "high">>]

Widen(m, to, from, count) ==
    LET turn[u \in 0 .. count] ==
            IF u = 0 THEN m ELSE WidenOne(turn[u - 1], to, from, u - 1)
    IN  turn[count]

\* What the decoders write.
PutPub(m, at) == Put16(Put16(m, at, "q00", HN), at + HN, "q01", N)
PutPubHash(m, at) == Put16(PutPub(m, at), at + HN + N, "hpub", HpubLen)
PutSig(m, at) == Put16(Put16(m, at, "s1", N), at + N, "salt", SaltLen)

\* The layout: fq00, fq01, ft1, and then t0, c1, c2.  What is widened in place
\* starts in the upper half.
fq00 == tt
fq01 == tt + N
ft1 == tt + 3 * N
t0 == tt
c1 == tt + N
c2 == tt + 3 * N
LowerHalf(at) == at
UpperHalf(at) == at + N

-----------------------------------------------------------------------------
(***************************************************************************)
(* Terms, and those that verification is to compute.                       *)
(***************************************************************************)
HashOf(hpub, salt) == <<"h", hpub, salt>>
T1(hash, s1) == <<"h1 - 2*s1", hash, s1>>
FFT(x) == <<"FFT", x>>
Ratio(x, y, q) == <<"iFFT(x*y/q)", x, y, q>>
T0(hash, z) == <<"h0 - 2*round(h0/2 + z)", hash, z>>
NTT(k, x) == <<"NTT", k, x>>
Inverted(x) == <<"1/x", x>>
Times(x, y) == <<"x*y", x, y>>
Plus(x, y) == <<"x + y", x, y>>
Trace(x, y) == <<"Tr(x*adj(y))", x, y>>
NormOf(acc, q, e) == <<"acc + Tr(q*e*adj(e))", acc, q, e>>

TheH == HashOf("hpub", "salt")
TheT1 == T1(TheH, "s1")
TheT0 == T0(TheH, Ratio(FFT("q01"), FFT(TheT1), FFT("q00")))
TheD(k) == Times(NTT(k, TheT1), Inverted(NTT(k, "q00")))
TheNorm(k) ==
    NormOf(Trace(TheD(k), NTT(k, TheT1)), NTT(k, "q00"),
           Plus(NTT(k, TheT0), Times(NTT(k, "q01"), TheD(k))))

-----------------------------------------------------------------------------
\* A call.  What the caller has decoded was decoded without an error.
Call(size, skew) ==
    /\ pc' = "pub" /\ i' = 1
    /\ sig' \in {Encoded, CallersSig} /\ pub' \in {Encoded, CallersPub}
    /\ sig' # Encoded => flaws' \cap SigFlaws = {}
    /\ pub' # Encoded => flaws' \cap PubFlaws = {}
    /\ tt' = skew /\ room' = size - skew
    /\ LET blank == [c \in 0 .. size - 1 \cup Callers |-> <<Junk, 0, "all">>]
       IN  mem' = PutSig(PutPubHash(blank, CallersPub), CallersSig)
    /\ h' = Junk /\ norm' = <<>> /\ result' = FALSE

\* There is room to decode them in front.
FastPub == pub = Encoded /\ room >= Need + RoundUp(PubLen)
FastSig == sig = Encoded /\ room >= Need + RoundUp(SigLen)

(***************************************************************************)
(* The checks: at each place those of the flaws that it finds.             *)
(***************************************************************************)
Checked ==
    CASE pc = "pub" /\ FastPub -> PubFlaws
      [] pc = "sig" /\ FastSig -> SigFlaws
      [] pc = "decode" /\ sig = Encoded -> SigFlaws
      [] pc = "t1" -> {"order"}
      [] pc = "q00" -> {"head"} \cup IF pub = Encoded THEN {"q00"} ELSE {}
      [] pc = "q01" /\ pub = Encoded -> {"q01", "padding"}
      [] pc = "divide" -> {"division"}
      [] pc = "s0" -> {"s0"}
      [] pc = "compare" /\ i = 2 -> {"residues"}
      [] pc = "bound" -> {"bound"}
      [] OTHER -> {}

Fails == flaws \cap Checked # {} \/ (pc = "decode" /\ room < Need)

Reject ==
    /\ Fails
    /\ pc' = "done"
    /\ UNCHANGED <<i, place, mem, h, norm, result>>

From(here, there) ==
    /\ pc = here /\ ~Fails
    /\ pc' = there

Turn(here, there) ==
    /\ From(here, there)
    /\ UNCHANGED <<i, place, norm, result>>

-----------------------------------------------------------------------------
(***************************************************************************)
(* verify_finish.                                                          *)
(***************************************************************************)
PubFirst ==
    /\ From("pub", "sig")
    /\ IF FastPub
       THEN /\ mem' = PutPubHash(mem, tt)
            /\ pub' = tt
            /\ tt' = tt + RoundUp(PubLen) /\ room' = room - RoundUp(PubLen)
       ELSE UNCHANGED <<mem, pub, tt, room>>
    /\ UNCHANGED <<i, sig, flaws, h, norm, result>>

SigFirst ==
    /\ From("sig", "decode")
    /\ IF FastSig
       THEN /\ mem' = PutSig(mem, tt)
            /\ sig' = tt
            /\ tt' = tt + RoundUp(SigLen) /\ room' = room - RoundUp(SigLen)
       ELSE UNCHANGED <<mem, sig, tt, room>>
    /\ UNCHANGED <<i, pub, flaws, h, norm, result>>

-----------------------------------------------------------------------------
(***************************************************************************)
(* verify_inner, as far as t0.                                             *)
(***************************************************************************)
SigAt == IF sig = Encoded THEN tt ELSE sig

Decode ==
    /\ Turn("decode", "hash")
    /\ mem' = IF sig = Encoded THEN PutSig(mem, tt) ELSE mem
    /\ UNCHANGED h

Hash ==
    /\ Turn("hash", "t1")
    /\ LET hpub == IF pub = Encoded THEN "hpub"
                   ELSE Get16(mem, pub + HN + N, HpubLen)
       IN  h' = HashOf(hpub, Get16(mem, SigAt + N, SaltLen))
    /\ UNCHANGED mem

\* t1, of which sym-break is checked.
MakeT1 ==
    /\ Turn("t1", "q00")
    /\ mem' = Put32(mem, ft1, FFT(T1(h, Get16(mem, SigAt, N))), N)
    /\ UNCHANGED h

\* A polynomial of the key: decoded to a place, unless it is decoded already,
\* and made the FFT or the NTT of.
Fetch(m, term, count, at) == IF pub = Encoded THEN Put16(m, at, term, count) ELSE m
Source(offset, at) == IF pub = Encoded THEN at ELSE pub + offset

\* What a polynomial is made of when it is loaded: the FFT of it, or its NTT
\* for the modulus of the turn.
Floating == 0
Transform(k, x) == IF k = Floating THEN FFT(x) ELSE NTT(k, x)

LoadInto(m, to, from, count, full, k) ==
    LET whole == Widen(m, to, from, count)
    IN  Put32(whole, to, Transform(k, Get32(whole, to, count)), full)

\* q00 goes where ft1 is not yet in the way; the FFT of it is n words long, of
\* which half is zero and written over by the next.
MakeQ00 ==
    /\ Turn("q00", "q01")
    /\ LET at == UpperHalf(fq01)
       IN  mem' = LoadInto(Fetch(mem, "q00", HN, at), fq00, Source(0, at), HN, N, Floating)
    /\ UNCHANGED h

MakeQ01 ==
    /\ Turn("q01", "divide")
    /\ LET at == UpperHalf(fq01)
       IN  mem' = LoadInto(Fetch(mem, "q01", N, at), fq01, Source(HN, at), N, N, Floating)
    /\ UNCHANGED h

Divide ==
    /\ Turn("divide", "s0")
    /\ mem' = Put32(mem, fq01, Ratio(Get32(mem, fq01, N), Get32(mem, ft1, N),
                                     Get32(mem, fq00, HN)), N)
    /\ UNCHANGED h

MakeT0 ==
    /\ Turn("s0", "t1 again")
    /\ mem' = Put16(mem, t0, T0(h, Get32(mem, fq01, N)), N)
    /\ UNCHANGED h

-----------------------------------------------------------------------------
(***************************************************************************)
(* The loop over the two moduli.                                           *)
(***************************************************************************)
\* c2 <- t1: s1 is decoded or copied, and made t1 of in its place.
AgainT1 ==
    /\ Turn("t1 again", "inverse")
    /\ LET at == UpperHalf(c2)
           s1 == IF sig = Encoded THEN "s1" ELSE Get16(mem, sig, N)
           narrow == Put16(Put16(mem, at, s1, N), at, T1(h, s1), N)
       IN  mem' = LoadInto(narrow, c2, at, N, N, i)
    /\ UNCHANGED h

\* c1 <- q00.
LoadQ00(m) ==
    LET at == UpperHalf(c1)
    IN  LoadInto(Fetch(m, "q00", HN, at), c1, Source(0, at), HN, HN, i)

\* c1 <- 1/c1, with the upper half of it to work in.
Invert ==
    /\ Turn("inverse", "product")
    /\ LET m == LoadQ00(mem)
           inverse == Put32(m, c1, Inverted(Get32(m, c1, HN)), HN)
       IN  mem' = Put32(inverse, c1 + N, Junk, HN)
    /\ UNCHANGED h

\* c2 <- c2*c1, and the first part of the norm; c1 <- q01*c2.
Multiply ==
    /\ From("product", "sum")
    /\ LET q00 == Get32(mem, c1, HN)
           t1 == Get32(mem, c2, N)
           d == Times(t1, q00)
           at == UpperHalf(c1)
           m == LoadInto(Fetch(Put32(mem, c2, d, N), "q01", N, at), c1, Source(HN, at),
                         N, N, i)
       IN  /\ norm' = Append(norm, Trace(d, t1))
           /\ mem' = Put32(m, c1, Times(Get32(m, c1, N), Get32(m, c2, N)), N)
    /\ UNCHANGED <<i, place, h, result>>

\* c2 <- t0 + c1; c1 <- q00 again, which the norm is completed with.
Norm ==
    /\ From("sum", "compare")
    /\ LET t == Put32(mem, c2, NTT(i, Get16(mem, t0, N)), N)
           e == Plus(Get32(t, c2, N), Get32(t, c1, N))
           m == LoadQ00(Put32(t, c2, e, N))
       IN  /\ mem' = m
           /\ norm' = [norm EXCEPT ![i] = NormOf(@, Get32(m, c1, HN), Get32(m, c2, N))]
    /\ UNCHANGED <<i, place, h, result>>

NextPrime ==
    /\ pc = "compare" /\ i = 1
    /\ i' = 2 /\ pc' = "t1 again"
    /\ UNCHANGED <<place, mem, h, norm, result>>

Compare ==
    /\ i = 2
    /\ Turn("compare", "bound")
    /\ UNCHANGED <<mem, h>>

Accept ==
    /\ From("bound", "done")
    /\ result' = TRUE
    /\ UNCHANGED <<i, place, mem, h, norm>>

-----------------------------------------------------------------------------
Step ==
    \/ Reject
    \/ PubFirst \/ SigFirst
    \/ Decode \/ Hash \/ MakeT1 \/ MakeQ00 \/ MakeQ01 \/ Divide \/ MakeT0
    \/ AgainT1 \/ Invert \/ Multiply \/ Norm \/ NextPrime \/ Compare \/ Accept

\* The norms that are compared and bounded are those of the key, the signature
\* and the hash of both, although every polynomial they are made of has been
\* through the same buffer; a call accepts exactly what has no flaw, after
\* both moduli, and leaves what the caller has decoded as it was.
VerdictExact ==
    /\ \A k \in 1 .. Len(norm) : pc \in {"compare", "bound", "done"} => norm[k] = TheNorm(k)
    /\ pc = "done" => (result <=> flaws = {} /\ room >= Need)
    /\ result => Len(norm) = 2
    /\ mem = PutSig(PutPubHash(mem, CallersPub), CallersSig)

-----------------------------------------------------------------------------
(***************************************************************************)
(* The inductive invariant.                                                *)
(***************************************************************************)
\* All of a polynomial is in a place.
Holds16(m, at, term, count) ==
    \A u \in 0 .. count - 1 : at + u \in DOMAIN m /\ m[at + u] = <<term, u, "all">>

Holds32(m, at, term, count) ==
    \A u \in 0 .. count - 1 :
       /\ at + 2 * u \in DOMAIN m /\ m[at + 2 * u] = <<term, u, "low">>
       /\ at + 2 * u + 1 \in DOMAIN m /\ m[at + 2 * u + 1] = <<term, u, "high">>

HoldsPub(m, at) ==
    /\ Holds16(m, at, "q00", HN)
    /\ Holds16(m, at + HN, "q01", N)
    /\ Holds16(m, at + HN + N, "hpub", HpubLen)

HoldsSig(m, at) == Holds16(m, at, "s1", N) /\ Holds16(m, at + N, "salt", SaltLen)

\* The steps that come after another.
InLoop == {"t1 again", "inverse", "product", "sum", "compare"}
AfterS0 == InLoop \cup {"bound"}
AfterDivide == AfterS0 \cup {"s0"}
AfterQ01 == AfterDivide \cup {"divide"}
AfterQ00 == AfterQ01 \cup {"q01"}
AfterT1 == AfterQ00 \cup {"q00"}
AfterHash == AfterT1 \cup {"t1"}
AfterDecode == AfterHash \cup {"hash"}
Calling == AfterDecode \cup {"pub", "sig", "decode", "done"}

\* The caller's memory and what was decoded in front of the buffer lie below
\* it, and are not written to.
BufferInv ==
    /\ tt \in Nat /\ room \in Nat
    /\ mem = [c \in 0 .. tt + room - 1 \cup Callers |-> mem[c]]
    /\ HoldsPub(mem, CallersPub) /\ HoldsSig(mem, CallersSig)
    /\ sig \in Int /\ pub \in Int
    /\ sig # Encoded => sig + SigLen <= tt /\ HoldsSig(mem, sig)
    /\ pub # Encoded => pub + PubLen <= tt /\ HoldsPub(mem, pub)

\* What has been checked has no flaw.
FlawInv ==
    /\ flaws \subseteq Flaws
    /\ sig # Encoded => flaws \cap SigFlaws = {}
    /\ pub # Encoded => flaws \cap PubFlaws = {}
    /\ pc \in AfterDecode => room >= Need /\ flaws \cap SigFlaws = {}
    /\ pc \in AfterT1 => "order" \notin flaws
    /\ pc \in AfterQ00 => flaws \cap {"head", "q00"} = {}
    /\ pc \in AfterQ01 => flaws \cap {"q01", "padding"} = {}
    /\ pc \in AfterDivide => "division" \notin flaws
    /\ pc \in AfterS0 => "s0" \notin flaws
    /\ pc = "bound" => "residues" \notin flaws
    /\ pc # "done" => ~result
    /\ pc = "done" => (result <=> flaws = {} /\ room >= Need)

\* What is in the buffer while it is needed.
TermInv ==
    /\ pc \in {"hash", "t1"} /\ sig = Encoded => HoldsSig(mem, tt)
    /\ pc \in AfterHash => h = TheH
    /\ pc \in {"q00", "q01", "divide"} => Holds32(mem, ft1, FFT(TheT1), N)
    /\ pc \in {"q01", "divide"} => Holds32(mem, fq00, FFT("q00"), HN)
    /\ pc = "divide" => Holds32(mem, fq01, FFT("q01"), N)
    /\ pc = "s0" => Holds32(mem, fq01, Ratio(FFT("q01"), FFT(TheT1), FFT("q00")), N)
    /\ pc \in InLoop => Holds16(mem, t0, TheT0, N)
    /\ pc \in {"inverse", "product"} => Holds32(mem, c2, NTT(i, TheT1), N)
    /\ pc = "product" => Holds32(mem, c1, Inverted(NTT(i, "q00")), HN)
    /\ pc = "sum" => /\ Holds32(mem, c2, TheD(i), N)
                     /\ Holds32(mem, c1, Times(NTT(i, "q01"), TheD(i)), N)

\* The norms of the turns that are over, and what there is of this one's.
NormInv ==
    /\ i \in {1, 2}
    /\ norm = [k \in 1 .. Len(norm) |-> norm[k]] /\ Len(norm) \in 0 .. 2
    /\ pc \in Calling \ (AfterS0 \cup {"done"}) => i = 1 /\ Len(norm) = 0
    /\ pc \in {"t1 again", "inverse", "product"} => Len(norm) = i - 1
    /\ pc \in {"sum", "compare"} => Len(norm) = i
    /\ pc = "sum" => norm[i] = Trace(TheD(i), NTT(i, TheT1))
    /\ pc = "bound" \/ result => i = 2 /\ Len(norm) = 2
    /\ \A k \in 1 .. Len(norm) : k < i \/ pc # "sum" => norm[k] = TheNorm(k)

VerifyInv ==
    /\ pc \in Calling
    /\ BufferInv
    /\ FlawInv
    /\ TermInv
    /\ NormInv
=============================================================================
