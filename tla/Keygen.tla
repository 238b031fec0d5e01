------------------------------- MODULE Keygen -------------------------------
(***************************************************************************)
(* Key generation.  Hawk_keygen() of src/ng_hawk.c draws seeds until one   *)
(* gives f and g that pass its checks, have an F and a G, and a public     *)
(* form within limits; it leaves everything in one work area.  Two callers *)
(* go on from there, and start it again when the key does not suit them:   *)
(* keygen() of src/hawk_kgen.c, which reads the results where they lie,    *)
(* and e8_keygen() of e8/src/e8_api.c, which has F, G and the seed copied  *)
(* out and puts a public form of its own over the work area.               *)
(*                                                                         *)
(* What is computed is a term of what it is computed from.  HAWK's public  *)
(* form is a small vector, as its encoder may refuse it (GolombRice).      *)
(***************************************************************************)
EXTENDS GolombRice

CONSTANTS
    Seeds,            \* what the RNG gives
    Form,             \* the public form q00, q01 that each leads to
    Lim00, Lim01,     \* 2^bits_lim00, 2^bits_lim01
    \* Of E8's public form: q00 and q01 are within their limits, q11 is, and
    \* q00 has an inverse
    E8Within, E8Within11, E8Invertible,
    Junk

ASSUME FormAssumption ==
    Form \in [Seeds -> [q00 : [1 .. Len00 -> Int], q01 : [1 .. Len01 -> Int]]]
\* What is within the limits, the code can say.
ASSUME LimitsAssumption ==
    /\ {Lim00, Lim01} \subseteq Nat
    /\ Lim00 <= Power(Low00) * Hi00 /\ Lim01 <= Power(Low01) * Hi01
ASSUME E8Assumption ==
    E8Within \subseteq Seeds /\ E8Within11 \subseteq Seeds /\ E8Invertible \subseteq Seeds

VARIABLES
    pc,
    api,          \* whose key generation runs
    seed_buf,     \* the seed of this turn
    fg,           \* f and g
    work,         \* the work area: F and G, the public form, the seed
    own,          \* e8_keygen's F, G and seed
    priv, pub     \* what the caller gets

keygenVars == <<pc, api, seed_buf, fg, work, own, priv, pub>>

Empty == [FG |-> Junk, q |-> Junk, seed |-> Junk]
NoPriv == [seed |-> Junk, FG |-> Junk, hpub |-> Junk]

\* Terms: f and g of a seed, F and G of f and g, E8's form of all four, and
\* the hash of a public key.
RegenFG(s) == <<"fg", s>>
Solution(p) == <<"FG", p>>
E8Form(p, P) == <<"q", p, P>>
Hash(bits) == <<"hpub", bits>>

SeedOf(p) == p[2]

KeygenInit ==
    /\ pc = "idle" /\ api = "hawk"
    /\ seed_buf = Junk /\ fg = Junk /\ work = Empty
    /\ own = Empty /\ priv = NoPriv /\ pub = Junk

Goto(there) == pc' = there

-----------------------------------------------------------------------------
(***************************************************************************)
(* Hawk_keygen.                                                            *)
(***************************************************************************)
Start(a) ==
    /\ pc = "idle"
    /\ api' = a
    /\ Goto("draw")
    /\ UNCHANGED <<seed_buf, fg, work, own, priv, pub>>

\* A turn of the loop: rng and Hawk_regen_fg.
Draw(s) ==
    /\ pc = "draw"
    /\ seed_buf' = s
    /\ fg' = RegenFG(s)
    /\ Goto("check")
    /\ UNCHANGED <<api, work, own, priv, pub>>

\* A check of f and g fails, or they have no F and G: continue.
RejectPair ==
    /\ pc = "check"
    /\ work' = Empty
    /\ Goto("draw")
    /\ UNCHANGED <<api, seed_buf, fg, own, priv, pub>>

\* solve_NTRU (NtruSolver) leaves F and G at the start of the area, and
\* make_q001 does not disturb them.
Solve(FG) ==
    /\ pc = "check"
    /\ work' = [Empty EXCEPT !.FG = FG]
    /\ Goto("form")
    /\ UNCHANGED <<api, seed_buf, fg, own, priv, pub>>

\* make_q001: q00 and q01 and their limits; the constant term of q00 has an
\* int16_t to itself.
Within(x, lim) == -lim < x /\ x < lim

FormOf(p) == Form[SeedOf(p)]
LimitsOK(q) ==
    /\ q.q00[1] = Int16(q.q00[1])
    /\ \A u \in DOMAIN q.q00 : u > 1 => Within(q.q00[u], Lim00)
    /\ \A u \in DOMAIN q.q01 : Within(q.q01[u], Lim01)

RejectForm ==
    /\ pc = "form" /\ ~LimitsOK(FormOf(fg))
    /\ work' = Empty
    /\ Goto("draw")
    /\ UNCHANGED <<api, seed_buf, fg, own, priv, pub>>

\* q11 is too large.
RejectForm11 ==
    /\ pc = "form" /\ LimitsOK(FormOf(fg))
    /\ work' = Empty
    /\ Goto("draw")
    /\ UNCHANGED <<api, seed_buf, fg, own, priv, pub>>

\* The results lie one after the other, and are copied to where the caller
\* wants them, of which there is none in HAWK's call.
CopyOnce(w) == IF api = "e8" /\ own = Empty THEN w ELSE own
CopyOut(w) == IF api = "e8" THEN [own EXCEPT !.FG = w.FG, !.seed = w.seed] ELSE own

Return ==
    /\ pc = "form" /\ LimitsOK(FormOf(fg))
    /\ work' = [work EXCEPT !.q = FormOf(fg), !.seed = seed_buf]
    /\ own' = CopyOut(work')
    /\ Goto(api)
    /\ UNCHANGED <<api, seed_buf, fg, priv, pub>>

-----------------------------------------------------------------------------
(***************************************************************************)
(* HAWK's keygen.                                                          *)
(***************************************************************************)
\* The public key does not fit: the whole is done again.
EncodeSame == "form"
EncodeAgain == "draw"

EncodeFails ==
    /\ pc = "hawk" /\ EncodePublic(work.q) = NoBits
    /\ Goto(EncodeAgain)
    /\ UNCHANGED <<api, seed_buf, fg, work, own, priv, pub>>

\* encode_public and encode_private.
Encode ==
    /\ pc = "hawk" /\ EncodePublic(work.q) # NoBits
    /\ pub' = EncodePublic(work.q)
    /\ priv' = [seed |-> work.seed, FG |-> work.FG, hpub |-> Hash(pub')]
    /\ Goto("done")
    /\ UNCHANGED <<api, seed_buf, fg, work, own>>

-----------------------------------------------------------------------------
(***************************************************************************)
(* e8_keygen.                                                              *)
(***************************************************************************)
\* Its public form goes over the work area.
MakeForm ==
    /\ pc = "e8"
    /\ work' = [Empty EXCEPT !.q = E8Form(fg, own.FG)]
    /\ Goto("limits")
    /\ UNCHANGED <<api, seed_buf, fg, own, priv, pub>>

\* e8_keygen_limits_ok, with and without q11, and q00_invertible.
E8Seed(q) == SeedOf(q[2])
E8LimitsOK(q) == E8Seed(q) \in E8Within
E8FormOK(q) ==
    E8LimitsOK(q) /\ E8Seed(q) \in E8Within11 /\ E8Seed(q) \in E8Invertible

RejectE8 ==
    /\ pc = "limits" /\ ~E8FormOK(work.q)
    /\ Goto("draw")
    /\ UNCHANGED <<api, seed_buf, fg, work, own, priv, pub>>

Output ==
    /\ pc = "limits" /\ E8FormOK(work.q)
    /\ pub' = work.q
    /\ priv' = [seed |-> own.seed, FG |-> own.FG, hpub |-> Hash(pub')]
    /\ Goto("done")
    /\ UNCHANGED <<api, seed_buf, fg, work, own>>

\* The caller has its keys.
Forget ==
    /\ pc = "done"
    /\ pc' = "idle" /\ api' = "hawk"
    /\ seed_buf' = Junk /\ fg' = Junk /\ work' = Empty
    /\ own' = Empty /\ priv' = NoPriv /\ pub' = Junk

\* What a signer expands the private key to: f and g from the seed again.
Prepared(key) == [fg |-> RegenFG(key.seed), FG |-> key.FG, hpub |-> key.hpub]

-----------------------------------------------------------------------------
\* All steps but those of pc = "check".
KeygenStep ==
    \/ \E s \in Seeds : Draw(s)
    \/ RejectForm \/ RejectForm11 \/ Return
    \/ EncodeFails \/ Encode
    \/ MakeForm \/ RejectE8 \/ Output

-----------------------------------------------------------------------------
(***************************************************************************)
(* Properties.                                                             *)
(***************************************************************************)

\* A key pair is made of one seed, that of the last turn: the f and g that the
\* private key's seed gives are those that F and G solve and that the public
\* key is a form of, the hash is that of the public key that is handed out,
\* and the receiver of that key accepts it, with the very same form.
KeysConsistent ==
    pc = "done" =>
       LET sk == Prepared(priv)
       IN  /\ sk.FG = Solution(sk.fg)
           /\ sk.hpub = Hash(pub)
           /\ api = "hawk" => \A avx2 \in BOOLEAN : DecodePublic(avx2, pub) = FormOf(sk.fg)
           /\ api = "e8" => pub = E8Form(sk.fg, sk.FG) /\ E8LimitsOK(pub)

\* The inductive invariant: what has been made when, of the seed of the turn.
KeygenInv ==
    /\ api \in {"hawk", "e8"}
    /\ own = [FG |-> own.FG, q |-> Junk, seed |-> own.seed]
    /\ pc \in {"check", "form", "hawk", "e8", "limits", "done"} =>
          seed_buf \in Seeds /\ fg = RegenFG(seed_buf)
    /\ pc = "form" => work = [Empty EXCEPT !.FG = Solution(fg)]
    /\ pc = "hawk" =>
          /\ api = "hawk" /\ LimitsOK(FormOf(fg))
          /\ work = [FG |-> Solution(fg), q |-> FormOf(fg), seed |-> seed_buf]
    /\ pc \in {"e8", "limits"} =>
          api = "e8" /\ own.FG = Solution(fg) /\ own.seed = seed_buf
    /\ pc = "limits" => work.q = E8Form(fg, own.FG)
    /\ pc = "done" =>
          /\ priv = [seed |-> seed_buf, FG |-> Solution(fg), hpub |-> Hash(pub)]
          /\ api = "hawk" => /\ LimitsOK(FormOf(fg))
                             /\ pub = EncodePublic(FormOf(fg)) /\ pub # NoBits
          /\ api = "e8" => pub = E8Form(fg, Solution(fg)) /\ seed_buf \in E8Within

\* The seeds of which a caller gets a key, and that one is drawn.
Good(a) == {s \in Seeds :
    /\ LimitsOK(Form[s])
    /\ a = "hawk" => EncodePublic(Form[s]) # NoBits
    /\ a = "e8" => s \in E8Within \cap E8Within11 \cap E8Invertible}

Luck ==
    \A a \in {"hawk", "e8"} :
       []<>(pc = "draw" /\ api = a) => []<>(pc = a /\ api = a /\ seed_buf \in Good(a))

\* Key generation ends, if it goes on drawing until a seed passes every check.
KeygenReturns == Luck => (pc = "draw" ~> pc = "done")
=============================================================================
