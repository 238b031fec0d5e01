# hawk_e8 in TLA+

A verification development kept beside the E8 variant of HAWK: models of its
concurrent and stateful parts and of its algebra, checked with TLC on small
instances, and theorems checked with TLAPS for every value of the constants. Paths below are
relative to the repository, `src/` being its root here.

1. [The system](#the-system)
2. [Modules](#modules)
3. [Runs](#runs)
4. [Proofs](#proofs)
5. [Where code and documentation disagree](#where-code-and-documentation-disagree)
6. [What is not modelled](#what-is-not-modelled)
7. [Plan](#plan)

## The system

The repository is the HAWK signature scheme (`src/src`, upstream code) and a
variant of it, `src/e8`, that samples lattice points with the E8 lattice in
place of Z^n. Signing in the variant is: hash the message, draw a salt, hash
both to a target coset, sample a short point of that coset, and turn it into a
signature if it is short enough; otherwise try again with a new salt. The
sampler works on `k = n/4` independent blocks and can split them over threads
of a worker pool.

```
 application ──► public API (e8_api) ──► signing core (e8_sign)
                                              │  salt, seed ◄── caller's RNG
                                              ▼
                                   sampler (e8_sampler) ──► tables, runtime cache
                                      │        │
                    dispatch, wait    │        │ reads, one stream per worker
                                      ▼        ▼
                             worker pool     random streams ──► SHAKE256 sponge
                             (cmn_pool)      (cmn_rng)          (sha3)
```

### Components

| component | state | operations | what is hard | what makes it correct |
|---|---|---|---|---|
| worker pool, `e8/common/cmn_pool.c` | one global pool: published job, `generation`, `thread_count`, `active_threads`, `remaining`, stop flags; per slot a stop flag and a CPU time | `ensure`, `shrink`, `shutdown` (also from `atexit`), `dispatch`, `wait`, `set_accounting` | spinning threads without locks; a wrapping generation; creation that fails half-way; resizes that use the same generation | jobs run only between dispatch and wait, once per active thread; the wait ends, and means that all finished; no thread leaks |
| random streams, `e8/common/cmn_rng.c` | 128-byte buffer, position, sponge or callback, three counters | start (plain, prefixed, callback), reads of 4, 8 and any number of bytes, bulk reads | a buffer that is no multiple of the reads nor a divisor of the block; counts worked out before the sponge does the work | the output of SHAKE256 in order, every byte once; exact counters |
| SHAKE256, `src/sha3.c` | `dptr`, state | inject, flip, extract | block boundaries | as above |
| sampler, `e8/src/e8_sampler.c`, `e8_sampler_hot.c` | thread count and RNG mode, counters; worker records on the stack of a call | the call; configuration | rounding of the ranges; interleaved writes without locks; failing workers; overflow of the norm | the result of one thread on any number; no worker outlives the call |
| signing core, `e8/src/e8_sign.c`, `e8_sign_legacy.c` | per call: message hash, attempt, salt, challenge, target, prefix | the attempt loop | values of earlier attempts in reused buffers; the exact order of RNG requests; a process-global mode | what is returned verifies; distinct streams in every attempt |
| public API, `e8/src/e8_api.c` | prepared keys, in the application's buffer | key generation, key preparation, signing, verification | key generation retries HAWK's until a key passes limits of its own, over the same work area | seed, F, G, public form and hash are those of one turn |
| runtime tables, `e8_sampler_runtime.c` | a list of tables by sigma, under a mutex | look up or build | several threads that ask for the same sigma; thresholds made of sums that round; failures half-way | one table per sigma, complete when returned, on which every draw finds a value; the mutex is given back |
| block samplers, `e8_sampler_hot.c`, `e8_sampler_ref.c`, `e8/tables` | tables; a reader with four draws in hand; a block's component and coordinates | the range loop, in two RNG modes | draws that go on into the next block; 78-bit numbers in two parts; masses rounded to words | each word gives what the law says, each block is the point its draws say, no draw is used twice |
| algebra, `e8_f2.c`, `e8_ntt.c`, `e8_math.c` | none | cosets mod 2, NTT, the lattice's factor and form, blocks | Montgomery factors, half transforms, one prime where the integers are larger | what is sampled in a coset becomes a signature |
| codecs, `e8_codec.c` | none | encode, decode | 16-bit limits | decode is the inverse of encode |
| verification, `e8_vrfy.c`, `e8_vrfy_ref.c` | two buffers, the first prime's residue | verify | two implementations; a norm in residues, with an early end | both decide as the definition in integers |
| threaded HAWK sampler, `e8/compare/hawk_variants` | worker records on the stack | the call | its caller has no failure path | a failure rejects the attempt |
| benchmarks, `e8/compare` | schedule, pool sizes | run a schedule | pool threads must not start or stop in timed regions | the pool is used as its header asks |
| HAWK signing, `src/src/hawk_sign.c` | one buffer shared by everything in a signature | sign, with encoded or decoded keys, in two modes | `f` and `g` are overwritten and regenerated; an encoder with two loops | a signature is made of one attempt and of the key that was given |
| HAWK key generation, `src/src/hawk_kgen.c`, `ng_hawk.c` | one work area | generate | three nested reasons to start again | as for the public API |
| HAWK verification, `src/src/hawk_vrfy.c` | one buffer of `10 n` bytes, with the inputs decoded in front of it where there is room | decode, verify | polynomials that lie over one another; inputs in three forms; Golomb-Rice decoding | the verdict is the same in every form and size; no second encoding |
| NTRU solver, `ng_ntru.c`, `ng_fxp.c`, `ng_mp31.c`, `ng_zint31.c`, `ng_poly.c` | one work area of `5 n` words for everything; `depth`, `FGlen`, `scale_FG` | solve, make the public form | polynomials of a dozen lengths moved over one another at offsets from tables; `f`, `g` saved at the area's end or made again; fixed-point reduction that may not converge | F and G are made of the `f` and `g` of every level; each reduction ends; `f G - g F = 1` |

### Interactions

* The sampler calls the pool as a caller calls a fork and join. The one thread
  that signs is the *controlling thread* of the pool: it publishes a job with
  plain stores, a fence and an increment of a volatile `generation`, does the
  share of worker 0 itself, and then spins until `remaining` is 0. Pool threads
  see the increment, test `active_threads`, load the job, run it, and decrement
  `remaining` atomically. Pool slot `u` is worker `u + 1`.
* A worker's job writes into its record in `e8_sampler_run`'s stack frame and
  into the caller's `z0`, `z1`. Nothing but the pool's wait keeps these alive.
* The signing core binds a worker's stream to the attempt: the stream starts
  from a SHAKE256 context that has absorbed message hash, key and attempt
  counter, and the same counters, shifted, separate salts from streams.
* The process-global settings of the sampler (`e8_sampler_set_thread_count`,
  `e8_sampler_set_rng_mode`) are read in the middle of a signature.

## Modules

| module | models | builds on |
|---|---|---|
| `ForkJoin` | what the pool promises (`cmn_pool.h`): fork to workers `0 .. size-1`, each takes the task once and finishes it, the join returns when all have | – |
| `CmnPool` | `cmn_pool.c`: the controlling thread and the pool threads, by shared access | refines `ForkJoin` |
| `CmnPoolProofs` | theorems about `CmnPool`: its inductive invariant, the safety properties, that it implements `ForkJoin`, that the use made of it is a case of `SettledSpec` | `CmnPool` |
| `CmnRng` | `cmn_rng.c`, `cmn_rng.h` over the positions of `sha3.c` | – |
| `CmnRngProofs` | theorems about `CmnRng` | `CmnRng` |
| `E8Sampler` | `e8_sampler_run()` and the range loop of `e8_sampler_hot.c` | uses `ForkJoin` as its pool |
| `DataTheorems` | lemmas about sums over sets of integers, ranges cut at `k * u / t`, loops written as recursive functions, numbers and their bits, and the Golomb-Rice code | `BitCode` |
| `E8SamplerProofs` | theorems about `E8Sampler` | `E8Sampler`, `DataTheorems` |
| `E8Sign` | `e8_sign_sampler_core()`, `e8_sign_finish_inner()`, the caller-supplied-salt signers | the sampler seen from outside |
| `E8SignProofs` | theorems about `E8Sign` | `E8Sign` |
| `HawkSplit` | `hawkv_sampler_split()` and its workers; upstream's `sig_gauss()` | uses `ForkJoin` as its pool |
| `HawkSign` | `sign_finish_inner()` of HAWK over its one buffer | `HawkSplit` |
| `HawkSignProofs` | theorems about `HawkSplit` and `HawkSign` | `HawkSign`, `DataTheorems` |
| `TableMap` | what the table cache promises: one table per sigma, never refused once there | – |
| `HotRow` | `e8_rt_build_row()` and the draw `e8h_sample_1d()` | – |
| `RuntimeCache` | `e8_rt_get()`, `e8_rt_build()` under their mutex | `HotRow`; refines `TableMap` |
| `RuntimeCacheProofs` | theorems about `RuntimeCache` and its rows, that it implements `TableMap`, and about `E8BlockSampler` | `RuntimeCache`, `E8BlockSampler`, `DataTheorems` |
| `BitCode` | the Golomb-Rice code of a vector, bit by bit: `encode_gr()`, `decode_gr()`, and the decoders of a build with AVX2 | – |
| `GolombRice` | HAWK's encoders and decoders of keys and signatures | `BitCode` |
| `Keygen` | `Hawk_keygen()` and its callers `keygen()` and `e8_keygen()` | `GolombRice` |
| `HawkWire` | keys and signatures made, sent, received, and made up | `Keygen` |
| `NtruSolver` | `solve_NTRU()` and `make_q001()` over their work area | – |
| `Mp31` | `ng_mp31.c`: residues modulo 31-bit primes, Montgomery products, division, transforms | – |
| `ZInt31` | `ng_zint31.c`: big integers in limbs of 31 bits, CRT, Bezout's relation, subtraction | `Mp31` |
| `FixedPoint` | `ng_fxp.c`: numbers with 32 fractional bits, transforms over complex ones | `ZInt31` |
| `NtruPoly` | `ng_poly.c`: polynomials of residues, of big integers and in fixed point | `FixedPoint` |
| `NtruNumbers` | `solve_NTRU()` and `recover_G()` with their numbers | `NtruPoly` |
| `HawkVerify` | `verify_finish()`, `verify_inner()` of HAWK, cell by cell of their buffer | – |
| `HawkReceive` | key generation with its solver; a receiver that decodes and verifies what comes | `HawkWire`, `NtruSolver`, `HawkVerify` |
| `HawkReceiveProofs` | theorems about `HawkVerify`, `GolombRice`, `Keygen`, `HawkWire` and `NtruSolver` as `HawkReceive` uses them | `HawkReceive`, `DataTheorems` |
| `E8Ring` | the ring, Montgomery arithmetic, transforms (`e8_math.c`, `e8_ntt.c`) | – |
| `E8Lattice` | the factor P and form S, blocks, public form, cosets mod 2, the way from a sample to a signature | `E8Ring` |
| `E8Verify` | key acceptance, signing, a changed or forged signature, both verifiers, with all arithmetic | `E8Lattice` |
| `ModQ` | `modq.h`: residues, transforms, widening in place, portable and AVX2 | `E8Ring` |
| `E8BlockTables` | the geometry of a block; the hot and reference tables of `gen_tables.py`, the tables of `e8_rt_build()` | `E8Lattice`, `HotRow` |
| `E8BlockSampler` | `e8h_sample_range()` and `e8_ref_sample_range()` with their blocks, word by word | `E8BlockTables` |
| `HawkLattice` | an attempt of HAWK's signer in numbers: `basis_m2_mul()`, `sig_gauss()`, the product and `s1` in `sign_finish_inner()` | `ModQ` |
| `MC...` | instances for TLC | the module of their name |

The composition is by contract: `CmnPool` is shown to implement `ForkJoin`, and
`E8Sampler` and `HawkSplit` run on `ForkJoin`. So the samplers are checked with
the interleavings of their workers, without those inside the pool a second
time. `HawkSign` and `HawkSplit` are composed in one state space: the split
sampler writes into the signer's buffer, and its failures are the signer's
rejections. `HawkReceive` puts key generation, the NTRU solver, the codecs and
verification together.

Some definitions are preceded by a variant that differs by a plausible slip (a
dropped guard, an off-by-one, a missing reset). The specifications do not use
them. They are there to show that each property can fail: with the variant in
the definition's place, TLC finds the property violated.

### CmnPool

State. The fields of `cmn_pool_state` keep their names; `job` stands for the
pair `pool.job`, `pool.ctx`. Slots carry `w_stopping` and `cpu_fresh` (a job
CPU time was written since the last wait). The controlling thread has a program
counter `cpc` and the arguments and locals of its call. A pool thread has a
program counter `pc[u]`, the generation it saw, and the locals of
`cmn_pool_run_job`. `ran[u]` is history: how often the thread took a job since
the last wait.

Steps. A pool thread makes a step at each access to shared memory:
`TakeGeneration` (cmn_pool.c:119-129), `TestActive` (130), `LoadJob` (83-94),
`FinishJob` (94-104), `CountDown` (132), `ThreadExit` (125). The controlling
thread makes one at each place another thread could notice: the call with its
tests and its entry into `cmn_pool_grow`, each thread created, a creation that
fails and the clean-up after it, each store of the publication, the bump, the
wait's entry and return, the two halves of `shrink` and of `shutdown`.

`job` and `ctx` are plain fields, and only the fence before the bump orders
their stores; `active_threads` and `remaining` are volatile. So the model lets
the store of the job fall anywhere between call and fence, and keeps the two
volatile stores in order. A thread that calls a `NULL` job ends up in `"fault"`.

The generation wraps at `UintMax`, and so does `remaining` when it is
decremented below 0.

Merged or left out: the first instructions of a thread (it reads the start
generation its creator stored) are part of its creation, since the slot keeps
the value until the thread is joined; joins of several threads are one step,
since nothing else can happen in between that the state tells; CPU affinity,
core-cycle counters and `cmn_pool_stats` decide nothing. The branch of
`cmn_pool_wait` that returns 0 needs `stopping` to be set while the controlling
thread is in the wait: only another thread that calls `exit()` could do that,
and the model has one controlling thread, as the header demands.

Callers. `SettledSpec` is every sequence of calls (including refused ones, a
failing `atexit`, failing thread creation, a shutdown at any moment between
calls) of a caller that waits for a dispatch before it dispatches again or
resizes, and that dispatches when no thread still has an older generation to
take. The last condition is needed: see the first disagreement below. `HarnessSpec`
is what the benchmarks do (`bench_compare.c`, `run_schedule`), and the samplers as
long as their thread count stays as it is: the pool is sized while it is empty, by
`cmn_pool_ensure` or the first dispatch, all of it is used in every dispatch, it may
be emptied and sized anew, any call may be refused, and the process may exit.
`PromptSpec` dispatches to any number of threads as fast as it can.

### CmnRng

A byte of output is its place in the sponge, `<<block, offset>>`, so that a byte
that is lost, repeated or out of order is seen. Every loop of the code takes a
step per turn: `shake_inject`, `shake_extract`, the counting loop of
`cmn_rng_squeeze`, the copying loop of `cmn_rng_read_bytes`. A prefixed stream
starts at any offset of the block. A stream may be started again in the same
object at any moment between reads.

### E8Sampler

`z[c]` says for which cell the sample in cell `c` of `z0`, `z1` was drawn: the
coset is right when `z` is the identity. Workers make a step per block. What a
block is sampled to is a choice of squared norm, or a failure. The norms are
added with the overflow tests of the code, in the worker and in the reduction.
`streamed` and `counted` follow the counters.

### E8Sign

Hashes are injective tuples of what they absorb. A signature is the salt, the
challenge and the sample it was made of, so that a part of another attempt
shows. The RNG may return the same bytes again and again. The sampler returns
0, or a sample of the coset it was given with any of a few norms: below the
bound, above it, and above `INT64_MAX`. The three outcomes of
`compute_s_from_sample` are those of the code: outside the coset or out of the
prime's range (fails the call), a coefficient beyond 16 bits (fails the
attempt), a signature. Buffer-size and parameter checks that depend only on
arguments are abstracted. When a call returns its locals are cleared in the
model, as they are gone in the code.

`trace_attempts` is set when the loop is left by success or exhaustion; with a
caller-supplied salt a call that fails otherwise leaves what the caller's
variable held.

### HawkSplit and HawkSign

The signer's buffer `tmp` is four areas (`g`, the values modulo 2, scratch, `f`)
and the coordinates `x`. What an area holds is a term: the operation that made
it, applied to what it read; when it is written over by something the code has
no use for, `Junk`. So a signature made of values of two attempts, or of an `f`
that had been overwritten, shows in the term. `TimesG`, `TimesF` and `Spent`
follow the widening in place: `w1` over `g` and the values modulo 2, `w2` over
the scratch and `x0`, `w3` over `x1` and `f`. `AfterLimit` and `AfterSize` are
the two places where `f` and `g` are expanded again.

The split sampler (`hawk_variants.c:142-193`) runs worker 0 itself and the
others on the pool. A coordinate is the target it was drawn for and its square.
A range may fail at any coordinate and the pool may refuse a job; the call then
returns a norm above every bound, which the signer takes for a bad sample. The
variant and the thread count are selected between signatures. Without the SHAKE
mode, or without a selection, the signer calls upstream's sampler, one step.

Left out: the stream labels and counters of the workers, and the arithmetic,
of which only the operands matter here: `HawkLattice` has it. `symbreak` and the
limits on the coefficients of `s1` are a choice.

### RuntimeCache and HotRow

A thread makes a step for each thing it does to the list or the heap: the lock,
each entry it looks at, `calloc`, the geometry check of the first build, each
row, the push, the release. The heap has `Cells`, so an allocation may fail,
and so may each row. `platform` is what `exp` and the sums give on this machine:
the weights of each row, and `slip`, by which two sums of the same weights that
are added in different orders may differ. `HotRow` makes the row of them, as the
code does: the values of largest weight in the hot list unless their threshold
is not above the one before, the others in the tail up to its capacity, and the
last threshold set to the largest word. Words have 3 bits in the run.

### BitCode, GolombRice, Keygen, HawkWire

A buffer is the sequence of its bits. The encoders give the bits, or nothing
where they do not fit; the decoders are followed check by check, in particular
the unused bits of last bytes, the padding, the bits of `q00[0]` that are coded
apart and the `int16_t` that it is put together in. `encode_sig` has two loops,
one of which stores 64-bit words and gives up when fewer than eight bytes are
left (`FitsByWords`); builds with and without it must send the same signatures.
The decoders come in two builds as well. With AVX2, `decode_gr_vpart` takes eight
values at a time from a word of 64 bits, which begins with the bits that are left of
the last byte taken, so that as many at its end are shifted out, and the last byte of
which it sets, so that every value ends in it (`Guarded`). If all the bits taken lie in
the first 48 bits after those left over it has its values; otherwise, and near the end of
the buffer, it reads them one by one (`ReadTurn`). It is modelled for the 64-bit
machines; every receiver of `HawkWire` and `HawkReceive` is of either build.
The loops of the codecs are recursive functions of the turn: the powers of two, the
number that bits make up, the state of the writer (bits that wait, bytes left), the
values read so far.

`Keygen` is the loop of `Hawk_keygen` over its work area, with both callers. A
seed gives a public form (`Form`), which may exceed a limit, may be refused by
the encoder, or may fail the tests of the E8 variant. What lies in the work area
is a term of the seed, and `e8_keygen` writes its own form over it.

`HawkWire` lets keys be made, and bytes of any kind be received: every buffer of
the size of a small key, every variable part of a signature.

### NtruSolver

The work area is a set of extents of 32-bit words, none over another, each with a
polynomial as a term and the form it is in: words of integers, residues in NTT,
fixed-point FFT, bytes. A write takes away every extent it touches, and a write
beyond the `5 n` words everything; a read finds a polynomial only where all of it
is, in the form that is expected. One action is what the code does between two
reorganisations of the area: a step of `make_fg_step`, the fetch of saved `f` and
`g` or their making again behind F, the lift of F, each turn of the reduction, and
so on, with the support tables of the transforms and the products of the CRT as
`Junk` where they are written. A step's writes follow one another, so of what was
there and of what it wrote itself only what no later write touches is left (`Puts`).
The lengths are those of the three profiles of
`ng_hawk.c`, and the turns of a reduction are counted: `FGlen` and `scale_FG` go
down together, F is read from word `scale_FG / 31`, and the special subtraction
at depth 1 wants one or two words (`EnoughWords`). `Fail` is every return of an
error. What a reduction computes is the term `F mod f` if each turn subtracted a
multiple of the right `f` by the right quotient. `Solved` says that F and G are
at the start of the area, made of `f` and `g` of each level, with the public form
of all four behind them, where `Hawk_keygen` takes them. `HawkReceive` runs the
solver where `Keygen` waits for F and G, and gives it junk unless `Solved`, so
`KeysConsistent` fails for any overlap that matters, and `KeygenReturns` for a
reduction that does not end. `SolverInv` says for each point of the way what is where:
it is the inductive invariant of the proofs.

### The numbers of the NTRU solver

`NtruNumbers` has the same steps as `NtruSolver`, with numbers and without memory:
down by norms (`MakeZero`, `MakeStep`), Bezout's relation of the resultants
(`SolveDeepest`), and up again (`Lift`, then `Reduce` until the scales meet), with
the top level apart (`SolveTop`); then `RecoverG`. What it computes with is in four
modules, one upon the other: residues, limbs, fixed point, polynomials. Everything
is as in the code, in smaller words: limbs of 9 bits for 31, the four largest primes
of 9 bits, 10 fractional bits for 32, degree 8. A profile says how many limbs a depth
has, how many of them the quotient looks at, by how many bits a turn reduces, and
the limit for F and G.

Beside the computation runs the one in integers, in `exact`. `NtruExact` says that
a key gets past the resultants exactly if they are odd, have no common divisor and
`f` can be divided by, and that the first F is then Bezout's (`FirstExact`); that the
limbs of F have the value of `exact.F` after every lift and every subtraction of
`k f`, in all three ways of subtracting (`LevelsExact`); that at the end `f G - g F = 1`
(`EndExact`); and that a profile that looks at whole numbers and goes on in small
steps solves each key that can be solved (`CarefulSolves`). The keys make each way
out happen: an even resultant, a resultant 17 of both, an `f` that the first prime
divides in a root, reductions of six bits that do not converge or end above the limit.

Three things that were seen on the way, and that no value of the code's own
profiles meets. `zint_bezout` may give `u = 0`, for a resultant of 1; only `v` is
used. `poly_sub_kf_scaled_depth1` takes two primes' product for the range of
F, of one or two limbs, so a profile with three limbs at depth 1 would
need another function. `mp_NTT_autoadj` asks for `logn >= 3`, and with AVX2 needs 5;
its callers have 8 and more.

### HawkVerify and HawkReceive

Memory is a function from cells of 16 bits to what they hold, `<<term, index,
part>>`. Each step reads polynomials from where the code reads them (`Get16`,
`Get32` give `Junk` unless all cells are of one polynomial) and writes them where
the code does; loops that widen `int16_t` in place are run element by element
(`Widen`), as they are right only in this order. `PubFirst` and `SigFirst` decode
an input in front of the buffer when there is room (`verify_finish`). An input
is encoded, decoded by the caller, or decoded here; the checks fail by the
flaws the input has. `HawkReceive` gives it the flaws that the decoders of
`GolombRice` find in its bytes, and at most one more.

### E8Ring, E8Lattice, E8Verify

The algebra is done, in degree 8, in words of 12 bits and with four primes of
11. `E8Ring` has the integers' products and Montgomery's arithmetic, the
transforms, their halves and the tables. `E8Lattice` has P, S and the determinant,
the sampler's blocks with the inverse of P, the public form in integers
(`QForm`) and as `e8_compute_keygen_qform` finds it from one prime, the window
tables of `e8_f2.c`, and the steps from a sample back to a signature.

`E8Verify` is a key, a signature and its verification. A basis is discarded, or
kept and used, or given to a verifier all the same. A signer takes a challenge,
a sample of its coset (a representative plus a step in twice the lattice), and
goes through `compute_s_from_sample`; its errors end in `"broken"`. The
signature arrives as it was sent, or changed, or is made up without the key. One
verifier goes through three primes in two buffers with one inversion for all
coefficients; the reference verifier through four, coefficient by coefficient.

### ModQ and HawkLattice

The numbers of an attempt of HAWK's signer, with `avx2` for the build and `decoded`
for the form of the key. `MakeTarget` multiplies binary polynomials as either build
does: the portable one adds products in place and rotates what is multiplied by
`X^(n/2)`, AVX2 makes the whole product and folds it. `SigGauss` draws the
coordinates from tables of two parts and takes the norm, in AVX2 from tables of
fixed length and in lanes that are emptied between `x0` and `x1`. `Multiply` is
`w3`, by the transforms modulo Q (`MontyRed`, or `MontyRedX16` in halves), with
`f`, `g` and `x0` widened byte by byte where they are; `Halve` is the choice of the
sign and the limit on `s1`. `SignatureExact` compares each of these with the
definition in integers. It has a premise, `Fits`: the product must be within
`Q / 2`. The code does not test that, it has the limit on `s1` after the reduction;
in the run there are products for which the premise is false, and signatures made
of them that are none. Bit patterns are abstracted: lanes, not their order in a
register; loops of 16 elements as loops of two where bytes are widened; the two
ways in which the numbers are drawn (`sig_gauss`, `sig_gauss_alt`) are a choice of
numbers.

### E8BlockTables and E8BlockSampler

A law gives weights to the distances from a centre in quarters, and nothing of the
Gaussian but that it falls is used; the normalisers of the components are made of the
same weights. `RuleMasses` is the rule by which `gen_tables.py` rounds masses to
numbers of words; hot rows, tails, component thresholds, survival tables and slots are
made with it, and the run-time rows with `HotRow`. A centre's class is the centre, a
row class the types of its slots: indices and masked scans are the entries they select.

A behaviour takes a variant (generated tables, run-time tables, reference), a law and a
coset, gets its tables, takes a seed and a mode, and samples the blocks of a range. A
word is an arbitrary function of seed, stream and place. `HotPick` and `HotCoordinate`
read words, one more on a miss of the hot list; `RefPick` and `RefCoordinate` take draws
from a reader that reads five words for four. `BlockExact` says of the tables that every
word and every draw, counted over all of them, gives each outcome its rounded share; of
a block, that it lies in its coset, has the component and coordinates drawn for it, and
their norm; and of the reader, that draw `i` of a stream is used once, by the block and
coordinate whose turn it is, in either mode.

## Runs

| run | question | bounds |
|---|---|---|
| `pool_settled` | safety of the pool under every call; its refinement of `ForkJoin`; the inductive invariant | 3 threads, 2 jobs, unsigned up to 3 |
| `pool_live` | every call returns; refinement of the fair `ForkJoin` | 2 threads, 1 job, unsigned up to 3 |
| `pool_surplus_race` | violated: dispatches of varying size in quick succession | 2 threads |
| `pool_shutdown_wait` | violated: a wait after a shutdown returns 1 | 2 threads |
| `rng` | output in order, exact counters; the inductive invariant | rate 5, buffer 4, words 2 and 4, seed material up to 7 per piece, 14 bytes read |
| `sampler` | result, coset, ranges, no stray worker, termination; the inductive invariant | 4 blocks, up to 3 workers, 2 processors, settings 0, 1, 3, 5, norm limit 8 |
| `sampler_counters` | violated: counters of a failing call | as above, one setting |
| `sign` | signatures verify, the salt is the last attempt's, distinct hashes; the inductive invariant | 2 messages, 2 random strings, 3 attempts |
| `hawk_sign` | HAWK signatures are of one attempt and one key, the split norm is exact, a lucky signer returns; the inductive invariant | 4 coordinates, up to 3 workers, 2 keys, norm bound 2 of at most 4, attempt counter mod 4 |
| `cache` | one complete table per sigma, every draw finds a value, the mutex is given back; refinement of `TableMap`; the invariant | 2 threads, 2 sigmas, 2 heap cells, 2 rows of 4 values, weights up to 2, slip 0 or 1, words of 3 bits |
| `receive` | keys of one seed, no second encoding, what is sent arrives, the verdict is exact, key generation ends | 6 public forms, the solver for HAWK-256, 512 and 1024 at full size, all 65,536 keys of 8 bytes of 2 bits, 12 coefficients per signature, verification in degree 4 with 12 sizes of buffer |
| `e8_algebra` | samples become signatures; both verifiers decide by the definition; HAWK's attempts are those of the definition; tables and blocks are those of the law; the NTRU solver solves | degree 8, 4 primes, 5 bases, 5 challenges, 7 samples, 8 changes, 8 forgeries; of HAWK 5 bases, 13 draws, Q = 97, 2 lanes of 8 bits; of the blocks 2 laws, 12 labels, 6 seeds, words of 6 and 8 bits, both modes; of the solver 10 keys with 4 profiles, limbs of 9 bits |

Why these are enough.

* *Threads.* A pool thread meets another only through `remaining`, and the
  controlling thread treats slots in three groups: those that stay, those that
  are joined or were just created, and the rest. Three slots give one of each.
  The theorems are for any number.
* *Generation.* It wraps after four bumps, and a run makes any number of bumps,
  so the wrap-around happens at every point of every call. Nothing but equality
  of generations is tested, and a thread is at most one bump behind under
  `SettledSpec`; the smallest width is the hardest.
* *Streams.* Rate 5 and buffer 4 have no common divisor, as 136 and 128 have
  only 8: reads and refills meet block ends at every offset. 14 bytes go through
  three refills and three blocks; the longest single read, 11, spans more than
  two blocks.
* *Sampler.* 4 blocks over 3 workers is the uneven split; 5 is a setting above
  the limit, 0 the automatic count. Norms 1 and 3 with limit 8 sum to a value
  below the limit, at it and above it, within a worker and in the reduction.
* *Signing.* Three attempts distinguish first, last and middle; two random
  strings let a retry repeat or not. Calls follow one another without end, so
  values of an earlier call are there when the next starts. Messages and random
  strings are symmetric: they are only compared.

* *HAWK signing.* 4 coordinates over 3 workers is the uneven split; squares 0 and 1
  with bound 2 make norms below, at and above it. Two keys and calls without end
  let a buffer hold what another key left. The attempt counter wraps, as the
  code's does.
* *Cache.* Two threads can ask for the same sigma or different ones, with an entry
  of the other in front of theirs. Two cells: the second allocation after a
  failed build reuses the first's. All 81 rows of four values with a hot list of
  two and a tail of two have values in the hot list, in the tail, of no weight
  and equal ones. Weights of another sigma are fixed.
* *NTRU solver.* Nothing is scaled down: the lengths, degrees and turns are those
  of the three degrees. Each key generation may take any of them, though the
  codecs' vectors in the same run are of two coefficients.
* *Codecs.* A byte of two bits keeps every case of a code that ends within a byte
  or at its end; all keys and all variable parts are enumerated. 12 coefficients
  with a word of four bytes take two groups and leave coefficients for the byte
  loop.
* *Verification in HAWK.* Degree 4 has two halves of two; the sizes of `tmp` are
  those below and at the documented least, and those at which the key, the
  signature, or both can be decoded in front, each from an aligned and an
  unaligned address.
* *E8 algebra.* Degree 8 is the least with blocks of eight that wind around the
  ring twice (`k4 = 2`). The bases include one that a fourth prime cannot divide
  by, one that the second cannot, and one beyond a limit; samples on both sides
  of the bound and beyond the 16 (here: 2) bits; forgeries that pass.
* *HAWK's arithmetic.* Q = 97 with words of 16 bits is as 18433 with words of 32:
  the reduction works for a product, and nearly not for more (`ModulusAssumption`).
  Three rows of thresholds, of which one has a high part, and room for four; draws on
  both sides of each threshold; a lane of 8 bits that holds four of the largest
  squares and not eight. Norms on both sides of the bound, `s1` on both sides of the
  limit, products that fit and ones that do not.
* *Blocks.* The geometry is not scaled: all 256 labels and 16 components make the
  classes of centres, and the labels of the cosets are from all six row classes. Two blocks
  take 18 draws, so a group goes on across them, and the mode with a stream per block
  starts anew. Words of 6 bits (hot) and draws of 8 (reference, 1 of them high) are few
  enough to be counted all, and small enough for masses that round to nothing, tails of
  any length, and thresholds that differ in the low part only.

`e8_algebra` ends where a signature has a verdict, which is why this run alone
does not look for deadlocks.

Bounds that exist only in the models: `MaxBytes` ends the reads of a stream
(starting another is always possible), and the history `ran` counts 0, 1, many.

### Fairness

`pool_live` assumes that the operating system runs every thread that can run,
that a job returns, and that the controlling thread goes on with a call it has
begun (`WF` of its steps, and of each pool thread's). The spin loops of the code
have no other way to make progress, so this is all they can rely on. No call is
ever assumed to be made. Weak fairness suffices, since nothing in the pool takes
turns: once enabled, a thread's next step stays enabled until taken.

`sampler` assumes the same of the call and of the workers, and of the pool that
a worker that can take or finish the task does so: what `pool_live` shows the
pool to grant (`ImplementsFairForkJoin`).

`hawk_sign` assumes the same of the signer and its workers. Its loop of attempts
has no limit, so `SignReturns` holds for signers with `Luck`: samples are not for
ever above the bound once they are made again and again, and an encoding that
is possible again and again is made. A failed range or a refused job is covered
by that premise only as far as it does not happen for ever. `receive` assumes that
a key generation goes on, the solver's steps included (`FairReceiveSpec` states
weak fairness with the enabling condition written out, `Making`), and of the seeds that one that suits the caller is
drawn if seeds are drawn for ever (`Luck` in `Keygen`). `cache` assumes that each
thread runs; nothing is assumed of who gets the mutex, so `MutexReleased` says
only that no holder keeps it.

The other runs assume no fairness.

## Proofs

Everything below holds for every value of the constants that satisfies the
assumptions stated with them; the runs show the same formulas on small
instances.

### The pool

Assumptions: `MaxThreads` above 0, an unsigned that can count the threads
(`UintMax >= MaxThreads`), and a set of jobs that does not contain `NoJob`.

| theorem | of every behaviour of | property |
|---|---|---|
| `TypeCorrect` | `SettledSpec` | `TypeOK` |
| `Invariance` | `SettledSpec` | `IInv` |
| `CallerOwnsContext` | `SettledSpec` | `JobsOnlyInside`: outside a dispatch no thread is in a job |
| `RunsOnce` | `SettledSpec` | `OncePerDispatch` |
| `RunsTheRightJob` | `SettledSpec` | `RightJob`: never `NULL`, never another dispatch's |
| `AccountsExactly` | `SettledSpec` | `AccountExact` |
| `LeaksNoThread` | `SettledSpec` | `NoThreadLeaked` |
| `JoinIsExact` | `SettledSpec` | `WaitMeansDone`: when the wait returns, exactly the active threads have run the job, once each, and have left it |
| `FailsQuietly` | `SettledSpec` | `FailureIsQuiet` |
| `Refines` | `SettledSpec` | `ImplementsForkJoin` |
| `HarnessSettles` | `HarnessSpec` | `SettledSpec`: all of the above holds for the benchmarks, and for a sampler whose thread count does not change |

The argument. The wait looks only at `remaining`, so what has to be shown is that
`remaining` is, at every step, the number of active threads that have not
finished. That is `ForkInv`: during a dispatch every slot below
`active_threads` is *before* the job, *in* it or *after* it, every other slot
stays out, and `remaining = Cardinality(Unfinished)`. It is not inductive alone:

* a thread must not take a job twice, so a thread after the job must have seen
  the current generation, and one before it must not (`Before`, `After`); this
  survives the wrap-around because a bump happens only when every thread has
  the current generation (`Settled`, in `CallInv` for a dispatch under way);
* between dispatches no thread may be on its way in, and what the stores of a
  dispatch have published so far must be known (`RestInv`);
* stop flags, joins and a shutdown in the middle of a dispatch make threads
  leave, and a thread that leaves must not be waited for (`SlotInv`, `ShutInv`);
* the sum of CPU times is exact because the flag a thread read when it took the
  job is the one the dispatch stored (`timed` in `Inside`).

`IInv` is the conjunction; it holds initially, each action preserves each
conjunct (one lemma per action or group of actions), and it implies the
properties. The lemmas about `Cardinality` say what taking a thread out of
`Unfinished` does to the count.

The refinement maps the bump to `Fork`, a thread that loads the job to `Take`,
its `CountDown` to `Finish`, the return of the wait to `Join`, and a shutdown in
the middle of a dispatch to `Abandon`; every other step stutters. `IInv` gives
the guards of the abstract steps. `HarnessSettles` needs an invariant of its own:
between two dispatches of a caller that uses all of its threads, each has taken
the generation of the last one, as the wait it returned from has counted it.

### Streams

Assumptions: rate and buffer of at least one byte, lengths in `Nat`.

| theorem | property |
|---|---|
| `RngInvariance` | `RngInv` |
| `RngTypes` | `TypeOK` |
| `OutputInOrder` | `StreamInOrder` |
| `CountsExactly` | `CountersExact` |

The argument. `SpongeInv` ties the sponge to the bytes squeezed so far: they are
`(blocks - first) * Rate + dptr`, so the next byte the sponge gives is the next
of the output (`PlaceFacts` takes the block and the offset back out of the sum).
It also says how far the count of permutations is ahead of the sponge inside a
piece of seed material and inside a squeeze, and the lemmas about `BlocksFor` and
`ToProcess` show that each turn of a loop takes the same from both sides.
`BytesInv` says which bytes of the output are delivered, buffered and just
extracted, and `RequestInv` what is left of the read. A read past the buffer is in
order because the buffer is empty then (`Buffered = 0`).

### The sampler

Assumptions: at least one block and one processor, a limit of at least two
threads, settings in `Nat`, norms up to `NormMax`.

| theorem | property |
|---|---|
| `SampleInvariance` | `SampleInv` |
| `SampleTypes` | `TypeOK`: no sum passes `NormMax`, no cursor the last block |
| `SampledForTarget` | `CosetMatches`: every coefficient of a call that returns 1 was sampled for its own target bit |
| `WorkersInsideCall` | `NoStrayWorker` |
| `BlocksDrawnOnce` | `RangesDisjoint` |
| `ResultsExact` | `ResultExact`: the call that reduces its workers returns 1 exactly if every block was sampled and the sum of the norms fits, and then that sum |

The argument. The starts `k * u / t` of the ranges, rounded down, grow with `u`,
begin at 0 and end at `k` (`StartFacts`); so no block has two owners
(`OwnerUnique`) and each has one (`OwnerExists`, whose witness is
`(t * (r + 1) - 1) / k`). Each worker has written the blocks of its range behind
its cursor, and its `ok` says that its cursor is at the end (`RangeInv`). The
reduction goes on only past workers that are `ok` (`ReduceInv`), so at its end
every block is written, and every cell belongs to a block (`BlockOfCell`). A
worker runs only while the pool has the job, because the pool's join is enabled
only when all that took it have finished (`PoolInv`, `WorkerInv`).

`ResultsExact` adds the norms: a worker's sum is that of the blocks behind its cursor,
and the reduction's that of the ranges it has passed. *Sums* below says how the
fold that adds them up is reasoned about.

### Signing

Assumptions: attempt counters that do not wrap (`2 * MaxAttempts <= CounterMod`),
and a bound in the range of the norms.

| theorem | property |
|---|---|
| `SignInvariance` | `SignInv` |
| `SignTypes` | `TypeOK` |
| `SignaturesVerify` | `SignatureVerifies` |
| `SaltIsLast` | `SaltOfLastAttempt` |
| `RequestsAsMade` | `TwoRequestsPerAttempt` |
| `StreamsDistinct` | `HashesDistinct` |

The argument. `LocalsInv` says, for each point of an attempt, which message, key
and counter the locals that are live there were computed from; what was left by
an earlier attempt is not live. `RequestsInv` and `AbsorbedInv` give the `i`-th
request and the counter of the `i`-th hash, by the parity of `i`; counters that
are given by the position differ when the positions do.

### HAWK's signing and split sampler

Assumptions: a positive degree, at least two threads allowed and no more selected, and
coordinates so small that the squares of a whole vector add up to less than
`NormTop` (eight bits in the code); a bound for signatures below `NormTop`.

| theorem | property |
|---|---|
| `HawkInvariance` | `HawkInv` |
| `SignaturesVerify` | `SignatureVerifies`: a signature is made of the challenge of its own salt, its own key, and one vector sampled, whole, for that challenge, within the bound |
| `SplitNormExact` | `SplitExact`: a norm the split sampler returns is that of the vector it leaves |

The argument. `SplitInv` is the invariant of the sampler: a worker has sampled what is
behind its cursor for the target of this call, its sum is the sum of these squares,
its range ends where the next begins (`StartFacts`, `OwnerExists`, `OwnerUnique`), and
only workers that took the job and did not finish it run. A failure makes the norm
`NormTop`, and no vector has that norm, so the signer's test of the bound tells them
apart. `BufferInv` says what each area of the signer's buffer holds at each point of an
attempt, in either mode: where `f` and `g` are expanded again, where they are still
those of the key, and that nothing that is still to be read has been written over by a
widening.

### The table cache and its rows

Assumptions: the names for no thread, no sigma and no cell are none; at least one row
in a table; a place in the hot list and in the tail; a word has a positive maximum.
Of `exp()` and the sums only that weights are not negative; the sums may differ by
any `slip`.

| theorem | property |
|---|---|
| `CacheInvariance` | `CacheInv` |
| `GivenComplete` | a table that a thread was given has all its rows, of its own sigma |
| `GivenStays` | a table that a thread was given is never written to or freed |
| `CacheImplements` | `ImplementsTableMap` |
| `GivenTablesSample` | `GivenTableSamples`: every draw from such a table finds a value, no value has two entries, and where the sums are exact a value has the share of its weight |

The argument. `ThreadInv` says who holds the mutex and what a thread that has it may
have found or built; a cell under construction is its thread's alone and not in the
list (`RowsInv`), and the list has no two entries of one sigma (`ListInv`), because
the search went through the list under the same mutex as the push. The refinement maps
the unlocking of a call to its answer; a table is then in the list, and stays there.

For `GivenTablesSample`, the sort by rank is a bijection (`OrderFacts`). A turn of
the loop that makes the hot list keeps `TinyOK` (`TinyTurn`), one of the tail `TailOK`
(`TailTurn`): values are distinct, thresholds rise, and the threshold of a prefix is its
share, rounded down. Either the tail has the rest of the mass, and its last threshold
is the largest word (`ForcedFacts`), or there is none and the hot list has it all
(`MassSomewhere`); where the sums are exact, forcing the last threshold changes
nothing.

### The block samplers

Assumptions: a degree that is a multiple of four (`BlockAssumption`); laws of weights
in `Nat`, with a weight near every centre that a block can have, and a positive number of
draws (`LawsAssumption`, `RefAssumption`); cosets of bits, and sources of
words that give numbers, whatever they are (`SamplerAssumption`).

| theorem | what it says |
|---|---|
| `RangeInvariance` | the inductive invariant `RangeInv` |
| `BlocksExact` | no variant fails, and `RangeExact`: a block is in its coset, of the component and coordinates that were drawn for it, with its norm; draws are used once and in order; the vector is that of its blocks, with the sum of their norms. This is `BlockExact` without `LawExact` |

The geometry comes first, as identities in eight integers: a step along `DeltaZ` is a
step along `ProductBasis` under P (`SameChange`), the inverse of P undoes P
(`SolvedImage`), the basis is orthogonal (`Coordinates`, `NormExact`), a centre is a
number of quarters (`CentersAreQuarters`), and the parity checks tell the 16
representatives apart whatever the coordinates are (`ComponentKept`); together
`BlockMade`. That none fails is about the tables. An order of a finite set lists each
element once (`SortedFacts`); masses rounded by `RuleMasses` add up to the number of
words, since each side of the mode gets its share, rounded down (`SideSum`, `RuleFacts`);
so the last threshold of a list is the largest word (`ThresholdsFacts`), and either the
hot list or the tail has a value for a word (`GeneratedSamples`, `RuntimeSamples`; the
latter by the lemmas about `HotRow`). `RangeInv` ties the steps together: a block under
construction has the norm of its offset with the shares of the coordinates it has; a
reader that gave a number of draws has read that many rounded up to groups, and holds the
last group while it has draws left (`Reader`, `DrawnFacts`).

### HAWK's verification

Assumptions: an even degree; salts, public hashes and the rounding of addresses of a
positive length, with a salt of at most `4 N` cells (it has 7 to 20, and N is
256 or more); addresses in `Nat`; the solver is asked for `log n` of 8 to 10.

| theorem | of every behaviour of | property |
|---|---|---|
| `ReceiveInvariance` | `ReceiveSpec` | `ReceiveInv` |
| `VerdictsExact` | `ReceiveSpec` | `VerdictExact`: what has no flaw is accepted, what has one is not, the norms compared are those of the key, signature and hash, and the caller's memory is left as it was |

The argument. `VerifyInv` is what each step of `verify_finish` and `verify_inner` may
count on: the polynomials that are live and where they lie (`BufferInv`), that a flaw
has either been seen or is still to be looked for (`FlawInv`), the terms that each prime's
products are made of (`TermInv`), and the norms (`NormInv`). `Frame(m, k, lo, hi)` says
that a step changes memory only between two cells, and `Kept16`, `Kept32` that a
polynomial outside these is still there; `Layout` has the offsets. Addresses below the
buffer are the caller's, so that its memory is left alone is a frame like the others.
A loop that widens `int16_t` in place (`WidenFacts`) goes downwards, and after turn `j`
the words from `j` on are the polynomial's and the cells below `2 j` untouched
(`WidenTurn`).

### The codecs and key generation

Assumptions: vectors have whole bytes of signs, the head `q00[0]` has at least
one bit that is not coded in unary (`CodeAssumption`); a word holds what is left of a byte and a group of the longest
values (`WordAssumption`, the sum in the comment of `encode_sig`: 7 + 3 * 16 bits);
a word has at least two bytes, and as many bits as the longest value may have zeros
(`LookAssumption`: 64 and 16); what is verified has its size (`PairAssumption`);
a form has as many coefficients as the code expects, and limits that the code can
say (`FormAssumption`, `LimitsAssumption`); what is sent and received has its size, and
the limit on `s1` is what its code can say (`WireAssumption`).

| theorem | of every behaviour of | property |
|---|---|---|
| `WireInvariance` | `ReceiveSpec` | `WireInv` |
| `CodesCanonical` | `ReceiveSpec` | `Canonical`: what a decoder accepts is the encoding of what it makes of it, but for a head that wraps in its `int16_t`; that it is another encoding then, too; and that both kinds of decoder accept the same and make the same of it |
| `SignaturesArrive` | `ReceiveSpec` | `SentArrives`: a signature that fits is sent, by either loop, and decoded, by either decoder, to what was signed; one that does not is refused |
| `SolverInvariance` | `ReceiveSpec` | `SolverInv`: what each step of the solver reads is in the work area, where it reads it, in the form it expects |
| `SolverSolves` | `ReceiveSpec` | what the solver ends with is `Solved` |
| `KeygenInvariance` | `ReceiveSpec` | `KeygenInv` |
| `KeysOfOneSeed` | `ReceiveSpec` | `KeysConsistent`: seed, F, G, public form and hash of a key pair are those of one turn, and a HAWK key is decoded to its form by either decoder |

The argument. A bit string is the code of a vector (`Coded`) if its first bits are the
signs, the next the low bits, and there is a sequence of ends, one for each value, such
that the bits that are set in the last part are just those. The encoder's result is such a
string (`EncodeCoded`), and two codes of one vector are equal (`CodedSame`).
`NumberBits` and `NumberOf` make number and bits inverses of each other. The decoder
follows the ends one by one (`ReadOne`, `ReadLoop`): from the code of a vector it reads
that vector, with anything behind it (`Decodes`), and what it has read of any bits is
coded in them (`DecodedCoded`). Each of the parts of a buffer (salt, code, padding; code,
head, padding) is cut and put together again by `PartsOfCat` and `CatOfParts`. The
head is the one place where the two directions differ: a coefficient that the encoder
may write lies within the `int16_t` (`SmallHead`, from the limit of the code), one
that the decoder reads need not, and then the code of what it wrapped to is another
one.

That the decoders with AVX2 do the same (`WideDecodesAlike`, about the code itself, in
`DataTheorems`) rests on three facts. Each of the values of a word ends in it: after `u`
of them the next bit is at most the `u`th guard bit (`GuardedRead`). If what was taken
lies before the guard bits, then the bits read are those of the buffer, so that they are
the values that the loop without AVX2 reads, unless one is too large, and then that loop
refuses as well (`FastIsMany`); a word without any bit set is refused by both. And a
decoder that has enough bytes for all the values has those that this one asks for at
the start (`UnaryRoom`). From there `FlawsAlike` goes up to keys, signatures and the
verdict.

The two loops of `encode_sig` are followed by one notion, `Exact(st, left, last)`: the
bytes of room and the bits that wait say that `left` bits of the room are left; as long
as `ok`, nothing was written past it; and if `last`, what will be left at the end, is
not negative, then `ok`. A value keeps it (`WriteValueExact`). The loop over groups gives
up when fewer than eight bytes are left, and that keeps it because 64 values are still
to come, each of at least one bit, so that in such a case the rest would not fit either
(`GroupFacts`, `WriteGroupExact`). With the loop's end at the last group the run finds a
signature that one build sends and the other refuses. At the end `left = last`, and
either loop has succeeded exactly if the bits fit.

`KeygenInv` says of each point of a turn which areas were filled from this turn's seed.
The solver enters with its result: `Solution(fg)` stands for F and G that solve the
equation for `fg`, and `HawkReceive` hands them over only if the solver's areas hold
what solves it (`Solved`). That they do is proved from `SolverInv`, for the three
degrees of the code and however often a reduction turns:

* Going down, the pair `f`, `g` of level `d` is at the base of that level, and the
  pairs of the levels that the profile saves are at the end of the area, one below
  the other (`SavedAt`, `SavedTo`). A level writes up to where the next one starts,
  and the saved ones are beyond that; this is where the tables of lengths enter.
* Going up, F of the level below is at the start of the area (`DeeperF`) while `f` and
  `g` are fetched, or made again behind it where they were not saved. The three phases of
  a level (`AtMove`, `AtLift`, `AtScale`) say how far F has come.
* In the reduction `FGlen` and `scale_FG` are tied together: F is never read beyond the
  words it has, is never shorter than `f`, and has the length of `f` when the scales
  meet (`AtReduce`). At depth 1 the scale goes down in equal steps until it is cut
  off at the end, so the special subtraction has the words it wants; that is the one
  place where the number of turns matters.
* At the top there are five areas of `n` words, and F, the quotient, G and the form
  pass through them (`AtQuotient` to `AtForm`).

It needs `Tidy`, that no two extents overlap, since a read finds what is there only
if one extent can be there. Each action's writes are a list, and what an extent has
to be disjoint from is read off this list (`Outlasts`); that two places are disjoint is
then arithmetic over the tables of one profile.

### Sums and loops

What a recursive definition computes needs induction over data, and the induction
theorems of the library take an operator as a parameter, which the provers do not
instantiate. Two ways around this are used.

* A sum over a set (`SumFunctionOnSet`, a fold whose definition does not expand for the
  provers) is shown to be the number of unit squares under the graph (`SumIsUnits`): the
  unit squares of a set without its least element are those of the rest. From then
  on sums are cardinalities, and the library's theorems about these give what a sum
  of a union, of a longer range, or of another function is.
* A loop that is a recursive function is followed turn by turn. What holds before the
  first turn and is kept by a turn holds after the last: the least turn after which it
  does not (`LeastNatural`) would not be the first, and then the turn before it kept
  it. `LoopExists` gives the function, by the theorem about recursive functions, and
  `LoopStates` the states it goes through. The loops of the codecs are followed in
  this way.

### Only model-checked

* Liveness (`CallsReturn`, `ImplementsFairForkJoin`, `CallReturns`, `SignReturns`,
  `MutexReleased`, `KeygenReturns`): it rests on fairness and `ENABLED`, which the
  provers do not handle.
* What the algebra computes, with products of variables modulo variables and transforms
  that are recursive operators: `SamplesSign`, `SignatureExact`, `NtruExact`,
  and the `VerdictExact` of `E8Verify`.
* `LawExact`, the part of `BlockExact` that counts the words which the tables give to
  each outcome; the lemmas above have the sums of the rounded masses, but not the
  number of words between two thresholds for each variant.

## Where code and documentation disagree

* **A surplus thread can run a job twice** (`pool_surplus_race`). A thread that
  wakes for a dispatch in which it is surplus, and is delayed before it tests
  `active_threads` (cmn_pool.c:130), can find the larger count of the next
  dispatch, whose bump is still to come. It runs the job, counts down, sees the
  bump, and runs it again. `remaining` then reaches 0 with a worker still in the
  job. `cmn_pool.h:31-33` says that such a dispatch "leaves the surplus threads
  idle (spinning)". A caller that uses all threads of the pool in every dispatch
  is not affected: `HarnessSettles` proves it for the benchmarks, and signatures
  with a fixed thread count are of that kind. The delay would have to last from
  one dispatch, through its wait, into the next.
* **A wait after a shutdown returns 1** (`pool_shutdown_wait`): the shutdown has
  cleared `stopping`. `cmn_pool.h:95-96` promises 0.
* **Counters of a failing call are lost** (`sampler_counters`): the reduction
  returns at the first bad worker, before it adds the counters of the later
  ones. `hawk_e8_inner.h:813-817` promises every call's bytes.

Not counted as disagreements:

* `cmn_pool.h` says `cmn_pool_ensure` fails while "a dispatch is outstanding", and the
  code (cmn_pool.c:343) refuses only while `remaining` is not 0. Whether a dispatch
  whose threads have all finished, and which was not waited for, is outstanding is a
  matter of reading.
* The seed of a signature has 40 bytes; `hawk_e8.h:183-185` says 32. The 32 are those
  of the streams that are not bound to an attempt, which the public API never uses.
* The reference verifier divides by the determinant modulo a fourth prime, which key
  generation does not try. A key that this prime divides is refused by it alone.
  Such a key is one in about 2^21 at most, and `VerdictExact` says what happens to it.
* On 32-bit machines with AVX2, `decode_gr_vpart` sets no guard bits, and reports an error
  where none of the next 32 bits of its word is set (hawk_vrfy.c:2045): eight values that
  do not all end in the word, which the other builds then read one by one, are refused.
  They would need 64 bits or more together. This form is not modelled.
* `decode_q00` puts `q00[0]` together in an `int16_t`. The code has one bit more, so a
  constant term beyond the type's range is accepted and wraps: a key with a negative
  constant term, which verification refuses, has two encodings. `Canonical` states it.

* The comments at `make_fg_zero`, `make_fg_step` and `make_fg_intermediate` give
  `3 n` words as the most they use; the step from depth 0 uses `4 n`. The header has
  `6 n` for the whole solver, and its caller gives `5 n`. It uses no more than these:
  the writes of `NtruSolver` all stay inside.

## What is not modelled

| part | why |
|---|---|
| of the numbers of the NTRU solver: the loop of `poly_sub_scaled` for `logn >= 4`, `q` other than 1, the AVX2 forms for `logn < 3`, `poly_is_invertible`, `poly_sqnorm` | the loop is the one for smaller degrees, unrolled; the others are for callers that are not here. Whether a reduction converges at full size is a matter of numerical analysis: `NtruSolver` takes it as a choice, `E8Verify` takes bases with `f G - g F = 1` |
| the numbers of `hawk_vrfy.c`: its fixed-point FFT and its NTT | its polynomials are terms in `HawkVerify`; the same algorithms, elsewhere, are in `FixedPoint` and `Mp31` |
| `Hawk_recover_G`, `Hawk_recover_qq` | wrappers that nothing here calls; `recover_G` itself is in `NtruNumbers` |
| probabilities, and what the samplers' numbers are outside `E8BlockSampler` | a choice of coset, norm or failure in the models of calls; the tables and the words they are drawn with are in `HotRow` and `E8BlockSampler`, which count words |
| floating point in `e8_sampler_runtime.c` | weights and the rounding of their sums are a choice |
| SHAKE256's permutation, four-way SHAKE | straight-line data transformations; the sponge's positions are in `CmnRng` |
| division, `mq_set` and `mq_unorm` modulo 12289 | used by the checks of the key generation, which are a choice |
| most AVX2 forms of loops | the same values in another order; those that compute or decide in another way are in `GolombRice`, `ModQ` and `HawkLattice` |
| the registry of variants | a constant table |
| constant time of the reference sampler | a property of machine code; the models have what the masked scans select |
| the byte copies of `e8_codec.c` | no condition beside the range of 16 bits, which `E8Verify` has |
| schedules, timing, CSV, statistics, scripts, validation tools | input and output, no state of the library |
| the numbers in the generated tables | data; about a third of the lines of the repository. The rules that make the E8 tables are in `E8BlockTables`, at small widths; the HAWK tables are not |
| KAT generators, `extra/`, `intermediate/` | packaging around the upstream API |

Most lines of the repository are of the kinds in this table, so the definitions stand
for about a fifth of its lines: those that keep state, decide something, or compute
what a property is about.

## Plan

Done: the pool, the streams, the E8 sampler and signing core, HAWK's signing and its
threaded sampler, the table cache and its rows, HAWK's verification, its codecs and
its key generation, all with theorems; the block samplers and their tables, with theorems
about the blocks; the NTRU solver and its numbers; the algebra of the variant with both of
its verifiers, and that of HAWK's signer.

Remaining, in this order:

1. the benchmark schedule, composed with the pool's statistics;
2. a sampler whose thread count changes between dispatches: `SettledSpec` excludes the
   dispatches that the first disagreement above is about.
