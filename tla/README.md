# A verification project for pqov

pqov implements the oil-and-vinegar signature scheme (OV, the NIST candidate UOV) in C: key
generation, signing and verifying in three variants (classic, `pkc` with a compressed public key,
`pkc+skc` with a compressed secret key as well), over GF(16) and GF(256), for five CPU back ends.
This directory holds TLA+ modules that model its parts, TLC configurations that check them on small
instances, and theorems about them that TLAPS proves for every value of the constants.

Paths below are relative to the repository root; `src/ov.c` is the file of that name in its `src`
directory. `PROJECT.json` maps each TLA+ definition to the lines it models and lists every hazard
with the properties aimed at it.

## 1. Inventory

The library is sequential: one call runs at a time on memory its caller owns, nothing is shared
between threads and nothing is stored across calls except keys and signatures. What makes it hard
is elsewhere: constant-time code that does the same work whether it helps or not, buffers reused in
place, two pieces of code that must walk one layout without telling each other where they are,
rejection loops, and lengths and counters at their limits.

| component | source | state | operations | talks to |
|---|---|---|---|---|
| signature API | `src/sign.c` | the caller's buffers, lengths | `crypto_sign`, `crypto_sign_open`, `_signature`, `_verify`, `_keypair` | signing, verifying, key generation |
| signing and verifying | `src/ov.c` | hash contexts, salt, attempt counter, vinegar vector, linear system, expanded keys on the heap | `ov_sign`, `ov_verify`, `ov_expand_and_sign`, `ov_expand_and_verify` | hash, linear algebra, public map, allocator |
| key generation and expansion | `src/ov_keypair.c`, `src/ov_keypair_computation.c` | `sk->O`, `sk->S`, P1, P2, P3, some of them one buffer | `generate_keypair*`, `expand_sk*`, `expand_pk*`, `calculate_F2_P3`, `calculate_F2` | PRNG, batched matrices |
| batched matrix operations | `src/parallel_matrix_op.c` | packed triangular and rectangular matrices of batches | `batch_trimat_madd`, `batch_trimatTr_madd`, `batch_2trimat_madd`, `batch_upper_matTr_x_mat`, `batch_quad_trimat_eval` | vector arithmetic |
| public map | `src/ov_publicmap.c` | 16 or 2x16 buckets, the pointer into the key | `ov_publicmap` | vector arithmetic |
| linear solver | `src/ref/blas_matrix_ref.c`, the second halves of the files of the other back ends | padded rows, pivot flag, column buffer; in registers the copied pivot column | `gaussian_elim`, `back_substitute` | field |
| matrix dispatch | `src/blas_matrix.c`, `src/parallel_matrix_op.c` | the build | the names bound to a back end, the calls made to them | products |
| matrix products | `src/ssse3`, `src/avx2`, `src/gfni`, `src/neon`: `blas_matrix_*.c` | result, place in matrix and table | 17 product functions, with and without tables; transposition in registers | – |
| vector operations | `blas_u32.h`, `blas_u64.h`, `blas_sse.h`, `blas_avx2.h`, `blas_avx2_gfni.h`, `blas_neon.h` | pointers and length | add, scale, multiply-add, tables of multiples | – |
| field arithmetic | `src/gf16.h`, `src/amd64/gf16_u64.h` | none; words of packed elements | multiply, square, invert, reduce | – |
| public-input PRNG | `utils/utils_prng.c` | `used`, `ctr`, `buf`, `key` | set, gen, skip | AES |
| hash | `utils/utils_hash.c`, `utils/fips202.c` | Keccak state and `pos`; with OpenSSL a heap context | init, update, copy, final | Keccak permutation |
| SIMD field tables | `gf16_avx2.h`, `gf16_tabs.c` and the like | constants | products of elements in a register | – |
| AES-128 | `utils/aes128_4r_ffs.c` and three others | round keys | key schedule, CTR | – |
| NIST KAT driver and DRBG | `nist-submission-project/PQCgenKAT_sign.c`, `utils/nistkat/rng.c` | DRBG key and V, files | `randombytes`, two passes over vectors | API |
| adapters | `utils/utils_randombytes.c`, `utils/utils_malloc.h` | – | – | platform |

What makes each component correct, and what is hard about it:

* **PRNG.** A caller sees one keystream whatever lengths it asks for and skips. Hard: a partly used
  buffer, a direct path for whole blocks, and a skip that moves the counter, all have to agree.
* **Signing.** A success is a signature of this message by one attempt's vinegar, oil part and digest; a
  failure means all attempts were used; all paths free what they allocated; no freed hash context is
  read. Hard: the copies of contexts and the loop's exits.
* **Verifying with a compressed key.** What the public map reads has been written, and is what the
  seed stands for. Hard: one build expands only the rows a signature needs, into uninitialised
  memory, and the evaluation skips rows by its own test.
* **Vector operations.** Each byte is operated on once, whatever the length. Hard: a first register
  that reaches over the rest, six ways of treating it.
* **Matrix products.** Each byte of the result is the sum over all columns, each once, and no access
  leaves matrix or result. Hard: loads are whole registers and reach into the next column; rests;
  functions of their own for some widths; demands on lengths that nothing checks.
* **Matrix dispatch.** Every caller meets those demands and passes the operands that belong together.
  Hard: two elements in a byte, so that odd rows need a shifted copy; strides of tables known by
  convention only.
* **KAT driver.** A vector's answer depends on its seed and message alone. Hard: one global generator.
* **Linear solver.** A success solves the caller's system; a failure means a singular matrix. Hard:
  no pivot search, row operations rounded down to a unit, additions rounded up beyond the vector.
* **Key algebra.** The public map vanishes on the oil space; the secret key is the same explicit
  and recomputed; a solved system is a preimage. Hard: in-place work in a fixed order on shared
  memory, two forms of `sk->S`, packed triangles.
* **API.** Signing and opening work in place; what is rejected is cleared; every call returns. Hard:
  overlapping buffers and lengths at the limit.
* **Hash.** The digest does not depend on how the message was cut up, nor on a copy going on. Hard:
  block boundaries and the change from whole blocks to a rest while squeezing.
* **Field arithmetic.** Elements packed in a word do not disturb each other; the inverse is one, and
  0 for 0. Hard: carries, and a division-step loop with a fixed number of steps.

## 2. Modules

Arrows: `A <- B` means that B extends or instantiates A.

    KeyStream        <- Prng                        SignatureService <- OvSign <- OvSignProofs
    Prng, Kat        <- MCGenerators <- GeneratorsProofs
    KeyStream        <- ExpandVerify <- ExpandVerifyProofs
    ParallelMatrix   <- OvKeys <- MCOvKeys, OvKeysProofs
    SignApi          <- SignApiProofs
    GaussElim <- SimdElim <- MCGaussElim            Sponge <- MCSponge, SpongeProofs
    SimdElim         <- GaussElimProofs
    ProductContract  <- BlockProduct, ProductCalls
    VectorOps, BlockProduct, ProductCalls, Transpose <- MCKernels <- KernelsProofs
    Field            <- FieldInverse

Levels fit together by contract instead of one large composition, whose state space TLC could not
enumerate. `SignApi` takes a signature as something that is good for one message, which is what
`SignatureService` promises; `OvSign` implements `SignatureService` and takes solving a system as
"solvable or not", which is what `GaussElim` shows of success and failure; `OvKeys` shows that a
solved system is a preimage under the public key; `ExpandVerify` takes the PRNG as a position in a
keystream, which is what `Prng` implements; `ParallelMatrix` takes a product as the sum over the
columns, which is what `BlockProduct` shows of every back end under `ProductContract`, and
`ProductCalls` that the library keeps to that contract; `OvSign` takes a hash as its input, which is what
`Sponge` shows.

### KeyStream, Prng (`utils/utils_prng.c`)
`KeyStream` is the abstract specification: a seed selects a keystream and the context is a position
in it. It is an assumption of `ExpandVerify` and the target of a refinement of `Prng`. `Prng` has
the fields of `prng_publicinputs_t`; `SetPublicInputs`, `Gen`, `SkipInBuffer` and `SkipBlocks` are
the three functions, skip split at its early return. A keystream byte is the record of seed, block
and index, which is all that four AES implementations promise. The mapping computes the position
from `ctr` and `used`.

### SignatureService, OvSign (`src/ov.c`)
`SignatureService` is what a caller with one signature buffer may rely on. `OvSign` has the locals
of `ov_sign_core` and `_ov_verify`, the OpenSSL adapter's heap of hash contexts, and the expanded
keys of `ov_expand_and_*`. One action per call that changes state, from `CallSign` to `FreeSk` and
`CallVerify` to `FreePk`. A digest is the sequence of what was absorbed; a linear system is the pair
of the vinegar and the digest it was built from; which vinegar counters give a regular system is
chosen when the call starts. `PublicMap` of a signature is the digest its oil part was solved for
when the vinegar part is that of the same system, and is something else otherwise.

### ExpandVerify (`src/ov_keypair.c`, `src/ov_publicmap.c`)
The memory of the expanded public key, byte by byte. `ExpandPk` writes it whole; `ExpandP1Row`,
`ExpandP2Row` and `CopyP3` are `expand_pk_predicate` row by row; `EvalP1Row` to `EvalP3Row` are
`accu_eval_quad_*`. A row's vectors are read in one action, the additions' over-read included. The
signature is reduced to which of its entries are zero, as that decides all skipping.

### GaussElim (`src/ref/blas_matrix_ref.c`)
`gaussian_elim_ref` and `back_substitute_ref` with the padded layout, `CondAdd` one step of the
inner loop that repairs a zero pivot, `Reduce` the flag, the normalisation and the elimination below,
`Store`, `BackLoad`, `Substitute`, `BackStore` the rest. The early stop and the transposition, which
`config.h` selects at build time, are variables fixed in `Init`. The field is a parameter.

### SimdElim (the eliminations in `src/neon`, `src/avx2`, `src/gfni`)
Extends `GaussElim` by a variable for the back end. The register code copies a pivot's column to
`pivots[]` (`CopyColumn`), before the repair (NEON, and GF(16) 64 by 64 on AVX2, which then repair
the copy as well) or after it (AVX2 and GFNI over GF(256)); `SimdReduce` works from the copy. In the
64 by 64 function a row fills its registers, so the constants live apart until column 0 is done and
then take its place. Memory that the code does not clear holds `junk`. Each C function is one action;
`RowEchelon`, `Elim` and `Back` say which steps are its own.

### VectorOps (`blas_*.h` of all back ends)
One action per function and turn of its loop. `WordsThenBytes`, `WordsThenRest`, `OverlapThenWords`,
`RestThenWords`, `RestThenThrees` are the ways a length is cut up. A byte of the result is the
sequence of operands applied to it, an entry of a table the element it is made for.

### ProductContract, BlockProduct, ProductCalls, Transpose (`blas_matrix_*.c`, `parallel_matrix_op.c`)
`BlockProduct` has the nested loops over tables, tiles of columns and blocks of registers. A register is
the record of where it loads, how much, how much of it in the last column, and how much it stores;
a byte of the result is the set of terms added to it, a partial load holds junk elsewhere.
`ProductContract` is what these functions ask for and do not check: a least length (a register, or
half of one), a table of `_V` columns, more than one column. `ProductCalls` walks every product
call of the library for the four parameter sets and six builds, without running the product:
binding of names, shifted copies over GF(16), strides, sizes of the temporary tables. `Transpose` is
the register transposition of a 64 by 64 matrix over GF(16) in both forms, and the one by element.

### Kat (`nist-submission-project/PQCgenKAT_sign.c`, `utils/nistkat/rng.c`)
`randombytes_init` and `randombytes` on the global `DRBG_ctx`; the driver's first pass
(`RequestSeed`, `RequestMsg`), and the second from `FindCount` to `crypto_sign_open`. AES is the pair
of what is encrypted and under which key. The request file may have been cut short between the passes.

### ParallelMatrix, OvKeys (`src/parallel_matrix_op.c`, `src/ov_keypair*.c`, `src/ov.c`)
`ParallelMatrix` has the batched operations as functions on the packed layouts, pointers being
indices of batches. `OvKeys` applies them in the code's order to the code's buffers: `Generate`,
`CalculateF1T1F2`, `CalculateP3`, `CalculateF1trT1` (key generation in place), `Load` (what a
signing call finds in `sk->S`, by variant), `Attempt` (an attempt whose system is solved).

### SignApi (`src/sign.c`)
One memory with the message and the signed message anywhere in it. `SignSignature` and `MoveMessage`
are `crypto_sign`; `OpenTooShort` to `ClearReturn` are `crypto_sign_open`, its two loops byte by byte
with the width of their counter. Between the two a network may change a byte or the length.

### Sponge (`utils/utils_hash.c`, `utils/fips202.c`)
`keccak_absorb`, `keccak_finalize`, `keccak_squeezeblocks` and `keccak_squeeze` loop by loop on
several contexts that are initialised, updated, copied and finalised in any order. The permutation is
not computed: a state is known by the sequence of what was in it before each permutation.

### Field, FieldInverse (`src/gf16.h`, the folding in `src/ov_publicmap.c`)
A word is the set of its bits, so that `^` and `&` are set operations and `+` and `*` go through the
integers, carries included. `FieldInverse` runs the loop of `gf256_inv`, one action per division step,
and states the reference: products of polynomials over GF(2) and remainders.

### Proof modules
`GeneratorsProofs` (for `Prng` and `Kat`), `OvSignProofs`, `GaussElimProofs` (for `SimdElim` as well),
`SpongeProofs`, `KernelsProofs` (for the four modules `MCKernels` runs), `SignApiProofs`, `ExpandVerifyProofs` and `OvKeysProofs` prove the theorems
of section 5. Each begins, where it needs them, with lemmas about `\div` and `%`, which the SMT backend does
not reason about well, and an induction over the numbers for a set (`InductionUpTo`); they are
stated for that module alone, so that each can be read and checked by itself.

## 3. Runs

| run | instance | what it shows |
|---|---|---|
| `prng` | 2 seeds, blocks of 2 bytes, buffer of 2 blocks, counter modulo 14, requests up to 13; the known-answer program with 3 vectors | buffering, the direct path and counter jumps are invisible to the caller, past the counter's wrap; an answer depends on its vector only, and no block is encrypted twice |
| `ov_sign` | 2 messages, 2 salts, 2 addresses, 3 attempts, variant `pkc+skc` | sign and verify calls of any outcome implement the service, leave nothing behind and return |
| `last_attempt` | the same, classic variant | violation, see section 6 |
| `expand_verify` | V = 3, O = 2, vectors of 3 bytes, unit 4, three builds | the expansion and the evaluation agree on the layout for every pattern of zero entries |
| `gauss_elim` | GF(4), 4x4, unit 4, both layouts, 5 back ends, junk, no early stop and a stop after 2 | the elimination ends with a triangular system that has the caller's solutions, back substitution never writes again what it has solved, a success is the only solution, a failure is a singular matrix, no stale pivot is used |
| `early_stop` | the same | violation, see section 6 |
| `ov_keys` | GF(4), V = 3, O = 2, two equations, 27 sampled keys, all 64 vinegar vectors | key generation in place, the two forms of the secret key and the signature equation |
| `sign_api` | memory of 7 cells, signature of 2, messages up to 2 | all placements, one corrupted byte, any received length |
| `sign_api_wrap` | memory of 5, counter modulo 2 | violation, see section 6 |
| `sponge` | 2 contexts, rate 2, capacity 1, messages up to 4 in chunks up to 3, digests up to 5 | independence of the cuts, copies and digest length |
| `kernels` | registers of 8 and 16 bytes and vectors up to 64; products with registers of 4, columns up to 38 bytes, up to 5 of them; all calls of the four parameter sets; transposition at its real size | vector operations, products, the calls made to them and the transposition, one at a time |
| `field` | all 256 elements, 16-bit words | the loop invariant and result of the inversion; all products and word operations |

Why the bounds are enough:

* `prng`: three vectors are a first one after the request pass, and two after another vector, with
  messages of 3, 5 and 7 blocks, the last of them cut. A request of 13 spans a part of the buffer, two whole buffers and a tail; the counter wraps
  within a few calls. The context is finite, so every sequence of calls is covered.
* `ov_sign`: with three attempts there is a first, a middle and a last one; two addresses are what a
  call needs at once, so an address is reused as soon as it is freed. `CtrVals` equals `MaxAttempt`
  as 256 equals 256. Two messages and two salts tell signatures apart.
* `expand_verify`: V = 3 and O = 2 give the first, inner and last row of each triangle, and 3 bytes
  with a unit of 4 give an addition that reads past its vector, also next to the end of the key.
* `gauss_elim`: over GF(4) a pivot has to be normalised. Size 4 with unit 4 has two or three units
  in a row and padding in front; a pivot may need one, two or three of the rows below, and an early
  stop may miss one. The 1,536 systems hold every pattern of zeros in the first two columns, so regular
  ones with any repair and singular ones of every rank; the entries are a sample.
* `kernels`: what decides in a vector operation is the length modulo the register and its number of
  whole registers, up to four of which are treated apart; 64 is eight and four registers. In a
  product 38 bytes are nine registers of 4 and a rest, one more than any block; 5 columns are two
  tiles of 2 and a rest. `Columns` picks the first two columns of B and, for each parameter set, the last.
* `ov_keys`: the operations are linear in each matrix, so that a wrong index shows on almost any
  sample; the vinegar vectors are complete because they enter quadratically. `Tail` = 2 of 3 rows go
  through the table branch of the quadratic form, as 15 rows do in the code.
* `sign_api`: 7 cells hold both buffers apart as well as in each overlap of up to 4 cells. The
  counter's range, 16, is above any length, as 2^32 is for messages under 4 GiB.
* `sponge`: with rate 2 a chunk of 3 fills a block from any position and starts the next; a digest of
  5 is two blocks and a rest. Message bytes are 0 and the padding byte, which are the ones padding can
  be confused with.
* `field`: TLC's integers have 31 bits, so that products of words of 32 bits do not fit; two bytes or
  four nibbles have an inner boundary, which is where a carry would cross.

Every property of a passing run has a mutant in `PROJECT.json`: a variant of one definition, kept next
to it, under which TLC finds the property violated. The variants are the plausible mistakes the
property is there for; nothing else refers to them.

## 4. Fairness and liveness

* `OvSign`: weak fairness of `Step`, the disjunction of a call's own steps. The library is sequential
  code without blocking, so a call that has begun is not stopped by anything but the end of the
  program; nothing is assumed about the caller. `CallsReturn` holds because the attempt counter is
  bounded.
* `SignApi`: weak fairness of `Open`, for the same reason. `OpenReturns` and its 32-bit
  counterexample `AllGoodReturns` are about the two byte loops of `crypto_sign_open`.

No other module claims liveness.

## 5. Theorems

Assumptions are the named `ASSUME`s of the modules; TLC evaluates each of them on the instances.

* **`PrngImplementsKeyStream`**: for every buffer size, block size, counter width and request bound,
  `Prng` implements `KeyStream`. The inductive invariant `ContextOK` strengthens `UnreadIsStream` by the
  ranges of `used` and `ctr`: without it the bytes a gen takes from the buffer are not known to be the
  ones just before `ctr`. The proof takes a gen apart in its three ranges (buffer, whole blocks, tail)
  and shows for each that byte i is byte i of the stream at `Position`. The counter's wrap is where
  `CtrMod % K = 0` is needed. `CounterAlwaysAligned`, `UnreadIsStreamAlways` and `TypeCorrect` come
  from the same steps.
* **`OvSignImplementsService`**: for all messages, salts, attempt bounds, allocators and variants,
  `OvSign` implements `SignatureService`. `IInv` in `OvSignProofs` conjoins `Holding` (the heap is exactly the
  handles of the contexts that are live at this program point, no two sharing one), `KeysHeld`
  (the expanded keys are live exactly inside their call), `Absorbing` (what each context and `y` have
  absorbed) and `Solved` (at the end of a loop left early, `x_o1` solves the current vinegar's
  system). None of the checked invariants is inductive alone: `ContextsLive` needs to know that freeing one context does
  not free another, which is the injectivity in `Holding`. `SignedAlwaysVerifies`,
  `ContextsAlwaysLive`, `NothingHeldAtReturn` and `TypeCorrect` follow from `IInv`.
* **`EliminationEchelon`, `PaddingHarmless`, `TypeCorrect`** of `GaussElimProofs`, about the reference
  functions alone (`Spec` of `GaussElim`; no run checks these two separately): for every field of
  characteristic 2, size, unit and early stop, a flag still set means an upper triangular matrix with
  ones on the diagonal and untouched padding, and the over-long additions of back substitution add
  zeros. The invariant adds `Below` (the row added lies below the pivot) and `Stored` (the matrix given
  to back substitution is zero left of the diagonal, which is what makes a transposed column harmless).
* **`DigestAlwaysXof`, `AbsorbsMessageAlways`, `NoCollisionsEver`, `TypeCorrect`** of `SpongeProofs`:
  for every rate, capacity, padding and set of contexts, a digest is SHAKE's of all that was absorbed, however
  it was cut. The proof first says what one step does to the values a context consists of (`Holds` while it
  absorbs, `Squeezes` after), then adds the actions. `IInv` strengthens `AbsorbsMessage` by `InputLeft` (what
  is left of the chunk is the end of the message), `Control` (the bound a loop was entered with) and
  `Squeezing` (blocks squeezed and `pos` determine how many bytes are out), which connects the
  block-wise squeezing, where `pos` stays at the rate, with the byte-wise one. `NoCollisions` needs of
  the padding only that it is not zero (`PaddingAssumption`).
* **`OnceEachAlways`** of `KernelsProofs`: for every width of words and registers and every length, when a
  vector operation is over each byte of the vector has been combined exactly once, with the operand of the
  same index, and no byte outside the vectors has been touched. `IInv` is `Types`, `InStep` (the pointers
  move together; a table over GF(16) takes half a byte per entry) and `Parts` (what is done lies in front
  of the pointers or behind what is left to do; the rest is untouched). `Parts` has the two sides because
  some functions take the rest of a vector first and others last.
* **`ProductsAreRight`, `RunsProductRight`, `RunsStayInside`** of `KernelsProofs`: for every width of a register,
  size of a tile and of a table, and every length and number of columns that `Contract` admits, the result of each of
  the 17 product functions is the sum over all columns, each byte with the terms of its own place; no load leaves the
  matrix and no store the result. `ProductRight` speaks of the end only. `ProductInv` says for each point of the three
  nested loops which bytes hold how many columns (`Gathered`): outside the tiles all of them the columns walked so
  far, inside a tile the bytes before `to_go` those of the tile as well. For functions that store sums of their own,
  `Fresh` says that the first tile may find anything. `RestFirst` and `ToGoRight` are for the functions that take the rest
  of a column first: what is to go is whole registers from then on, which is why a load never needs to be cut.
  The registers of one block are then shown to cover its bytes (`Covers`); where two overlap, the later store
  leaves the same sum. Assumed are that a register has two
  halves and the other sizes are positive (`SizesAssumption`), and that callers keep to `Contract`.
* **`CallsMeetContracts`, `RunsKeepContract`, `RunsOperandsRight`** of `KernelsProofs`: the callers do. For the four
  parameter sets, each back end and every row and column (not those of the run only), a product the
  library asks for meets the demands of the function its name is bound to, fits its buffers, and meets each column with
  its own element. The rows are split by site and parameter set (`TrimatRight` to `OilRight`). What needs an argument is
  the shifted copy at odd rows over GF(16), the address of a table under the stride of its generator, and the
  last 15 rows of the quadratic part, whose terms are gathered by a recursive function: it is shown to
  exist and to put the pair (r, t) where the triangular numbers say (`GatheredTo`, `Pair`). `BuildsAssumption`
  names the six back ends. Together with `ProductsAreRight`, which assumes the same `Contract`, this is what
  lets `ParallelMatrix` take a product as a sum over columns.
* **`TransposesAreRight`, `RunsTransposeRight`** of `KernelsProofs`: for every stride of the destination, the
  transposition of a 64 by 64 matrix over GF(16), by elements, with NEON or with AVX2, brings each element to its half
  of its byte and leaves the room between the rows alone. `SwapHalves` is the step of the induction: if blocks of 2h
  by 2h bytes are transposed as wholes, then after the swap of their halves those of h by h are. The rounds
  therefore transpose a square of 16 or 32 bytes (`RoundsTranspose`), stored into the rows of one parity (`StoredAt`); the invariant
  (`Expected`) says what each byte holds between the parts, where the AVX2 version reads in the second part what the first has
  left in the destination. The matrix is 64 by 64, as in the code, which has no other (`SquareAssumption`).

  `MCKernels` runs the four one at a time; `Running` conjoins their invariants for the run as a whole, so
  the theorems whose names begin with `Runs` are about the very formulas the run `kernels` checks.
* **`PivotsStayCurrent`** of `GaussElimProofs`: for every field, size and back end, the copy of the pivots
  that an elimination by registers works from equals the matrix when it is read. `PInv` is `Busy` (where in the
  program a copy is live), `Loops` (ranges of the counters; the row repaired from lies below the pivot, so adding it changes no
  other row's copy) and `Current` (the copy equals the column from the step that takes it through the
  repair of the pivot). `PivotsCurrent` alone is not inductive: it says nothing while the repair goes on.
* **`SuccessIsTheSolution`, `FailureIsSingular`, `EliminationKeepsSystem`** of `GaussElimProofs` (properties
  `Solves`, `FailsSingular` and `EchelonKept`), over the five back ends: for every field of characteristic 2 (`FieldLaws`,
  `FieldRing`), size, unit and content of the unwritten memory, a success returns the only solution of
  the caller's system and a failure without early stop means that some nonzero vector is mapped to zero.
  The inductive invariant `AInv` (`SolverInvariant`) keeps the set of solutions: adding one row to another
  and scaling a row change neither it nor the kernel. `Front` says that the columns done so far are unit upper
  triangular, `Looked` that while the pivot is still zero all rows looked at are zero there; a
  column without a pivot then has a kernel vector, built from the bottom up (`KernelOf`). For the back
  substitution the invariant says which entries are final; each step is an elimination in the last column.
  `EchelonKept` reads the system off the buffers of whichever function is at work (`CurA`, `CurB`): for 64 by
  64 the constants come from `vec` until column 0 is done and from column 0 afterwards.
* **`SolvedCoordinatesStay`** of `GaussElimProofs` (property `SolvedStay`), over the five back ends: the
  additions of back substitution work on whole units and reach the element they are scaled by, coordinates
  already solved and, with some sizes, memory behind the vector; none of these changes. The proof adds
  `Behind` to `AInv`: the column buffer is zero behind the vector as well.
* **`RejectedAlwaysCleared`, `OnlySignedIsOpened`, `SignedComesOutWhole`, `CompleteAlwaysVerified`** of
  `SignApiProofs`: for every memory, length of a signature and message, and placement of the buffers that
  the code allows to overlap, an opening that fails leaves zeros where the message would be, one that succeeds
  returns what was signed, and what was signed and not disturbed comes out whole. The invariant follows the two
  byte loops (what is copied lies below the counter, and moving down never overwrites what is still to
  be read) as long as the length stays below the counter's range, and says that the memory holds no other
  signature than the one made for the message (`OneSignature`).
* **`VinegarAlwaysFresh`, `FailureExhaustsAttempts`** of `OvSignProofs`: no attempt of a call draws a
  vinegar vector that an earlier attempt drew, and a failure means that as many different vectors as there are attempts
  were tried. `Drawing` says that each context still holds what it had absorbed before the loop, and
  that the vectors tried are those of the counters 0 to `attempts` - 1; freshness is then that the counter, one byte in
  the code, has not wrapped, which is `CtrVals >= MaxAttempt`.
* **`ExpansionsAgree`, `OnlyWrittenIsRead`, `KeyIsEvaluated`** of `ExpandVerifyProofs`: for every number of
  variables, length of a vector, unit, build and pattern of zero entries, the expansion by rows writes at each place it
  writes what the whole expansion has there, the evaluation reads nothing else, and what it adds up is the key's
  quadratic form. `Place` ties the pointer into the key to the position in the keystream, through lemmas about
  triangular numbers; `Expanded`, `ReadSoFar` and `Accumulated` describe both passes row by row. Assumed are the
  unit's bound on the over-read (`UnitAssumption`), the stream (`StreamAssumption`) and that
  uninitialised memory can be told from a key byte (`JunkAssumption`).
* **`BlocksAlwaysFresh`, `AnswersAlwaysAlone`** of `GeneratorsProofs`, over `Kat`: for every number of
  vectors, no block is encrypted twice under a seed, and the answer to a vector is that of a run with this vector only.
  Freshness needs to know where keys come from: `Fresh` says that the current key has encrypted nothing yet
  and that every key is a block encrypted under an earlier one, so an update cannot lead back to a key in use.
  For the answers the invariant describes the three files: what the request file holds for each vector is
  a function of the vectors before it (`Requested`, with the bytes drawn so far as a sum proved to be
  its recursive definition), and each line of the response file is that of a lone run (`Answered`).

* **`OilSpaceAlwaysVanishes`, `SecretKeysAgree`, `SignaturesAlwaysMap`** of `OvKeysProofs`: for every commutative
  ring in which each element is its own negative (`RingAssumption`; no inverses are needed), all dimensions, every
  `Tail` and whatever P3's memory held, a generated key's public map vanishes on its oil space, both forms of the secret
  key have the same `S`, and a solution of an attempt's system is a preimage of the digest. Three layers: sums and matrices,
  with the identity by which the terms of P3 cancel (`QuadIs`, `FoldedForm`, `LinearPart`); the layouts (`PosUnique`,
  `PosOnto`, `PackedSum`: the walks over a packed triangle meet each entry once), through which each
  operation of `ParallelMatrix` is shown to be a matrix operation at every equation (`TrimatMaddIs` to `PublicMapIs`);
  and the steps. None of the three properties is inductive: `KeyInvariant` says what the buffers worked on in place are
  at each step, above all that P3 comes from `S` when only half of it has been added.

Induction over data is available only in the form that needs no operator parameter: for a set of
numbers, by the least element of its complement. This is how the sums of `GaussElim` and the recursions of
`ParallelMatrix` are proved to be what their definitions say: such a function exists for every length, and the
one chosen is that one.

Only model-checked: liveness and its counterexamples (outside the prover's reach), and the three invariants of
`FieldInverse`. That module has no sizes to generalise over but the width of a word: the run goes through all
256 arguments of `gf256_inv` and all its steps, and through all pairs of elements for products, so for
`Bezout`, `InverseFound` and `ScalarsAgree` it leaves no case out; the neighbours in a word are a
sample. A proof for wider words would have to go from integers to their binary digits, which are recursive
sums, and from there to remainders of polynomials, an operator that is declared `RECURSIVE`.

## 6. Disagreements between the code and what it says

* `last_attempt`: the loop makes up to 256 attempts, but a system solved in number 256 leaves
  `n_attempt` at 256, and `MAX_ATTEMPT_VINEGAR <= n_attempt` (`src/ov.c:171`) reports a failure. Without
  effect in practice, at a probability below 2^-256 of getting there; the property `SolvedSucceeds`
  is refuted.
* `early_stop`: `_GE_CONST_TIME_CADD_EARLY_STOP_` looks for a pivot in a bounded number of rows, so a
  regular matrix may be reported singular and the signer may take another vinegar vector.
  `src/blas_matrix.h:77` says that 0 means singular and `src/config.h:10` that the options do not affect
  test vectors. `FailsOnlySingular` is refuted; the signature is still valid.
* `sign_api_wrap`: the loops of `crypto_sign_open` count in `unsigned int` up to an `unsigned long long`
  length (`src/sign.c:147`), so a call on 2^32 bytes or more does not return. `AllGoodReturns` is refuted.

## 7. Not modelled

* What one instruction of a SIMD back end computes: shuffles, carry-less products, affine maps and the
  tables they index are taken as the product by a constant; the models say which bytes meet which
  constants, in which order, and where a result is stored.
* The AES implementations: that a cipher's implementations agree is a matter of test vectors; the
  models take a keystream block as the pair of a key and a counter.
* The Cortex-M4 back end: the dispatch names its functions, their sources are not in the repository.
* `seedexpander` of `utils/nistkat/rng.c`, which nothing calls, and the names and the layout of the
  known-answer files; the driver's reading of what it wrote is modelled.
* Requests to the PRNG of 4 GiB and more, for which its 32-bit block counts are not meant
  (`PrngReqAssumption` excludes them; the library's largest requests, the parts of a public key, are under 2^21 bytes).
* `crypto_sign_keypair` itself, which draws a seed and calls key generation; the failure of the
  platform's random generator, which the code does not report.
* Adapters to OpenSSL, liboqs, PQM4, SUPERCOP apart from the hash contexts' heap; build scripts,
  tests, benchmarks.
* Timing and side channels, which are not state.

## 8. Plan

Done, in this order: `Prng`, `OvSign`, `ExpandVerify`, `GaussElim`, `OvKeys`, `SignApi`, `Sponge`, `Field`;
then `SimdElim`, `VectorOps`, `ProductContract` with `BlockProduct`, `ProductCalls` and `Transpose`, and `Kat`.

Next, in order of what they add:

1. **The whole signature**: a signing call of `OvSign` whose solver is `GaussElim`'s contract and whose
   map is `OvKeys`'s, and the buckets of the public map (`Field`) in `OvKeys`.
2. **Words**: that elements side by side in a word of any width do not disturb each other (`VectorsAgree`), for
   which products would have to be stated bit by bit instead of through integers.

Runs are kept few: a new one is added where it asks a new question, and one whose question is
contained in another's makes room.
