# Private set union: TLA+ models and proofs

This directory models the protocol code of `src/src/*.rs`: private set union (PSU)
between two parties over one TCP connection, with one-sided and two-sided output,
and the parts of the vendored transfer library that it calls.
It holds specifications, TLC configurations for small instances, and proofs
checked by TLAPS for every instance. `PROJECT.json` lists components, runs,
mutants, hazards and theorems, and maps definitions to source lines.

## 1. The system and its parts

| part | source | state | operations |
|---|---|---|---|
| two-sided protocol | `twosided.rs` 25-393 | `Party`: items, keys, permutation and inverse, hint; one thread per party, its round and what it has read | `Party::new`, `gen`, `verify_sigma`, `blind_shuffle`, `final_response`, `reveal_items`, `protocol`, `malicious_psu2` |
| one-sided protocols | `onesided.rs` | `PartySender(1M)`, `PartyReceiver(1M)`; one thread each | `new`, `gen`, `blind_and_shuffle`, `blind`, `compare`, `semi_honest_psu1`, `sender_malicious_psu1` |
| message channel | `channel.rs` | the two byte streams | `write_msg`, `read_msg` |
| shuffle argument | `aok.rs` 105-571 | hints drawn ahead of time | preprocess, prove and verify of the known-content and the adapted argument |
| batched DDH proof | `aok.rs` 573-651 | none | `batched_ddh_prove`, `batched_ddh_verify` |
| random permutation | `aok.rs` 122-141 | two vectors and a loop | `random_permutation` |
| public parameters | `aok.rs` 15-50 | a process-wide `OnceLock` | `setup_params`, `pub_params`, `parse_power_or_letter` |
| item <-> point mapping | `mapping.rs` | AES round keys | `hash_to_curve`, `hash_to_point`, `recover_from_point`, the Feistel permutation |
| inputs and check | `twosided.rs` 395-494 | none | `generate_input`, `correctness_check` |
| transfer wrapper | `otext.rs` | two threads | a batch of transfers over the library |
| transfer library | `swanky-dev/ocelot` (`chou_orlandi.rs`, `alsz.rs`, `kos.rs`, `cbits/transpose.c`), `scuttlebutt/src/cointoss.rs` | seeds and running generators of both ends, two bit matrices | `init`, `send`, `receive`, coin toss, correlation check, transposition |
| vendored, not modelled | `curve25519-dalek`, the rest of `swanky-dev` | | curve arithmetic; protocols the program does not call |

The program's own code is the Rust under `src/src`. The C files of the repository are
`ocelot/cbits/transpose.c`, modelled entirely, and
`fancy-garbling/base_conversion/cbits/lookup_tables.c`: 63 581 generated lines of
constant tables that nothing in the program links to, with no state and no control.

**How they interact.** Each entry point binds a listener, spawns a thread for one
party, runs the other on the caller's thread and joins. The threads share nothing
but the connection. In the two-sided protocol the parties run the same function
four rounds long; the server writes first and the client reads first in each. Round
1 is a digest of the party's blinded points, round 2 opens it, round 3 returns the
peer's points blinded and shuffled with a proof, round 4 returns, unblinded and
with a proof, those of one's own points that the peer lacks. In the one-sided
protocols three messages tell the receiver which of the sender's entries it has,
and oblivious transfers on the same stream give it the others: one batch of Alsz in
`semi_honest_psu1`, four batches of Kos, each with a coin toss and a check, in
`sender_malicious_psu1`.

**What is hard.** Blocking writes of messages larger than the socket buffers, on
both sides; a thread that returns `None`, panics (aborting the process or
unwinding, depending on the profile) or dies with the connection while its peer is
in a blocking call without a timeout; a result handed to the caller from one of two
threads; a peer that deviates from the protocol at any round; indices that refer to
a shuffled order fixed two rounds earlier; batched verification equations; boundary
sizes.

**What makes each part correct.**
- two-sided: answers between honest parties are the exact differences; no check
  refuses an honest peer; with a deviating peer, answers come from the set it was
  bound to in round 1 (a neutral public key, which the code accepts, binds to
  nothing), and nothing is released before its check; nobody hangs;
  the caller gets a value only if both threads finished.
- one-sided: the receiver ends with exactly the sender's items it lacks; both
  threads end, also when a coin toss or a check is refused in the middle of a batch;
  no two messages cross; the sender's proofs would verify.
- arguments: verifiers accept exactly what the equations are meant to accept.
- permutation: both vectors inverse to each other, no permutation favoured.
- channel: messages arrive whole and in order, the reader never loses its place, a
  payload too long for its prefix is never taken for a message, nobody waits for ever.
- lengths: sizes that do not fit never lead to an output, and those that fit are
  never refused.
- mapping: no conversion fails, what is recovered was hashed, an ordinary item is
  never lost in silence.
- transfers: the receiver gets the message it chose, batch after batch; the check
  never refuses honest ends; the transposition stays inside its arrays.
- parameters: a thread gets its own, and a size is the number its text means.
- inputs and check: the check refuses wrong blocks wherever they are.

## 2. Modules

| module | what it is |
|---|---|
| `Curve` | the algebra as constants with laws (assumptions): prime-order group, clamped multiplication that clears torsion, hash to a point and its inverse |
| `PSU` | the ideal functionality: commit once, to no more items than the vectors have (or, deviating, to all there are), then answer or abort |
| `TwoSided` | `twosided.rs`; instantiates `PSU` under a refinement mapping |
| `TwoSidedInv` | its inductive invariant |
| `TwoSidedProofs` | its theorems and the refinement of `PSU` |
| `OneSided`, `OneSidedInv`, `OneSidedProofs` | the same for both functions of `onesided.rs` (`WithProofs` selects) |
| `RandomPermutation` | `random_permutation` |
| `BatchedDDH` | scalars, and the batched argument of `aok.rs` |
| `ShuffleArgument` | the shuffle arguments of `aok.rs`; prover and verifier of all of them |
| `ShuffleProofs` | what the verifiers of both accept, for every length and field |
| `Sizes`, `SizesProofs` | the lengths of all vectors of the two-sided protocol |
| `MessageStream` | the ideal channel: messages in order until it breaks |
| `Wire`, `WireProofs` | `channel.rs` on bytes, over std's buffers; implements `MessageStream` |
| `Feistel` | the permutation of blocks of `mapping.rs` |
| `Mapping` | the rest of `mapping.rs`, over `Feistel` |
| `IdealOT` | the ideal transfers |
| `OTExtension`, `OTExtensionProofs` | base transfers, extension, coin toss and check; `otext.rs`; implements `IdealOT` |
| `Transpose`, `TransposeProofs` | `sse_trans` of `transpose.c` |
| `Tests` | the tests as threads of one process: the process-wide parameters, the parsing of sizes, `generate_input` and `correctness_check` |
| `SetupProofs` | theorems of `RandomPermutation`, `Feistel`, `Mapping` and `Tests` |
| `SmallCurve` | Z_11 x Z_8, the instance of `Curve` that TLC uses |
| `MCTwoSided`, `MCOneSided`, `MCShuffleArgument`, `MCMapping`, `MCOTExtension`, `MCTranspose`, `MCTests` | instances for TLC |

How they fit together: `TwoSided` and `OneSided` take the channel as the streams that
`Wire` implements, the proofs as what `ShuffleArgument` and `BatchedDDH` accept, the
items as what `Mapping` does outside its exceptional items, and (`OneSided`) the
transfers as `IdealOT`. `Sizes` drops the assumption of `TwoSided` that all lengths
agree. `OTExtension` takes the transposition as what `Transpose` computes.

### TwoSided
`pc` and `round` are the position of each thread in `protocol`; `sent[p]` is all that
`p` has written to the stream and `got[p]` how many of its peer's messages it has
read, so what a party computes later is a function of its secrets (`input`,
`key`, `pi`, drawn in `Party::new`) and of `Got(p, r)`, the message of round `r` it
read. `Msg(p, r)` is what the code writes. One action per blocking call (`Open`,
`Write`, `Flush`, `Read`, and their failures), one per stretch of code between two
rounds (`VerifySigma`, `FinalResponse`, `RevealItems`, each with its panics and its
`return None`), and `Join`. A write puts the message on the stream at once but
returns (`Flush`) when the buffers take it or the peer has read it.

Abstractions: a digest is the value hashed; a proof verifies iff the prover made it
(`proof |-> TRUE`) and its statement is true, the arguments themselves being modelled
in `ShuffleArgument` and `BatchedDDH`. Statements are over all scalars, 0 included:
neither verifier looks at the public key, so `ShuffleHolds` and `DDHHolds` accept the
neutral one, as the code does, with neutral points and any unblinded ones. A digest with
such a key and point is `Unbound` there, and is told apart in `AnswersAreBound` and in
what a party is committed to in `PSU` (section 5). A deviating party may send any
message of `Forged` in any round, go on whatever its own checks say, or quit. A point that does not decompress stands
also for a vector of a wrong length and for a malformed proof: all of them panic at
the same place. The two vectors of round 4 are functions on positions, so a
deviating peer may list an index twice, out of range, or without a point; the code
accepts the first, and `AnswersAreBound` says no more than it does.
Points a deviating party sends lie in the prime-order group, as the code's own do:
`decompress` also accepts points with torsion and nothing checks for them, and what
the arguments mean for such points is outside the model.
Both parties have `N >= 2` items. `N = 1` is excluded because the shuffle argument
has no valid proof there (section 5), `N = 0` because `Party::new` panics. Lengths
that differ are the subject of `Sizes`.

### OneSided
`at` is the position in the thread's sequence of reads and writes, `mode` whether it
is opening, running, waiting for a flush or over. Of the transfer library it has the
order of reads and writes of `init` and of every batch (`SendIO`, `ReceiveIO`). A batch of
Alsz is the receiver's columns and the pairs. A batch of Kos is six messages: columns,
commitment to the sender's seed, the receiver's coin, the seed, the receiver's check and the
pairs; on reading the seed the receiver compares it with the commitment, and on reading the
check the sender compares it with columns and coins, and each panics if it refuses
(`Refused`), since `send` and `receive` are unwrapped. The transfers are ideal, which
`OTExtension` justifies: a commitment is the seed, columns are the choices they hide, and a
check is the choices and coins it was made from. A party in `Deviating` may commit to
another seed than the one it opens, or send a check that does not go with the coins
(`Forged`), in any batch. Otherwise both parties run the code: `sender_malicious_psu1` has
its only check of the sender's items commented out (line 457), so a sender that deviates in
them meets no code worth modelling; `ProofsVerify` shows that the assertion would hold.

### ShuffleArgument, BatchedDDH
Scalars modulo 5, points as logarithms, commitments as coefficient vectors (nobody
can relate the generators), challenges chosen by an oracle. Prover and verifier are
transcribed equation by equation. The prover may be run on any index map and any
vectors, true statement or not, and a response that is not hashed may be changed. The
number of entries is that of the statement; batches may be empty.

### RandomPermutation
One step per turn of the loop, all outcomes of `gen_range`.

### Sizes
Five numbers can disagree: the length of the public parameters, what each party is told
of its own set and of its peer's, and the items each really has. The model keeps only
lengths, and each step of `protocol` becomes the condition under which its asserts and
indices hold. `Party::new` panics whenever a declared size differs from the parameters
(the assert on equal lengths below `commit`), and for 0 at `delta[0]`; a wrong length
of a party's own input is met by its peer, in `blind_shuffle`. Panics unwind, as in
tests; with `panic = "abort"` both threads would end at once. Both parties follow the
code, so the lengths of vectors in a message are those the code gives them.

### Wire
One direction of a connection. A byte is its position in the stream, so buffers are
numbers, and a frame is recognised by where it starts: the prefix read at a position
where no message starts is any number. Writing goes through `BufWriter` (which is
bypassed by payloads as long as its buffer), reading through `BufReader` (the same), and
each system call moves any number of bytes that fits. Std's buffers and the socket are
external. The writer's process may die at any moment. bincode is a payload that gives
its message when all of it is there (trailing bytes are allowed) and panics otherwise.

### Feistel, Mapping
A block is its two halves. AES is any function: decryption never inverts it, and the
proofs of `Feistel` use nothing else. `Mapping` transcribes Elligator's map and its
inverse, with `sqrt_ratio_i`, the sign convention, encodings that ignore the top bit and
accept numbers above the prime, the conversions between Montgomery and Edwards form
with their failures, and the search over eight translates and eight encodings of each.
The arithmetic below is external. Exceptional items are those whose permuted block
encodes a number not below the prime, and one that maps to zero: 2^255 - 19 makes them
rarer than any test would meet, the small field does not.

### OTExtension, Transpose
`OTExtension` has the two ends as the threads of `otext.rs`. Points of the base
transfers are logarithms in a small group; a one-time pad opens only under the hash it
was made with; the generators are functions of seed and position, so that reusing or
skipping a position shows. `kos` says which of the two extensions runs: Kos adds padding bits, a coin toss by commitment, and the
check as sums of carry-less products. Rows travel as one message where the code sends
them one by one in the same direction. `Transpose` follows `sse_trans` block by block: a
bit of the input is its own number, addresses are the ones the macros compute, and the
loop bounds are unsigned words. An access outside the arrays ends the run ("fault").
The else-branch of the loop over pairs (lines 83-98) is in the model but cannot be
reached: rows are left over only when their number is not a multiple of 16.

### Tests
The tests that call `setup_params` are threads of one process; a panic ends its own
thread only. A text is its form, its number and whether blanks precede it.
`malicious_psu2_test` also draws its inputs, as the sets that any number of draws can
give, equal blocks included, and its run of the protocol returns anything or nothing, so
that `correctness_check` is judged on all answers and not only on those `TwoSided` allows.

## 3. Runs

| run | bounds | checks |
|---|---|---|
| `honest` | 2 items, all 9 vectors over three items, 2 keys, all permutations, a reset at any moment, unwinding panics | exact answers, half duplex, no false alarm, no half-finished `Some`, termination |
| `deviating_client` | 2 items, 2 inputs, 2 keys, some 20 forged messages in any round, digests, openings and shuffles with the neutral element among them | bound answers, checks before messages, termination, refinement |
| `onesided` | malicious protocol, 2 and 3 items (3 and 2 vectors), 2 keys, 4 batches of Kos, 2 nonces, false commitments and checks in any batch, resets | exact union, proofs, one way at a time, join, termination |
| `permutation` | n = 0..5 | inverse, no bias |
| `arguments` | shuffles of 2 and 3, all index maps; batches of 0 to 2 | verifiers accept exactly, no changed response of a shuffle passes |
| `sizes` | all sizes 0..3 of the seven lengths | output only if all fit, shuffles fit, termination and success when they fit |
| `wire` | 3 messages of 1, 3, 7 or 8 bytes, prefix 2, wrap 8, buffers 4, 3, 3 | reader in its frame, oversize refused, refinement, delivery, termination |
| `mapping` | the field of 509 elements, a curve of 8 * 59 points, halves of 5 bits | no failed unwrap, preimages, no silent loss |
| `ot` | Alsz and Kos, 2 rows, 2 batches of 3 pairs padded to 4, 2 extra columns, all secrets, scalars, choices and coins | columns correlated, check never fails, refinement, no deadlock |
| `transpose` | 16 to 40 by 16 to 40 bits, 0 and 8 columns without rows left over, 128 rows | inside the arrays, equal to the portable code |
| `tests` | 2 tests, numbers of 2 bits, all forms of text, 3 blocks, answers of up to 2 | own parameters, size as meant, one survivor, wrong blocks refused |
| `shuffle_one` | 1 point | a violation, section 5 |

What a run leaves out of the constants' values is left to the proofs, which hold for
all: a deviating server and three items or more in `TwoSided`, aborting panics, and the
semi-honest protocol in `OneSided`. Type invariants and the inductive invariants `IInv`
are proved and not listed as runs.

Why the bounds are enough: two items give a permutation that is not the identity, an
answer with no, one or two entries in either order, and repeated items. Four rounds and one connection
are the code's own bounds. The group has more elements than the items and keys
produce, and every item has another torsion component, so a missing cofactor or
inverse shows. The messages of `Forged` include the honest answers of the other
entries, so that a check that is left out is noticed; of the digest with the neutral key
one point is neutral and the other is not, so that what is unbound and what is refused both
occur. In `OneSided` four batches of six messages are the code's own bounds, and a false
commitment or check meets every batch. For the arguments, three
entries are the first size at which `delta` has an element that is neither the first
nor the last. On the wire, payloads are smaller than, around and larger than each
buffer, one is as long as the number at which the prefix wraps and three are enough to
follow a lost place. In the mapping, 509 is three below a power of two and 5 modulo 8
like the real prime, the torsion group is cyclic of order eight, and -A is no square;
every item is tried. Transfers are padded in every batch, and a second batch is where
a generator that is out of step shows. For the transposition all remainders modulo 16 of both
sizes occur. What does not depend on sizes is proved in section 4.

**Fairness.** Weak fairness of each thread's steps and of `Join`: a thread that can
run runs, which the operating system provides. A flush is fair only once its message
has been read, because the code ignores the result of setting the buffer sizes:
the liveness properties therefore hold with no buffer at all. Nothing is assumed of
resets, of a deviating party's choice of messages or of quitting; but a deviating
party's thread keeps running, since the code has no timeouts: a silent peer with an
open connection would hold its partner for ever. `Wire`, `Sizes` and `OTExtension`
assume the same of their two threads and nothing of a death; `Tests` that the
harness runs its tests to the end; `Mapping` and `Transpose` are one thread that runs.

Each property of a passing run has a mutant in the modules (`..._mutant`) under which
TLC finds it violated.

## 4. What is proved

Assumptions: the laws of `Curve` (TLC evaluates them on the small curve), those of the
proofs in `OneSided`, those on the field and the curve of `Mapping`, and the types of the
constants.

**TwoSided** (`TwoSidedProofs`). The invariant `IInv` is the conjunction of `TypeOK`
and, for each party: `Counts` (how many messages it has written and read, from its
place in the code), `Tags` (each message acted on has the tag of its round), `Passed`
(every check behind it holds of what it has read), `AsCoded` (an honest party has
sent `Msg`), and `Fine` (how threads of honest parties may have ended). The safety
properties are not inductive: `OutputExact` speaks of the end and needs to know what
each of eight messages contained; `HalfDuplex` needs both counts. That a step keeps
`Passed` and `AsCoded` rests on streams that only grow (`StreamsGrow`, `ReadStable`):
what a party has read and computed does not change under it. `OutputExact` then
follows from the algebra: the peer's key comes off (`TakeKeyOff`), blinding is
injective (`BlindInjective`), and the item is recovered. `AnswersAreBound` follows from
the DDH statement without assuming anything of the peer: for a public key of a scalar that
is not 0 the unblinded point is that of the digest (`UnblindsToCommitted`); for 0 the
statement is only true of a point of the digest that is neutral, because an honest
party's own key makes no other point neutral (`OnlyNeutral`).
Proved: `TypeOK`, `HalfDuplex`, `CheckedBeforeSent`, `NoFalseAlarm`, `SomeMeansBoth`,
`AnswersAreBound`, `OutputExact`.

**Refinement** (end of `TwoSidedProofs`). Each party is committed, in `PSU`, when its
digest has been read, to the items its entries stand for, which are at most N, or to all
if an entry is `Unbound` (`CommittedTyped`); an honest party's digest is never unbound, since its
key is not 0 (`CommittedOfGen`). Initial states map to initial states, and each step to a
commitment, an answer, an abort of one or both parties, or a stutter.

**OneSided** (`OneSidedProofs`). `IInv`: how much each thread has written and read from its
position in the script, of Alsz or of Kos (`TakeTurns`: in every batch the two ends take
turns, so that the counts do not depend on which), and the contents of the sender's points
and pairs in terms of inputs, keys and permutation, whatever a deviating party commits to or
checks. A refused message is never the last of its thread (`RefusedBeforeLast`). Proved, for
both protocols, with and without deviating parties, resets and aborting panics:
`TypeOK`, `UnionExact`, `ProofsVerify`, `OneWayAtATime`, `ReturnMeansBoth`.

**RandomPermutation** (`SetupProofs`). `InverseInStep` and `OneChoiceEach` for
every n. That every permutation comes from exactly one run of the loop follows by
induction on the turns, which is left to the reader. `TypeOK`: no index leaves the vectors.

**Sizes** (`SizesProofs`). `OutputMeansFit` and `ShufflesFit` for every bound on the sizes.
The inductive invariant relates the step a thread has reached to the conditions it has
passed, and says that a read message was written: what one party knows of its peer's
lengths comes from the step its peer must have passed.

**Wire** (`WireProofs`). For every prefix width, wrap, payload and buffer size (a
`BufWriter` longer than a prefix): `TypeOK`, `InFrame`, `OversizeNeverAccepted` and that
the bytes implement `MessageStream`. The invariant says where in the stream each message
starts, that consecutive starts are a frame apart, and how the bytes in the four buffers
add up to what was written; a truncated prefix is refused because the payload read is
shorter than the message.

**Tests** (`SetupProofs`). `OwnParams`, `SizeIsMeant` and
`RefusesWrongBlocks` for every number of tests, every width of the numbers, every universe
of blocks and every length of the answer. `TestInv` is what makes them inductive: between
`setup_params` and `pub_params` the cell holds the parameters of the very test that is
there, which leaves no room for a second one, and a size that was not refused is
`Size(t)`. `AnswerInv` says that the blocks before the one `correctness_check` is at are
right. Both were checked by TLC first.

**Transpose** (`TransposeProofs`). For every set of shapes that is `Supported` (at least
sixteen columns, or no rows left over; the transfers' 128 rows are): `InBounds`, `TypeOK`,
and `Transposed`, that every bit written is the one the portable code writes there and
that at the end no bit is missing. The invariant says which rectangle of bits is done at
each place of the loops; the arithmetic of the addresses is in lemmas of its own.

**OTExtension** (`OTExtensionProofs`). `ColumnsCorrelated`, `NeverPanics` and the safety
part of the refinement of `IdealOT` (`TransfersIdeal`), for every number of rows, pairs,
padding columns and batches and for both extensions. `IInv` goes by stages: where both
ends are determines which message is on its way and what it contains in terms of seeds,
positions of the generators, choices and secret; that the positions of both ends agree at
the start of a batch is what carries the correlation into the next. The check of Kos
passes because both sides count the ones of one matrix, by rows and by columns, up to
parity: the parity of a finite set, and of a disjoint union, is where an induction is
needed.

**ShuffleArgument, BatchedDDH** (`ShuffleProofs`). For every prime order above the number
of entries, every number of entries, every statement, hint and challenge: `TamperedFails`,
`CopiesAgree`, `BatchAcceptsExactly`; and, for statements of two entries or more
(`Larger`), `AcceptsExactly` and `ValidProofVerifies`. `Larger` is needed and not a
convenience: for one entry `ValidProofVerifies` is false (section 5). The steps:

- `SInv`: the proof that is judged is what the prover's code makes of the statement, the
  hint and the challenges, or that with one response off by one.
- Congruence modulo Q, and commitments as vectors of integers up to it, so that the
  equations of the verifiers become one congruence per generator.
- A response that is off by one moves one side of one of those congruences by the
  weight of the batched equation or by a challenge, which are not zero.
- The folds behind `Sum` and `Prod` do not depend on the order in which a vector is taken,
  so that they split, scale and may be permuted.
- The chain of products that `verify_shuffle_known` recomputes from the responses is
  `e * a[i] + delta[i]` for the prover's `a` and `delta`; with `delta[n - 1] = 0` its last
  link is `e` times the product of the permuted scalars. Accepting is then the equality of
  two products and of two weighted sums, which is `AcceptsExactly`, and both hold of a
  shuffle that is one.

**Inductions.** A theorem that takes the induction hypothesis as an operator cannot be
used here, so the inductions over lengths, sets and chains are made by a smallest
counterexample: the set of the numbers that fail has a least element, and the step leads
from the one before it to a contradiction. For folds, what they compute is first stated
by the two equations of the recursive function behind them.

**Feistel** (`SetupProofs`). `decrypt_block` inverts `encrypt_block`, which is therefore
injective, for every round function.

**Mapping** (`SetupProofs`). `UnwrapsSucceed`, `FoundIsPreimage` and
`ZeroOnlyIfExceptional`, for every prime that is 5 modulo 8, every Montgomery curve of the
kind of Curve25519, every width of the halves, every key and every round function. The
invariant `MapInv` (which TLC checked first) says what the point is in terms of the item
and that the translates tried gave nothing; the rest is what the operators compute:

- An equation of the field is that P divides the difference of its sides (`Z`, `Eq`). It
  follows from others by giving the factors with which the difference is a combination of
  theirs; the identity of polynomials in between is for the SMT solver.
- Squares: products of squares and of non-squares, that 2 and `EDWARDS_D` are no squares
  and -1 is one, what `Root` and `sqrt_ratio_one` return.
- Elligator: with v = 1 + 2x^2 and t = A(2(Ax)^2 - v^2), neither of which is ever zero, u
  is -A/v or -2x^2 A/v (`DirectMap`) and always on the curve (`MontOnCurve`).
- The two forms: u and y determine each other, the square of the Edwards x is a square
  exactly if u is on the curve (`Birational`), and u = -1 is not, since A - 2 is no square.
  Hence no unwrap fails, and going to the Montgomery form and back loses the sign only.
- The inverse: each of the four candidates of a u of the curve is mapped to it
  (`InverseCorrect`), and every x but zero is among the candidates of its u
  (`InverseComplete`).
- Encodings: the bytes of an element, with and without the top bit, are the blocks below P
  that are read as it; `check_item` finds an item if and only if its block is one of them.
- Translates: the sign commutes with the addition, and a translate of a point of the
  prime-order group has this point as its prime part.

What is assumed, and TLC evaluates on the small curve: P is an odd prime and of a and
`SQRT_M1` a exactly one is a square (`PrimeAssumption`); A + 2 is a square, A - 2 is none
and `EDWARDS_D` is -(A - 2)/(A + 2) (`CoefficientAssumption`); a block without its top bit
holds the elements of the field (`BytesAssumption`); translates by the eight torsion
points partition the curve and each class has one point of the prime-order group
(`TorsionAssumption`, the group of `curve25519-dalek`). Associativity of the addition is in
the last one only.

The assumptions on constants beyond their types: `Unset` is no test; bits are 0 and 1
(`BitAssumption`); the order is a prime above the number of entries, secrets, weights and
the challenges the code inverts or multiplies by are not zero (`ShuffleAssumption`; a zero
has a chance of about 2^-252).

**Only model-checked.** The liveness properties (`HonestRunSucceeds` and the other
termination and delivery properties, `OneSurvivor`): fairness is outside the prover's reach,
and so is the fairness in the refinement of `IdealOT`. Every safety invariant and every
action property of a passing run has a theorem.

## 5. Findings

`shuffle_one`: for n = 1, `delta[n - 1] = Scalar::ZERO` (`aok.rs:158`) overwrites
`delta[0] = d[0]` (`aok.rs:154`), and the verifier refuses the honest proof.
`test_adapted_shuffle` asserts "Valid proof should verify" (`aok.rs:744`) for whatever
`N` the environment gives. `malicious_psu2` fails in the same way for sets of one item.

Four observations came from stating what does hold:

- `AnswersAreBound` and `ImplementsPSU` need a case for the neutral public key. Neither
  `protocol` (`twosided.rs:257-278`) nor the verifiers (`aok.rs:450-571`, `610-651`) refuse
  it, and under it a neutral point of the digest stands for every item, so that round 1
  binds the peer to nothing there. Under every other public key the answer is what round 1
  bound, and under the neutral one no other point is ever answered for. No comment or test of the
  repository says more, so this is a condition of the properties and not a violation.

- The proof of `InBounds` needs the shapes to be `Supported`. "The remainder is a block of
  8x(16n+8) bits (n may be 0)" (`transpose.c:67`), but with n = 0 the bound `ncols - 16`
  (`transpose.c:73`) wraps around and the loop leaves both arrays. The program's transfers
  have 128 rows and leave no remainder; `utils::_transpose` does not exclude the case.
- `OneSurvivor`: the alias `tr` (`.cargo/config.toml:21`) runs all tests as threads of one
  process, but the second `setup_params` in a process panics (`aok.rs:28`), so
  `test_adapted_shuffle` and `malicious_psu2_test` never both pass there. The aliases that
  name a test avoid it.
- `RefusesWrongBlocks` says `subseteq` and not equality: `correctness_check` ("Check if the
  malicious PSU protocol ends with correct outputs", `twosided.rs:395`) accepts an answer
  that lost items, the empty one included. The test relies on `OutputExact` and does not
  test it.

## 6. What is not modelled

- Curve and field arithmetic of the vendored `curve25519-dalek`: 255-bit arithmetic is
  out of TLC's reach; its laws are the assumptions of `Curve` and `Mapping`.
- The transfer library beyond what the program calls: correlated and random transfers,
  other base transfers, OPRF and garbling; and the generated lookup tables.
- Received points with torsion: what the arguments bind for them rests on products with
  random scalars that a small field does not represent.
- Vectors of lengths the code would not give them, from a deviating peer:
  `TwoSided` folds them into points that do not decompress, since both end in a panic at
  the same place or in a refused proof.
- bincode's format, timing, benchmarks and logging.
- `enumerate_edwards` and the dataset helpers of `mapping.rs`, which only benchmarks use.
- Secrecy: the properties are about what parties compute and accept, not what they learn.

## 7. Plan

Done: `Curve`, `PSU`, `TwoSided` with proofs and refinement, `RandomPermutation`,
`OneSided` with proofs, `ShuffleArgument`, `BatchedDDH`, `Transpose`, `Feistel`, `Mapping`,
`OTExtension`, `Wire`, `Sizes`, `Tests`. Proved: the safety
properties of all of these. Left:

1. Torsion: a `Curve` whose received points have a torsion part, and what of
   `AnswersAreBound` survives.
