# A TLA+ development for mastic (libprio-rs with Mastic's building blocks)

The repository implements verifiable distributed aggregation functions (VDAFs): a client
splits a measurement into shares, two (or more) aggregators check together that the shares
are those of a valid measurement and add up what they keep, and nobody sees a measurement.
This directory holds TLA+ modules that model the code, TLC configurations that check them
on small instances, and TLAPS proofs about the topology and the components below it. Paths below
are relative to the crate (`src/` of the repository).

## Inventory

| component | state | operations | talks to |
|---|---|---|---|
| ping-pong topology, `topology/ping_pong.rs` | per report and aggregator: a prepare state, or a `PingPongTransition` (previous state and current message) | `leader_initialized`, `helper_initialized`, `leader_continued`, `helper_continued`, `evaluate`, the codecs | calls a VDAF; exchanges `PingPongMessage`s with its peer; its caller stores and reloads |
| Prio3, `vdaf/prio3.rs` | prepare state: the measurement share (a helper's as a seed), the joint randomness seed | `shard`, `prepare_init`, `prepare_shares_to_prepare_message`, `prepare_next`, `aggregate`, `unshard` | the proofs, the XOF |
| Poplar1, `vdaf/poplar1.rs` | prepare state: sketch round one (shares of A and B, role) or two, the output share | the same, for a level and a list of prefixes | the IDPF, the XOF |
| IDPF, `idpf.rs` | a cache of tree nodes per key | `gen`, `eval`, the caches' `get` and `insert` | fixed-key XOF |
| proofs, `flp.rs`, `flp/types.rs`, `flp/gadgets.rs` | the values that shim gadgets record during one call | `prove`, `query`, `decide`, `truncate`; a circuit per type | FFT, polynomials |
| FFT and polynomials, `fft.rs`, `polynomial.rs` | a buffer | the transform, its inverse, evaluation, product | fields |
| fields, `field.rs`, `fp*.rs`, `field/field255.rs` | none | arithmetic, encodings | |
| VIDPF, `vidpf.rs` | evaluation state per node: seed, control bit, proof | `gen`, `eval`, `eval_next`, `node_proof` | XOF |
| SZK, `flp/szk.rs` | per aggregator: the query state kept for the decision | `prove`, `query`, `decide` | the proofs, the XOF |
| Prio2, `vdaf/prio2*` | prepare state: the data (a helper's as a seed) | the client's proof, verification message, decision | the recursive transform of `polynomial.rs`, HMAC |
| fixed-point vectors, `flp/types/fixedpoint_l2*` | none | a type with two gadgets | the proofs |
| VDAF traits and drivers, `vdaf.rs` | aggregate shares, partial and whole | `accumulate`, `merge`, `aggregate`, `unshard`, `run_vdaf`, `run_vdaf_prepare` | the VDAFs |
| binary tree, `bt.rs` | an append-only tree | `insert`, `get`, the pre-order codec | codec |
| PRNG and seed streams, `prng.rs`, `vdaf/xof.rs` | a buffer and a position; a block counter | `get`, `into_new_field`, `fill` | |
| codec, `codec.rs`, and the `Encode` and `Decode` of every message | a buffer, a cursor | integers, length-prefixed lists, the messages | everything |
| dummy VDAF; differential privacy, `dp*`; benchmarks, test vectors | | | |

What is hard here. The library runs no threads of its own but for one optional parallel
sum (`ParallelSumMultithreaded`); its concurrency is between the two aggregators that call it, whose messages may be
lost, repeated or late and who may crash between any two calls. What they must agree on (which
round, which messages, in which order the shares are combined, which half of a polynomial
whose role computes) is spread over both sides of the code. Below that there is algebra
written with indices: positions in a stream, slices of a vector of proofs, strides of roots
of unity, constants divided by the number of shares. A slip there passes the tests whose
parameters do not tell the difference. `PROJECT.json` lists the hazards line by line with
the properties aimed at each.

## Modules

| module | models | notes |
|---|---|---|
| `PingPong` | the topology, with the deployment around it | generic in the VDAF |
| `Preparation` | what preparing one report promises, without messages | abstract |
| `Driver` | the sequential driver of `vdaf.rs`, and the refinement mapping from `PingPong` to `Preparation` | `EXTENDS PingPong` |
| `MCPingPong` | a symbolic VDAF whose values record where they come from | up to four rounds, one failure at any call |
| `PingPong_proofs` | theorems about `PingPong`, `Driver` and `PingPongPoplar1` | TLAPS |
| `Idpf_proofs`, `Vidpf_proofs`, `Prng_proofs`, `BinaryTree_proofs`, `Montgomery_proofs`, `Aggregation_proofs` | theorems about the module of that name | TLAPS |
| `Integers_proofs` | induction over intervals, folds, recursion, division and congruences, for the proof modules | TLAPS |
| `Field` | field elements, vectors, bit vectors, their bytes, polynomials | integers modulo `P` |
| `Montgomery` | the machine arithmetic below `Field`: words, carries, reduction | |
| `Fft`, `MCFft` | the transform, as a state machine of levels | |
| `Flp`, `MCFlp` | proofs and the types Count, Sum, Average, Histogram, SumVec, FixedPoint | `EXTENDS Fft` |
| `ParallelSum`, `MCParallelSum` | the gadget sums on polynomials, by one thread and by a pool | `EXTENDS Flp` |
| `MCArithmetic` | `Montgomery`, `MCFft`, `MCParallelSum` and `MCProofs`, one at a time | |
| `MCWideModulus` | `Montgomery` with a modulus that leaves no room above it | products only |
| `Szk`, `MCSzk`; `MCProofs` | the two-party proofs; they and `MCFlp`, one at a time | `EXTENDS Flp` |
| `Prio3`, `MCPingPongPrio3` | Prio3; Prio3 run by the topology | `EXTENDS Flp`, instantiates `PingPong`'s VDAF |
| `Prio2`, `MCPingPongPrio` | Prio2; Prio3 or Prio2 run by the topology | `EXTENDS Fft`, instantiates `PingPong`'s VDAF |
| `Poplar1` | Poplar1 | `EXTENDS Field` |
| `PingPongPoplar1`, `MCPingPongPoplar1` | Poplar1 run by the topology: what a job is, and what is promised of it | `EXTENDS Driver, Poplar1` |
| `Aggregation` | a batch from output shares to the collector's result | generic in the VDAF |
| `HeavyHitters` | the collector's search for what enough clients sent, and what is promised of it | `EXTENDS Aggregation, Poplar1` |
| `MCAggregation` | Prio3 batches, and Poplar1 batches with the search down the tree | instantiates `Aggregation`'s VDAF |
| `Idpf`, `Vidpf`, `MCDpf` | keys, their evaluation, the caches, the node proofs | |
| `Codec`, `Messages`, `MCCodec` | integers and lists; the messages; buffers of them | |
| `Prng`, `MCPrng` | field elements drawn from a buffered seed stream | loops step by step |
| `BinaryTree` | the append-only tree and its codec | loops step by step |
| `MCEncodings` | `BinaryTree` and `MCCodec`, one at a time | |

Definitions carry the names of the functions they model; `PROJECT.json` maps each to its
lines. A definition whose name extends another one's and whose comment begins with "Fault:"
is a plausible bug in it: the development shows for every property that it would be noticed.

### PingPong

The variables hold what each aggregator has stored for one report: `phase` says whether that
is nothing, a prepare state (`Continued`), a `PingPongTransition` (`Transition`), the output
share of a `FinishedNoMessage`, or that a handler returned an error (`Rejected`);
`prep_state` and `prep_msg` are the stored values. `net` is the set of messages on the way: a
message stays in it when it is delivered (duplication), any of it may be delivered next
(reordering), and `Lose` removes one. `hist` and `shares` are history variables: the prepare
messages adopted and the prepare shares produced, round by round.

Each handler is one action with all its outcomes (`LeaderInitialized`, `HelperInitialized`,
`Continued`, with every error in the order of the code's checks in `continued` and
`helper_init`); `Evaluate` is `PingPongTransition::evaluate` and the sending of what it
returns; `Restart` is a crash after which the state is decoded from its encoding;
`LateMessage` is a handler called although the host has finished, which is an error that
changes nothing. The state after evaluating a transition is not stored: the documentation lets
the deployment keep the transition instead, and `host_prep_state` evaluates it when it is
needed, so that the model covers both ways.

The deployment is not part of the repository. What the model lets it do is what the trait's
documentation describes. One thing the topology cannot do is to match a message with its
round; `CallerChecksStep` says whether the deployment does (DAP does, with a step number).

### Preparation and Driver

`Preparation` is what a user of the topology wants: each aggregator decides at most once,
finishes only with the output share that is its own, rejects only a report that cannot be
prepared (`DecidesRightly`, the part about safety), and does decide. What can be prepared is
defined by the sequential driver, `run_vdaf_prepare` of `vdaf.rs`, which runs the rounds in one
process; `Driver` translates it. `turns` is its loop, turn after turn: every aggregator has a state
and a share on the table, or the loop has ended with what each obtained. The loop of the code has
no bound; `Rounds` is one for the VDAFs at hand. The driver takes three things for granted with
`expect` and panic!: every aggregator can read the shares and messages of its round, the
aggregators finish together, and they do finish. They are the ASSUME `RoundContract`, which TLC
evaluates for the symbolic VDAF, Poplar1, Prio3 and Prio2.
`ImplementsDriver` says that the topology, over its network and through its crashes, implements
`Preparation` with the driver's outcomes under the mapping that reads the decision and the
output share off the stored state or transition. The outcomes are per aggregator because they
can differ: a VDAF that fails at one aggregator in the last round has let the other one finish.
This is the point where a deployment needs more than the library gives it.

### VDAFs

`PingPong` takes the VDAF as constants: types, `prepare_init`, combination, `prepare_next`,
decoders under a state, and the state codec, with a contract as ASSUMEs (calls return values
of their types; a state survives encoding and decoding by the aggregator that stored it). TLC
evaluates the contract for each VDAF a run uses: for Poplar1, Prio3 and Prio2 this is where it
is checked that leaving `is_leader`, `agg_id` and the kind of a share out of the encoding loses
nothing.

XOFs are functions of seed, tag and position. In Prio3 and `Szk` the seeds obtained by hashing
are the tuples of what is hashed, so they collide only if the inputs do. Poplar1 uses the IDPF by
its promise (shares at a prefix sum to the programmed value), which `Idpf` checks of the code.
`PingPongPoplar1` says what it is for the topology to run Poplar1 (`RunsPoplar1`) on reports that
stand for jobs, an upload and an aggregation parameter each (`JobsOfPoplar1`): an honest one
programs the path of a measurement, any other one any values. `MCPingPongPoplar1` has both as an
ASSUME.
In `Vidpf` a proof is a set of hash values, since the code combines them by exclusive or.

### Proofs and arithmetic

`Flp` follows `prove`, `query` and `decide` for types with several gadgets, each with its own
seeds, wire polynomials and slice of the proof. A type is a record with the lengths that the code
states by hand; `prove` and `query` build vectors whose lengths are compared with them. A vector
of fixed-point numbers is a sequence of integers (multiples of the last bit); `FixedPoint` has
the range checks and the norm, a `PolyEval` sum with padding that is not zero.

Gadgets write polynomials into a buffer that holds something already. `mul_poly` and `eval_poly`
therefore take the buffer and return what it holds afterwards: `Mul` by FFT overwrites all of it,
`Mul` directly as many coefficients as the product has once its leading zeros are dropped
(`poly_mul`), and `PolyEval` clears it first. `gadget_call_poly` is `ParallelSum::call_poly`, one
buffer for all the chunks. `keeps` says when a coefficient survives from an earlier chunk, in terms
of the lengths of the products, and `spoilt` when that happened as a proof was made.

`ParallelSum` is what rayon may do with `ParallelSumMultithreaded::call_poly`: chunks are split
into segments, a thread folds a segment with one output buffer for all its chunks, and
neighbouring results are reduced in any order.

`Montgomery` has the number of values of a word as a constant, `B`; moduli take one or two words.
Every operation is what the code computes with wrapping words and carries, and what it drops: of
the two reduction rows in `fp.rs` the first one's carry out of the highest word. The integer that
the element stands for is carried along and compared. `powers` is the reference for `pow`.

### Aggregation

Every aggregator keeps several partial aggregate shares. It adds output shares to any of them in
any order, merges two, stores and reloads them, and hands their sum to the collector, which
unshards and, for Poplar1, computes, encodes and hands back the next aggregation parameter. A
share of the previous level that turns up late is offered to the accumulator when its shape is
different: such a share the code has to refuse. `StepsAreOneShot` compares the steps with a single
call of `aggregate`. When field and length are the same, only a
deployment that keeps batches apart can tell.

### Codec and Messages

A byte has `ByteBits` bits, so that integers reach their limits. `Messages` has what each message
writes and how its decoder, with what it is told (an aggregator, a state, a level), reads it. In
`MCCodec` messages are written behind one another into one buffer and read back, intact or after
a byte was changed, lost or added.

### Prng and BinaryTree

Both have loops whose correctness is in the state between two turns, so a turn is a step. In
`Prng` the history variables `cursor` and `expected` belong to a reader that has no buffer
(`generate_random` of `field.rs`), and `stream` repeats after `Period` bytes so that positions
stay finite; the ASSUME asks that every field meets an element in each stream, which random
streams do, and that a chunk of one field fits another field's buffer, as in the code. In
`BinaryTree` a tree is a function on paths, and `stack` holds the slots that the codec has yet
to visit. The root is treated as the first slot: the code's separate treatment of it, in
`BinaryTree` and at the head of `Node`, does the same.

## Runs

| run | question | bounds |
|---|---|---|
| `ping_pong` | Do the aggregators agree on rounds and messages, does an outcome last, and do they implement the sequential driver? | 1 to 4 rounds (both parities of finishing, twice), at most one failing call, any losses, repetitions and crashes |
| `poplar1` | Does preparation decide what the sketch says? | F_5, 3 levels, levels of 8 bits, 2 seeds of each kind, one or two prefixes, five kinds of upload |
| `poplar1_replay` | What holds without a deployment that matches rounds? | the same with one seed |
| `poplar1_wide` | Is an honest report ever rejected in a very deep tree? (violated) | levels of 3 bits instead of 16, 5 levels |
| `prio` | What is accepted, who rejects, and what do the output shares add up to? | F_41; Prio3 with a Histogram of 3 buckets in chunks of 2, two proofs, four keys (one yields a root of unity for the first proof, one for the second), a second honest client with a spoilt proof; Prio2 with vectors of 2 elements, three keys; uploads malformed in each part |
| `proofs` | Complete, linear, sound? What do two parties decide? Is the arithmetic below that of a field, the transform that of the polynomial, the sum of gadgets exact? | F_97, eight types (one to eight calls, one or two gadgets, padded last chunks, products by FFT and direct, wire polynomials with and without a leading coefficient), 2 and 3 shares; the fixed-point vectors have 1 and 5 entries, 25 are refused; for the two parties Count, Sum and Histogram, four keys (one yields a root of unity). Words of 3 bits, moduli 3, 5, 7 of one word and 5, 37, 53 of two (53 is the largest prime with room for a word above it); transforms of sizes 1, 2, 4, 8, inputs of any length up to the size; sums of up to 4 chunks, with products of equal, falling and rising length |
| `parallel_sum` | Do threads compute the sum that one thread computes? (violated) | the sums of `proofs` |
| `dpf` | Point functions? Is the cache invisible? Do the proofs vouch? | 3 levels, seeds of 3 bits, four reports, each cache, rings of capacity 0 and 2; VIDPF: inputs of 2 and 3 bits, one correction of one server damaged in any of its parts |
| `aggregation` | Is aggregation in steps aggregation at once? Does the collector get the aggregate, and all heavy hitters? | F_97, three clients of which one may cheat, two partial shares per aggregator; Prio3 with six types and three aggregators, sums beyond the modulus, and averages of sums within and beyond a word; Poplar1 with 3 levels, threshold 2 |
| `wide_modulus` | Is it that of a field for every prime of two words? (violated) | words of 5 bits, the modulus 1021 |
| `prng` | Can the buffer be observed? Does every draw end? | fields of 1, 2 and 3 bytes, blocks of 5, buffers of 3 elements, three streams: every length of left-over bytes occurs at every place of a block |
| `encodings` | Is the tree append-only, and does its encoding say exactly what it holds? Do the messages' encodings? | 7 nodes, values that are and are not markers, all strings of up to 7 bytes over 0..2; messages with bytes of 4 bits, seeds of 2 bytes (1 for the IDPF), 3 levels, one or two in a buffer |

Three runs put independent computations side by side (`MCArithmetic` with `MCProofs`, `MCDpf`,
`MCEncodings`): an initial state chooses one of them and the variables of the others stay as they
are.

Deadlock is checked in `prng` only: a preparation, a search, a computation ends, and bytes that
are no encoding end the calls of `encodings`. The bound on rounds is the VDAF's; nothing else in
`PingPong` is bounded, since the sets of messages are finite for a finite number of rounds. In
small fields an XOF collides often; the properties are therefore stated as equivalences with what
the whole, unshared values say, which hold for every value, and not as the improbability of an
accident. `Soundness`, `CircuitIsSound` and `DecidesOnBits` count the accidents over the whole
field instead.

What the runs show beyond the expected:

* `poplar1_replay`: without matching rounds, an honest report can be rejected by a late
  message, but two aggregators that finish still agree, a finished one stays finished, and a
  stored transition can always be read back: Poplar1's two rounds have messages of different
  shapes.
* `prio`: with joint randomness parts that do not belong to the shares, the helper may finish
  with an output share while the leader rejects the report; `SplitVerdictIsTheClients` says
  that only such a client causes it. A deployment has to settle which reports both have. The
  same holds of the two parties in `SzkDecides`.
* `poplar1_wide`: `3 * agg_param.level` at `vdaf/poplar1.rs:1072` is a product of `u16`s. The
  aggregation parameter admits levels up to 65535; from 21846 on a release build reads the
  wrong offsets and rejects honest reports, and a debug build panics. The run scales the width
  down to three bits.
* `parallel_sum`: the comment at `flp/gadgets.rs:357-362` says that the threads compute what one
  thread does, "since we only rearrange additions". But `Mul::call_poly_direct` writes only
  `outp[..v.len()]` (`flp/gadgets.rs:53`), `poly_mul` has dropped the leading zeros of `v`
  (`polynomial.rs:198`), and the buffer is that of the chunk before. When a product is shorter than
  an earlier one, coefficients of the earlier one are added again, and which ones depends on how the
  chunks were divided. Neither sum is then the gadget's polynomial, and `gadget_test`'s "calling
  g.call_poly() and evaluating the output at a given point is equivalent to evaluating each of the
  inputs" does not hold. What does hold is `SumIsExactWhereWritten`, coefficient by coefficient. The
  consequence for users is in `Completeness` and `HonestRejectedOnlyByChance`: an honest proof with
  several `Mul` chunks and wire polynomials shorter than `FFT_THRESHOLD` is rejected when a wire
  polynomial of a later chunk loses its leading coefficient and none before it does. The wires'
  seeds are random, so in the fields of the crate this is as improbable as a root of unity as query
  randomness; in F_41 and F_97 it happens, and the runs have clients to whom it does. Clearing the
  rest of `outp` in `call_poly_direct` would remove it.
* `wide_modulus`: `fp.rs:3` is about "any field GF(p) for which p < 2^128". The first reduction row
  drops the carry out of the highest word (`fp.rs:161`), which can be set when p is within 2^64 of
  2^128; a few products are then wrong. The moduli of the crate are not that large: `RoomAbove`
  says so, and with it the proof goes through. Words of 5 bits are the shortest for which a prime
  shows it with operands that are both below p.
* `dpf`: node proofs do not cover the weight corrections. Servers with different weight
  corrections have equal proofs and shares that do not add up; `ProofsVouch` leaves them out.
* `aggregation`: sums are taken modulo the field without a check; `Sum` with 6 bits in F_97 wraps.
* Two comments differ from the code that the models follow. `idpf.rs:672-674` says that the
  control bits of the first four levels end up in the last byte, but `idpf.rs:675-688` put them
  into the first one, as `Messages.pack` does. `field.rs:430` says that a field element stores
  `n * R^-1 mod p`, but `fp.rs:247` stores `n * R mod p`, as `Montgomery.montgomery` does.

### Fairness

`ImplementsDriver` assumes `Fairness`: a leader that may initialize and an aggregator with a
stored transition eventually do (weak fairness: the deployment's job queue retries), and a handler
for which a message is there again and again is eventually called (strong fairness: a message may
be lost, but one that is sent for ever is not lost for ever). Nothing is assumed of losses and
crashes, nor that a call succeeds. `GetReturns` assumes that a running `get` is not suspended for
ever; its loop has nothing to wait for.

## Proofs

TLC shows the properties of small instances; the theorems are about every value of the constants.

| module | theorem | property | assumes |
|---|---|---|---|
| `PingPong_proofs` | `TypeCorrect` | `TypeOK` | the VDAF contract |
| | `RoundsAgree`, `RoundsKeepFaith`, `FinishesAgree`, `OutcomesAreFinal` | `Lockstep`, `RoundsAreFaithful`, `FinishAgreement`, `OutcomeIsFinal` | and `CallerChecksStep` |
| | `StaysInSync`, `TransitionsAreReadable` | `InSync`, `TransitionReadable` | and `RoundContract` |
| | `TopologyImplementsDriver` | `Sequential!DecidesRightly` | the same |
| | `SketchDecides`, `HonestReportsPass`, `OutputSharesAddUp` | `AcceptsBySketch`, `HonestNeverRejected`, `OutputsAddUp` | and `Poplar1Deployed`: `RunsPoplar1`, `JobsOfPoplar1`, streams of field elements, `NoWrap` |
| `Idpf_proofs` | `CachesAreSound`, `SharesArePointFunction` | `CacheIsSound`, `PointFunction` | types of what the XOF yields |
| `Vidpf_proofs` | `VidpfSharesArePointFunction` | `VidpfPointFunction` | `VidpfContract`: the same |
| `Prng_proofs` | `BufferCannotBeObserved` | `BufferIsInvisible` | sizes of elements and buffers |
| `BinaryTree_proofs` | `TreesAreRestored`, `TreeOnlyGrows`, `EncodingIsCanonical` | `RoundTrip`, `AppendOnly`, `Canonical` | values are bytes |
| `Aggregation_proofs` | `StepwiseIsOneShot` | `StepsAreOneShot` | `VdafContract` |
| | `ResultIsOfTheOutputs` | `CollectsOutputs` of every step that collects | and `UnshardContract` |
| | `Poplar1KeepsTheContract` | `SumContract`, `ShapeContract`, `UnshardContract` | `IsPoplar1` |
| | `CollectorCounts` | `CountsAreExact` | `IsPoplar1`, `CountContract`, the rest of `VdafContract` |
| | `SearchIsComplete` | `FindsHeavyHitters` | and `SearchContract` |
| `Montgomery_proofs` | `FieldArithmeticIsExact` | `FieldIsExact` | p < R, p has no factor in common with `B` (`mu` exists); `RoomAbove`, `PrimeModuli` |

**Topology.** The invariants are not inductive as they stand. `IInv` adds what connects the stored
values to the history: the first share of each aggregator is what `prepare_init` returns for the
report (`FirstShares`), so that initializing again changes nothing; a stored transition's message
is the last one in `hist`, and evaluating it again yields the share already recorded (`Stored`);
`helper_initialized` called again computes what the helper has stored (`HelperRetry`); a `Finish`
on the wire comes from an aggregator whose stored transition finishes, in that round
(`FinishSent`); and two stored transitions are never of the same round (`Alternation`), without
which both could produce the next message. There is a lemma per action, `IInvStep` puts them
together, and the theorems follow.

**Driver.** Both aggregators and the driver compute the same things, but the aggregators at
different times and from what they stored. `DInv` is `IInv` with two parts more: `Tracks` (an
aggregator that has adopted n messages has the state of turn n of the driver, the shares and the
messages of the history are the driver's, and a rejection is one of a report on which the driver
fails) and `InSync`. From `Tracks` the contract of the driver's rounds says what can be read by
whom. The refinement of the safety part of `Preparation` is then one step per action: a decision is
the driver's or the step is a stutter.

**Poplar1.** The topology decides what the driver decides, so what is left is the driver's two
turns on a job (`DriverDecides`). A sum in the field is linear (`TotalAdds`), so the shares of the
sketch add up to the sketch of the programmed values plus the offsets a, b and c: the masks of the
IDPF cancel (`EvalsAddUp`), and both sides read the offsets at the same place of their streams
(`OffsetsAgree`, the only place that needs `NoWrap`; `poplar1_wide` shows what happens without it).
In the second turn the shares of A and B, and the quadratic part that only the helper adds, leave
exactly the sketch's polynomial (`Cancels`, `VerifiersDecide`), which is zero or the report is
rejected. For an honest report the candidates, in lexicographic order, are distinct
(`PrecedesOrders`, `PrefixesDiffer`), so at most one is on the path of the measurement, and the
polynomial vanishes on one value and its authenticator (`HonestSketchHolds`). TLC evaluates
`RunsPoplar1` and `JobsOfPoplar1` for the instances of the runs; that a stream consists of field
elements quantifies over all seeds and positions, and is what a `Prng` yields by its type.

**Aggregation.** `VdafContract` says that aggregate shares of a parameter have a commutative and
associative addition with a neutral element, that `aggregate` adds one after the other, that shares
survive their codec, that shares of another shape are refused, and that preparation yields a share
per aggregator. The inductive invariant is a conservation law (`Conserved`): the partial shares of
an aggregator add up to the sum of the output shares that it has taken, in any order of them. That a
sum does not depend on the order is an induction that takes one element out of the sequence
(`Without`). The collector has one sum per aggregator and the reports have one per report; that the
sums of a matrix by rows and by columns agree relates the two (`CollectCollects`).
`Poplar1KeepsTheContract` shows of `zero`, `accumulate`, `aggregate` and `unshard` of Poplar1 what
the contract asks of sums, shapes and the collector.

**Heavy hitters.** `CountContract` says that a prepared report counts once for each candidate that
its measurement has and not at all for the others, that honest reports are prepared, and that there
are fewer reports than the field and the result's integers can count. That is what
`HonestReportsPass` and `OutputSharesAddUp` show of preparation for honest reports; of a cheating
one the sketch says it but for an accident in the choice of the verification randomness, so it is an
assumption here. TLC evaluates it for the reports of `aggregation`, the cheating one included
(`ReportsCountOnce`). `CInv` adds to the invariant of the aggregation that the output shares are
those of the current parameter and that every result collected so far is exact; the sum of vectors
of zeros and ones is the number of reports with a prefix by an induction over the reports
(`CountsAddUp`), in which no remainder is ever taken. For the search, `SInv` says that the
candidates are of one length and cover every heavy measurement (`Covers`). A level keeps it: the
prefix of a heavy measurement is at least as frequent as the measurement, among more reports
(`CountGrows`), so both children of it are next (`NextPrefixes`, an induction over the fold), and one
of them is the longer prefix of the measurement (`PrefixGrows`). `SearchContract` says which
parameter the collector begins with and that the next one reaches the aggregators as it was
computed. Two codecs are assumed, those of aggregate shares and of parameters, which the run checks:
they pack bits and bytes with powers of two, which the provers do not have.

**IDPF.** `IInv` says of every cache entry that it is the state of the tree at its prefix
(`TrueEntry`) and of the last answer that it is the share there (`AnswerIsShare`). That the tree's
shares make a point function is an induction over levels: on the path the two control bits differ
and the correction makes up the value, at the node where a prefix leaves the path seeds and bits
become equal, and below it they stay so and the shares cancel.

**VIDPF.** The argument is the same, with seeds as sets, weights as vectors and a proof per node
(`OnPath`, `OffPath`, `Twins`); key generation is a fold, whose places are the function N of
`Generated`. `IInv` says that the public shares are what the client sent and that every state a
server keeps is the one of a whole evaluation. Nothing is said of damaged shares.

**PRNG.** `IInv` puts the buffer, the position in it and the bytes that it was filled with next to
the cursor of a reader without a buffer; `Searching` covers the state between two turns of the
loop, where the reader has already decided and the buffer may be empty.

**Binary tree.** Decoding follows an encoding that happened earlier. `IInv` has a witness for it:
the positions at which the encoder visited each slot (`EncoderRan`) and that the decoder visits the
same slots at the same positions (`DecoderFollows`); `Hangs` says that every node hangs below one
that is there. For bytes from elsewhere (`CInv`) the witness is what the decoder itself has visited
(`DecoderReads`). The reference encoding is a recursive function of the finished tree; reading the
turns backwards shows that the bytes ahead of every turn are the encodings of the slots then on the
stack, one behind the other (`Ahead`, `TurnBack`), and the first turn has the root's slot alone.

**Field arithmetic.** An element x stands for n when x is below p and congruent to n R modulo p
(`Stands`); `Represents`, the inductive invariant, says so of the state. `Row` says of a row of words
and carries that it adds what it should (an induction over the words, since `carry` is a recursive
function), `ProductOfOne` and `ProductOfTwo` that the rows make the product, `ZeroWord` that `reduce`
makes a word zero, and `RowHasRoom` that the carry which `fp.rs` drops is zero under `RoomAbove`.
`Reduced` puts this together: the result is (x y + p m) / R below 2p, so that `subtract_once` has to
subtract once at most. R has an inverse modulo p because `mu` exists (`RInverse`), so that R can be
cancelled; the operations follow. `pow` is an induction over the bits of the exponent (`PowStep`,
with `PowersAdd`). `PrimeModuli`, that k^(p-1) = 1 modulo p, stands for primality: Fermat's little theorem
is a fact about primes and not about this code. TLC evaluates both assumptions for the moduli of
`proofs`; both hold of the moduli in `fp.rs` and `fp64.rs`.

The library's induction theorems have operator parameters, which the provers cannot instantiate.
`Integers_proofs` therefore proves induction in the form of sets (`IntervalInduction`: a set that
has 0 and with k its successor has the interval), and from it that folds and recursive functions with
a typed step exist (`FoldExists`, `Recursion`), division with a remainder, and the congruences that
the field arithmetic and Poplar1 calculate with (`Cong`).

Only model-checked:

* Liveness: `Decides` within `ImplementsDriver`, and `GetReturns`. Fairness and ENABLED are out of
  the prover's reach.
* `ProofsVouch`: it is false for an XOF with collisions; in the run hash values are free terms.
* What Prio3 and Prio2 decide, and the proofs, the FFT and SZK below them: completeness needs that
  a polynomial is determined by its values, and soundness counts roots.
* The results of Prio3 in terms of the measurements (`CollectsTheAggregate`): aggregation is proved,
  the types' encodings and what the proofs accept are not. That
  all honest reports are counted is checked for the measurements and the randomness of the run,
  which meet neither a root of unity nor a spoilt proof.
* The sums of gadgets, serial and parallel (`SumIsExactWhereWritten`): the buffer is proved about
  nowhere.
* The messages' encodings: each is a concatenation whose lengths depend on the VDAF.

## Not modelled

* Differential privacy (`dp.rs`, `dp/distributions.rs`) and the `add_noise` functions of the
  types: what they promise is a probability distribution, which neither tool can state.
* The cryptographic primitives: XOFs, AES, HMAC and hashes are functions or free terms.
* `field/field255.rs`: its limbs are computed by generated code outside the repository; in
  `Poplar1` its elements are those of the field of leaves.
* The conversion between floating-point and fixed-point numbers
  (`fixedpoint_l2/compatible_float.rs`): its rounding belongs to the noise.
* Prio2's `aggregate` and `unshard`, which are the vector sums that `Aggregation` has for Prio3,
  and the test-only server in `vdaf/prio2/server.rs`.
* Checks of lengths that hold by construction in the models: the arguments of `prove`, `query` and
  `decide`, of the gadgets' calls, of the input and proof shares in `shard`, and of `unpack_proof`
  in `vdaf/prio2/client.rs:157-160`. Vectors have the lengths that the decoders in `Messages` fix;
  what a caller of the library is told about a vector of another length is not in the models.
* The dummy VDAF's arithmetic; benchmarks, test vectors and binaries.

## Plan

Done: the topology and its proofs, Poplar1, Prio3 and Prio2 under it, the abstract specification
it implements, the proofs and the arithmetic they rest on, the point functions with their
caches, aggregation, the codecs, the PRNG and the binary tree.

Proved: the topology against the sequential driver, what Poplar1 decides and outputs over it, the
point functions, the buffer of the PRNG, the tree's codec, aggregation in steps and the
search for heavy hitters, the field arithmetic.

Left, proofs:
1. `MessagesAreRestored`, from a lemma about the codec of each part and one about concatenation; with
   it the two codecs that the theorems on heavy hitters assume.
2. The transform: `BlocksAreTransforms` is an induction over levels, and with the inverse it is the
   interpolation that the completeness of the proofs needs.
