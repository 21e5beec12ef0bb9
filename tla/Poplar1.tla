------------------------------- MODULE Poplar1 ------------------------------
(***************************************************************************)
(* The two-round preparation of src/vdaf/poplar1.rs: sharding of the       *)
(* correlated randomness, the sketch of the IDPF values at the candidate   *)
(* prefixes, its verification, and the encoding of the prepare state.      *)
(*                                                                         *)
(* Field64 (inner levels) and Field255 (leaves) are told apart by a kind.  *)
(* Seeds are expanded by Xof(seed, dst, i), the i-th field element of the  *)
(* stream.  The IDPF is used through what it promises: the two shares at a *)
(* prefix sum to the value programmed there.                               *)
(***************************************************************************)
EXTENDS Field

CONSTANTS
    Bits,         \* the length of a measurement
    LevelWidth,   \* the width in bits of agg_param.level (16 in the code)
    MaxCount,     \* the largest count an aggregate result holds (2^64 - 1 in the code)
    Xof(_, _, _)  \* seed, domain separation tag, index (from 1)

ASSUME ParameterAssumption == Bits \in Nat \ {0} /\ LevelWidth \in Nat \ {0} /\ MaxCount \in Nat

Kind == {"Inner", "Leaf"}
Prefix == UNION {[1..n -> {0, 1}] : n \in 1..Bits}
Level(prefix) == Len(prefix) - 1

-----------------------------------------------------------------------------
\* Sharding.  seeds.corr[a] is aggregator a's corr_seed, seeds.shard the seed of
\* the client's own randomness, seeds.idpf what the IDPF masks are derived from.

\* The authenticator of a level: the inner ones, then the leaf's.
auth(seeds, level) == Xof(seeds.shard, <<"shard">>, level + 1)

\* Aggregator a's shares of the offsets a, b and c of a level: the inner levels
\* take three elements each from one stream, the leaf level has its own stream.
corr_offsets(a, seeds, level) ==
    IF level < Bits - 1
    THEN [i \in 1..3 |-> Xof(seeds.corr[a + 1], <<"corr_inner", a>>, 3 * level + i)]
    ELSE [i \in 1..3 |-> Xof(seeds.corr[a + 1], <<"corr_leaf", a>>, i)]

\* Shares of A and B for a level, the leader's and the helper's.
compute_next_corr_shares(seeds, level) ==
    LET abc == merge_vector(corr_offsets(0, seeds, level), corr_offsets(1, seeds, level))
        a == abc[1]
        k == auth(seeds, level)
        A == (k - 2 * a) % P
        B == (a * a + abc[2] - a * k + abc[3]) % P
        corr_1 == [i \in 1..2 |-> Xof(seeds.shard, <<"shard">>, Bits + 2 * level + i)]
    IN  <<[i \in 1..2 |-> (<<A, B>>[i] - corr_1[i]) % P], corr_1>>

\* What shard_with_random leaves for the aggregators: the values programmed into
\* the IDPF along the path of the measurement, and the correlated randomness.
shard(measurement, seeds) ==
    [values |-> [p \in Prefix |->
                    IF IsPrefix(p, measurement) THEN <<1, auth(seeds, Level(p))>> ELSE <<0, 0>>],
     seeds |-> seeds,
     corr |-> [level \in 0..Bits - 1 |-> compute_next_corr_shares(seeds, level)]]

-----------------------------------------------------------------------------
\* Preparation of a job: an upload, and the aggregation parameter (prefixes of
\* one length, hence one level) to prepare it for.
LevelOf(job) == Level(job.prefixes[1])

\* Aggregator a's share of the value at a prefix: a pseudorandom mask, and the
\* value minus that mask.
idpf_eval(a, upload, prefix) ==
    LET mask == [i \in 1..2 |-> Xof(upload.seeds.idpf, <<"idpf">> \o prefix, i)]
    IN  IF a = 0 THEN mask
        ELSE [i \in 1..2 |-> (upload.values[prefix][i] - mask[i]) % P]

\* Fault: one element of the stream is skipped for every level, not three.
fast_forward_single(level) == level

\* Elements of the inner stream skipped before a level's: `3 * agg_param.level`
\* is computed at the width of the level, and wraps in a release build.
fast_forward(level) == (3 * level) % 2^LevelWidth

sketch_offsets(a, job) ==
    LET seed == job.upload.seeds.corr[a + 1]
        level == LevelOf(job)
    IN  IF level < Bits - 1
        THEN [i \in 1..3 |-> Xof(seed, <<"corr_inner", a>>, fast_forward(level) + i)]
        ELSE [i \in 1..3 |-> Xof(seed, <<"corr_leaf", a>>, i)]

\* The elements of the verification key's stream, one for every prefix.
verify_rand(job) ==
    [i \in 1..Len(job.prefixes) |-> Xof(job.verify_key, <<"verify", LevelOf(job)>>, i)]

\* The sketch of values with the random elements r: <<sum x r, sum x r^2, sum auth r>>.
total(v) == FoldLeft(LAMBDA acc, x : (acc + x) % P, 0, v)
sketch_of(values, r) ==
    <<total([i \in DOMAIN values |-> values[i][1] * r[i]]),
      total([i \in DOMAIN values |-> values[i][1] * r[i] * r[i]]),
      total([i \in DOMAIN values |-> values[i][2] * r[i]])>>

eval_at(a, job) == [i \in 1..Len(job.prefixes) |-> idpf_eval(a, job.upload, job.prefixes[i])]

\* Fault: the authenticators are returned as the output share.
eval_and_sketch_auth(a, job) ==
    [out |-> [i \in 1..Len(job.prefixes) |-> eval_at(a, job)[i][2]],
     sketch |-> merge_vector(sketch_offsets(a, job), sketch_of(eval_at(a, job), verify_rand(job)))]

\* The output share, and the share of the sketch with the offsets a, b and c.
eval_and_sketch(a, job) ==
    [out |-> [i \in 1..Len(job.prefixes) |-> eval_at(a, job)[i][1]],
     sketch |-> merge_vector(sketch_offsets(a, job), sketch_of(eval_at(a, job), verify_rand(job)))]

FieldVec(kind, elems) == [kind |-> kind, elems |-> elems]

\* Fails when a prefix is longer than a measurement (the IDPF refuses it).
prepare_init(a, job) ==
    LET level == LevelOf(job)
        kind == IF level < Bits - 1 THEN "Inner" ELSE "Leaf"
        e == eval_and_sketch(a, job)
        corr == job.upload.corr[level][a + 1]
    IN  IF level >= Bits THEN [ok |-> FALSE]
        ELSE [ok |-> TRUE,
              state |-> [kind |-> kind, round |-> 1, A |-> corr[1], B |-> corr[2],
                         is_leader |-> a = 0, out |-> e.out],
              share |-> FieldVec(kind, e.sketch)]

\* The sum of the two shares: three elements are the sketch; a single element
\* is the verifier, which must be zero and is sent as an empty message.
prepare_shares_to_prepare_message(l, h) ==
    LET sum == merge_vector(l.elems, h.elems)
    IN  IF l.kind # h.kind \/ Len(l.elems) # Len(h.elems) THEN [ok |-> FALSE]
        ELSE IF Len(sum) = 3
             THEN [ok |-> TRUE, msg |-> [kind |-> l.kind, sketch |-> sum]]
        ELSE IF sum = <<0>> THEN [ok |-> TRUE, msg |-> [kind |-> "Done"]]
        ELSE [ok |-> FALSE]

\* Fault: the quadratic part of the sketch is left out on both sides.
finish_sketch_linear(sketch, s) == <<(s.A * sketch[1] + s.B) % P>>

finish_sketch(sketch, s) ==
    LET own == s.A * sketch[1] + s.B
    IN  IF s.is_leader THEN <<own % P>>
        ELSE <<(own + sketch[1] * sketch[1] - sketch[2] - sketch[3]) % P>>

RoundTwo(s) == [kind |-> s.kind, round |-> 2, out |-> s.out]

prepare_next(s, m) ==
    IF s.round = 1 /\ m.kind = s.kind
    THEN [tag |-> "Continue", state |-> RoundTwo(s),
          share |-> FieldVec(s.kind, finish_sketch(m.sketch, s))]
    ELSE IF s.round = 2 /\ m.kind = "Done"
    THEN [tag |-> "Finish", out |-> FieldVec(s.kind, s.out)]
    ELSE [tag |-> "Err"]

-----------------------------------------------------------------------------
\* The codecs.  Bytes do not carry a kind or a length: a share or a message
\* parses under a state when it is made of the elements the state expects.
decodes_share(s, share) ==
    share.kind = s.kind /\ Len(share.elems) = (IF s.round = 1 THEN 3 ELSE 1)

decodes_msg(s, m) == m.kind = (IF s.round = 1 THEN s.kind ELSE "Done")

\* is_leader is not encoded; the decoder takes it from the aggregator's ID.
encode_state(s) ==
    IF s.round = 1
    THEN [kind |-> s.kind, round |-> 1, A |-> s.A, B |-> s.B, out |-> s.out]
    ELSE s

decode_state(a, e) ==
    IF e.round = 1
    THEN [kind |-> e.kind, round |-> 1, A |-> e.A, B |-> e.B, is_leader |-> a = 0,
          out |-> e.out]
    ELSE e

-----------------------------------------------------------------------------
\* Aggregation.  A vector is of the inner or of the leaf field, by its level.
IsLeaf(prefixes) == Level(prefixes[1]) = Bits - 1

zero(is_leaf, len) == FieldVec(IF is_leaf THEN "Leaf" ELSE "Inner", [i \in 1..len |-> 0])

\* Fault: the fields are not compared.
accumulate_any_field(x, y) ==
    IF Len(x.elems) = Len(y.elems)
    THEN [ok |-> TRUE, share |-> FieldVec(x.kind, merge_vector(x.elems, y.elems))]
    ELSE [ok |-> FALSE]

\* merge and accumulate; an output share is an aggregate share.
accumulate(x, y) ==
    IF x.kind = y.kind /\ Len(x.elems) = Len(y.elems)
    THEN [ok |-> TRUE, share |-> FieldVec(x.kind, merge_vector(x.elems, y.elems))]
    ELSE [ok |-> FALSE]

aggregate(prefixes, shares) ==
    FoldLeft(LAMBDA acc, s : IF acc.ok THEN accumulate(acc.share, s) ELSE acc,
             [ok |-> TRUE, share |-> zero(IsLeaf(prefixes), Len(prefixes))], shares)

\* The counts of the candidate prefixes; one of the leaf field may be too large.
unshard(prefixes, shares) ==
    LET sum == aggregate(prefixes, shares)
    IN  IF ~sum.ok \/ (sum.share.kind = "Leaf" /\ \E i \in DOMAIN prefixes : sum.share.elems[i] > MaxCount)
        THEN [ok |-> FALSE]
        ELSE [ok |-> TRUE, result |-> sum.share.elems]

\* A vector is encoded without its field, whose elements are wider in the leaf field: the
\* decoder takes it, and the length, from the aggregation parameter.
encoded_size(is_leaf) == IF is_leaf THEN 5 ELSE 4
encode_vec(v) == encode_fieldvec(v.elems, encoded_size(v.kind = "Leaf"))
decode_vec(prefixes, bytes) ==
    FieldVec(IF IsLeaf(prefixes) THEN "Leaf" ELSE "Inner",
             decode_fieldvec(Len(prefixes), encoded_size(IsLeaf(prefixes)), bytes))

-----------------------------------------------------------------------------
\* The aggregation parameter: prefixes of one length, in lexicographic order.
precedes(p, q) ==
    \E i \in DOMAIN p : p[i] < q[i] /\ \A j \in 1..i - 1 : p[j] = q[j]

try_from_prefixes(prefixes) ==
    /\ prefixes # <<>>
    /\ Len(prefixes) < 2^(2 * LevelWidth)
    /\ \A i \in DOMAIN prefixes : Len(prefixes[i]) = Len(prefixes[1])
    /\ \A i \in 1..Len(prefixes) - 1 : precedes(prefixes[i], prefixes[i + 1])
    /\ Len(prefixes[1]) \in 1..2^LevelWidth

\* A byte is a sequence of its bits, the least significant first.  The prefixes are read
\* as integers, packed from the end of the last byte on; the bytes come in reverse.
byte_count(bits) == (bits + 7) \div 8
bytes_of(bits) ==
    [k \in 1..byte_count(Len(bits)) |->
        [j \in 1..8 |-> IF 8 * (k - 1) + j <= Len(bits) THEN bits[8 * (k - 1) + j] ELSE 0]]

encode_param(prefixes) ==
    [level |-> Level(prefixes[1]), prefix_count |-> Len(prefixes),
     packed |-> Reverse(bytes_of(FlattenSeq([i \in DOMAIN prefixes |-> Reverse(prefixes[i])])))]

\* Fault: the bits of a prefix are not put back in order.
decode_param_reversed(e) ==
    LET len == e.level + 1
        bits == FlattenSeq(Reverse(e.packed))
        prefixes == [i \in 1..e.prefix_count |-> SubSeq(bits, (i - 1) * len + 1, i * len)]
    IN  IF try_from_prefixes(prefixes) THEN <<prefixes>> ELSE <<>>

\* The bits that no prefix uses, at the top of the first byte, have to be zero.
decode_param(e) ==
    LET len == e.level + 1
        bit_count == len * e.prefix_count
        bits == FlattenSeq(Reverse(e.packed))
        prefixes == [i \in 1..e.prefix_count |-> Reverse(SubSeq(bits, (i - 1) * len + 1, i * len))]
    IN  IF /\ Len(e.packed) = byte_count(bit_count)
           /\ \A j \in bit_count + 1..Len(bits) : bits[j] = 0
           /\ try_from_prefixes(prefixes)
        THEN <<prefixes>> ELSE <<>>

-----------------------------------------------------------------------------
\* The types of the Aggregator implementation, for up to n prefixes.
OutVec(n) == UNION {[1..k -> F] : k \in 1..n}
PrepState(a, n) ==
    [kind : Kind, round : {1}, A : F, B : F, is_leader : {a = 0}, out : OutVec(n)]
      \cup [kind : Kind, round : {2}, out : OutVec(n)]
PrepShare == [kind : Kind, elems : [1..3 -> F] \cup [1..1 -> F]]
PrepMsg == [kind : Kind, sketch : [1..3 -> F]] \cup [kind : {"Done"}]
OutShare(n) == [kind : Kind, elems : OutVec(n)]

\* What the sketch decides about the values of a job, computed on the values
\* themselves: (sum x r)^2 - sum x r^2 + k * sum x r - sum auth r = 0.
SketchHolds(job) ==
    LET values == [i \in 1..Len(job.prefixes) |-> job.upload.values[job.prefixes[i]]]
        s == sketch_of(values, verify_rand(job))
    IN  (s[1] * s[1] - s[2] + auth(job.upload.seeds, LevelOf(job)) * s[1] - s[3]) % P = 0
=============================================================================
