---------------------------- MODULE MCAggregation ---------------------------
(***************************************************************************)
(* Aggregation of a batch of Prio3 reports by three aggregators, for every *)
(* one of the measurement types; or of Poplar1 reports by two, level by    *)
(* level, the way the collector of src/vdaf/poplar1.rs (run_heavy_hitters) *)
(* searches for the measurements that at least Threshold clients sent.     *)
(*                                                                         *)
(* The aggregation parameter of a Prio3 batch is its type, that of a       *)
(* Poplar1 batch holds the candidate prefixes.                             *)
(***************************************************************************)
EXTENDS HeavyHitters

CONSTANTS Generator, LogOrder, FftThreshold, num_proofs, num_aggregators, Prio3Xof(_, _, _)

Prio3Of(t) == INSTANCE Prio3 WITH typ <- t, Xof <- Prio3Xof
Types == INSTANCE Flp

\* What the XOF absorbs as its seed, as a number: a joint randomness seed is made of parts.
MCSeedNumber(seed, dst) ==
    LET vector(acc, v) == FoldLeft(LAMBDA x, y : (3 * x + y + 1) % 101, acc, v)
    IN  IF dst[1] # "joint_rand" THEN seed
        ELSE FoldLeft(LAMBDA acc, part :
                        vector((5 * acc + part[2] + part[3] + part[4]) % 101, part[5]),
                      1, seed[2])

\* Streams of field elements in which neighbouring positions differ.
MCTag == [prove_rand |-> 1, joint_rand |-> 2, measurement_share |-> 3, proof_share |-> 4,
          query_rand |-> 5]
MCStream(h, i, tag) == (h * h + (h + 2) * i + (i * i * i) \div 2 + 2 * tag) % P
MCPrio3Xof(seed, dst, i) ==
    LET tag == MCTag[dst[1]]
    IN  MCStream(FoldLeft(LAMBDA acc, x : (3 * acc + x + 1) % 101, tag + MCSeedNumber(seed, dst),
                          Tail(dst)), i, tag)

MCXof(seed, dst, i) ==
    LET tag == CASE dst[1] = "shard" -> 1
                 [] dst[1] = "corr_inner" -> 2
                 [] dst[1] = "corr_leaf" -> 3
                 [] dst[1] = "idpf" -> 4
                 [] dst[1] = "verify" -> 6
        mixed(h) == (h * h + (h + 2) * i + (i * i * i) \div 2 + seed * i) % P
    IN  mixed(FoldLeft(LAMBDA acc, x : 3 * acc + x + 1, tag + seed, Tail(dst)))

MCPartials == {1, 2}
MCKey == 1

-----------------------------------------------------------------------------
\* Prio3: a type, and the measurements of three clients as sequences; the last one cheats.
MCInstances ==
    {<<Types!Count, <<<<1>>, <<0>>, <<1>>>>>>,
     <<Types!Average(2, 4), <<<<3>>, <<1>>, <<1>>>>>>, <<Types!Average(2, 4), <<<<3>>, <<2>>, <<1>>>>>>,
     <<Types!Sum(6), <<<<63>>, <<50>>, <<1>>>>>>, <<Types!Histogram(3, 2), <<<<2>>, <<2>>, <<0>>>>>>,
     <<Types!SumVec(2, 2, 3), <<<<3, 1>>, <<2, 0>>, <<0, 2>>>>>>,
     <<Types!FixedPoint(2, 3), <<<<1, -1, 0>>, <<1, -1, -1>>, <<0, 1, 0>>>>>>}
MCPrio3Batches ==
    {[reports |-> {[nonce |-> i, measurement |-> x[2][i], cheats |-> i = 3] : i \in 1..3},
      param |-> x[1]] : x \in MCInstances}

Sent(rep, upload) ==
    IF rep.cheats THEN [upload EXCEPT !.input_shares[0].measurement_share[1] = (@ + 2) % P] ELSE upload
prio3_prepare(t, rep) ==
    LET random == [k \in 1..Prio3Of(t)!random_size |-> 10 * rep.nonce + k]
        measurement == IF t.name \in {"SumVec", "FixedPoint"} THEN rep.measurement ELSE rep.measurement[1]
        as_shares(vs) == [a \in DOMAIN vs |-> [elems |-> vs[a]]]
    IN  as_shares(Prio3Of(t)!run_vdaf_prepare_once(MCKey, rep.nonce,
            Sent(rep, Prio3Of(t)!shard_with_random(measurement, rep.nonce, random))))

-----------------------------------------------------------------------------
\* Poplar1: three clients, of which the first may count itself twice at the first level.
MCMeasurements == <<<<0, 0, 1>>, <<0, 1, 1>>, <<1, 0, 1>>>>
MCPoplar1Batches ==
    {[reports |-> {[client |-> i, measurement |-> MCMeasurements[ms[i]],
                    cheats |-> i = cheater, vdaf |-> "Poplar1"] : i \in 1..3},
      param |-> [prefixes |-> <<<<0>>, <<1>>>>]] :
        ms \in {x \in [1..3 -> 1..3] : x[1] <= x[2] /\ x[2] <= x[3] /\ x[1] < x[3]},
        cheater \in 0..1}

MCUpload(rep) ==
    LET i == rep.client
        m == rep.measurement
        upload == shard(m, [corr |-> <<i, i + 1>>, shard |-> i + 2, idpf |-> i + 3])
    IN  IF rep.cheats THEN [upload EXCEPT !.values[SubSeq(m, 1, 1)][1] = 2] ELSE upload

\* Preparation in its two rounds, as run_vdaf_prepare drives them.
poplar1_prepare(prefixes, rep) ==
    LET job == [upload |-> MCUpload(rep), prefixes |-> prefixes, verify_key |-> MCKey]
        init == Evaluated(<<prepare_init(0, job), prepare_init(1, job)>>)
        message(states) == prepare_shares_to_prepare_message(states[1].share, states[2].share)
        next(states, msg) ==
            IF msg.ok THEN Evaluated([i \in {1, 2} |-> prepare_next(states[i].state, msg.msg)]) ELSE <<>>
        round(states) == next(states, message(states))
        outputs(states) == [a \in {i - 1 : i \in DOMAIN states} |-> states[a + 1].out]
    IN  outputs(round(round(init)))

-----------------------------------------------------------------------------
\* The VDAF of a parameter or of a share: only the vectors of Poplar1 are of one of two fields.
IsPrio3(p) == "name" \in DOMAIN p
IsPoplar1Share(s) == "kind" \in DOMAIN s
AsShare(r) == IF r.ok THEN [ok |-> TRUE, share |-> [elems |-> r.share]] ELSE r
Elems(shares) == [i \in DOMAIN shares |-> shares[i].elems]

\* What preparation makes of the reports, for the candidates of every level.
MCLevel[n \in 1..Bits] ==
    IF n = 1 THEN <<<<0>>, <<1>>>>
    ELSE next_prefixes(MCLevel[n - 1], [i \in DOMAIN MCLevel[n - 1] |-> Threshold])
ASSUME ReportsCountOnce ==
    \A batch \in MCPoplar1Batches, n \in 1..Bits : \A rep \in batch.reports :
        CountsOnce([prefixes |-> MCLevel[n]], rep)

MCBatches == MCPrio3Batches \cup MCPoplar1Batches
MCnum_aggregators(p) == IF IsPrio3(p) THEN num_aggregators ELSE 2
MCprepare(p, rep) == IF IsPrio3(p) THEN prio3_prepare(p, rep) ELSE poplar1_prepare(p.prefixes, rep)
MCaggregate(p, shares) ==
    IF IsPrio3(p) THEN AsShare(Prio3Of(p)!aggregate(Elems(shares))) ELSE aggregate(p.prefixes, shares)
MCmerge(x, y) ==
    IF IsPoplar1Share(x) THEN accumulate(x, y) ELSE AsShare(Prio3Of(Types!Count)!merge(x.elems, y.elems))
MCencode(share) == IF IsPoplar1Share(share) THEN encode_vec(share) ELSE encode_fieldvec(share.elems, 4)
MCdecode(p, bytes) ==
    IF IsPrio3(p) THEN [elems |-> decode_fieldvec(p.output_len, 4, bytes)] ELSE decode_vec(p.prefixes, bytes)
MCunshard(p, shares, num_measurements) ==
    IF IsPrio3(p) THEN Prio3Of(p)!unshard(Elems(shares), num_measurements) ELSE unshard(p.prefixes, shares)
MCSameShape(x, y) == x.kind = y.kind /\ Len(x.elems) = Len(y.elems)

\* The aggregators get the next parameter from the collector, encoded.
MCnext_param(p, counts) ==
    IF IsPrio3(p) \/ IsLeaf(p.prefixes) \/ next_prefixes(p.prefixes, counts) = <<>> THEN <<>>
    ELSE LET decoded == decode_param(encode_param(next_prefixes(p.prefixes, counts)))
         IN  [i \in DOMAIN decoded |-> [prefixes |-> decoded[i]]]

-----------------------------------------------------------------------------
\* The aggregate that a type promises, computed on the measurements in the clear.
Total(t, batch) ==
    LET sum(f(_)) == FoldSet(LAMBDA r, acc : acc + f(r.measurement), 0, batch)
    IN  IF t.name = "Histogram"
        THEN [i \in 1..t.output_len |-> sum(LAMBDA m : IF m[1] = i - 1 THEN 1 ELSE 0)]
        ELSE [i \in 1..t.output_len |-> sum(LAMBDA m : m[i])]

\* The collector obtains the aggregate of the accepted measurements, whatever the order in
\* which each aggregator accumulated, merged and reloaded its shares: exactly while the
\* sums are below the modulus, and their remainders beyond it; sums of fixed-point numbers
\* with their sign; and for an average an error, if the sum does not fit a word.  The reports
\* it counts are the honest ones: for their measurements and randomness no query point is a
\* root of unity and no proof is spoilt, and what the cheating client sent is found out.
CollectsTheAggregate ==
    \A c \in Range(collected) : IsPrio3(c.param) =>
        LET sum_of_all == Total(c.param, c.accepted)
            residues == [i \in DOMAIN sum_of_all |-> sum_of_all[i] % P]
            fits_word == Types!IsAverage(c.param) => residues[1] <= c.param.max_word
        IN  /\ c.accepted = {r \in reports : ~r.cheats}
            /\ c.res.ok = fits_word
            /\ fits_word => c.res.result =
                 CASE Types!IsAverage(c.param) -> <<residues[1], Cardinality(c.accepted)>>
                   [] c.param.name = "FixedPoint" -> sum_of_all
                   [] OTHER -> residues
=============================================================================
