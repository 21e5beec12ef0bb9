------------------------------- MODULE Prio3 --------------------------------
(***************************************************************************)
(* The one-round preparation of src/vdaf/prio3.rs: a measurement is split  *)
(* with num_proofs proofs of its validity, whose joint randomness every    *)
(* aggregator contributes to.                                              *)
(*                                                                         *)
(* Xof(seed, dst, i) is the i-th field element of an expanded seed.  The   *)
(* seeds that the code derives by hashing (a joint randomness part, the    *)
(* joint randomness seed) are the tuples of what is hashed: the XOF does   *)
(* not collide.                                                            *)
(***************************************************************************)
EXTENDS Flp

CONSTANTS
    typ,               \* the measurement type
    num_proofs, num_aggregators,
    Xof(_, _, _)

ASSUME Prio3Assumption ==
    num_proofs \in 1..255 /\ num_aggregators \in 1..254

AggId == 0..num_aggregators - 1
None == <<>>
HasJointRand == typ.joint_rand_len > 0

expand(seed, dst, n) == Evaluated([i \in 1..n |-> Xof(seed, dst, i)])

\* The p-th of num_proofs equal pieces of a vector.
piece(v, len, p) == SubSeq(v, (p - 1) * len + 1, p * len)

derive_prove_rands(seed) ==
    expand(seed, <<"prove_rand", num_proofs>>, prove_rand_len(typ) * num_proofs)
derive_joint_rand_seed(parts) == <<"joint_rand_seed", parts>>
derive_joint_rands(parts) ==
    expand(derive_joint_rand_seed(parts), <<"joint_rand", num_proofs>>,
           typ.joint_rand_len * num_proofs)
derive_helper_measurement_share(seed, agg_id) ==
    expand(seed, <<"measurement_share", agg_id>>, typ.input_len)
derive_helper_proofs_share(seed, agg_id) ==
    expand(seed, <<"proof_share", num_proofs, agg_id>>, typ.proof_len * num_proofs)
derive_query_rands(verify_key, nonce) ==
    expand(verify_key, <<"query_rand", num_proofs, nonce>>, query_rand_len(typ) * num_proofs)

\* The contribution of an aggregator, bound to its share of the measurement.
joint_rand_part(blind, agg_id, nonce, measurement_share) ==
    <<"joint_rand_part", blind, agg_id, nonce, measurement_share>>

-----------------------------------------------------------------------------
\* Sharding.  `random` is a sequence of seeds: for each helper its measurement and
\* proof seeds and its blind, then the leader's blind, then the prover's seed.
seeds_per_helper == IF HasJointRand THEN 3 ELSE 2
random_size ==
    (num_aggregators - 1) * 2 + 1 + (IF HasJointRand THEN num_aggregators ELSE 0)

shard_with_random(measurement, nonce, random) ==
    LET helpers == AggId \ {0}
        seed(a, k) == random[(a - 1) * seeds_per_helper + k]
        blind(a) ==
            IF ~HasJointRand THEN None
            ELSE IF a = 0 THEN random[(num_aggregators - 1) * seeds_per_helper + 1]
            ELSE seed(a, 3)
        encoded == encode_measurement(typ, measurement)
        minus(v, share(_)) ==
            FoldLeft(LAMBDA acc, a : sub_vector(acc, share(a)), v,
                     [a \in 1..num_aggregators - 1 |-> a])
        leader_measurement ==
            minus(encoded, LAMBDA a : derive_helper_measurement_share(seed(a, 1), a))
        measurement_share(a) ==
            IF a = 0 THEN leader_measurement ELSE derive_helper_measurement_share(seed(a, 1), a)
        parts ==
            IF ~HasJointRand THEN None
            ELSE [i \in 1..num_aggregators |->
                    joint_rand_part(blind(i - 1), i - 1, nonce, measurement_share(i - 1))]
        joint_rands == IF HasJointRand THEN derive_joint_rands(parts) ELSE <<>>
        prove_rands == derive_prove_rands(random[random_size])
        proofs == FlattenSeq([p \in 1..num_proofs |->
                    prove(typ, encoded, piece(prove_rands, prove_rand_len(typ), p),
                          piece(joint_rands, typ.joint_rand_len, p))])
        leader_proofs == minus(proofs, LAMBDA a : derive_helper_proofs_share(seed(a, 2), a))
    IN  [public_share |-> parts,
         input_shares |-> [a \in AggId |->
            IF a = 0
            THEN [kind |-> "Leader", measurement_share |-> leader_measurement,
                  proofs_share |-> leader_proofs, joint_rand_blind |-> blind(0)]
            ELSE [kind |-> "Helper", measurement_share |-> seed(a, 1),
                  proofs_share |-> seed(a, 2), joint_rand_blind |-> blind(a)]]]

-----------------------------------------------------------------------------
\* A share is stored as it was sent: the leader's in full, a helper's as a seed.
expanded_measurement(share, agg_id) ==
    IF share.kind = "Leader" THEN share.measurement_share
    ELSE derive_helper_measurement_share(share.measurement_share, agg_id)

expanded_proofs(share, agg_id) ==
    IF share.kind = "Leader" THEN share.proofs_share
    ELSE derive_helper_proofs_share(share.proofs_share, agg_id)

own_joint_rand_part(agg_id, nonce, share) ==
    joint_rand_part(share.joint_rand_blind, agg_id, nonce, expanded_measurement(share, agg_id))

\* The parts of the public share, but for the aggregator's own, which it computes.
corrected_joint_rand_parts(agg_id, nonce, public_share, share) ==
    [public_share EXCEPT ![agg_id + 1] = own_joint_rand_part(agg_id, nonce, share)]

\* Fault: a query tells the circuit that the input is not shared.
verifiers_of_one_share(agg_id, share, query_rands, joint_rands) ==
    FlattenSeq([p \in 1..num_proofs |->
        query(typ, expanded_measurement(share, agg_id),
              piece(expanded_proofs(share, agg_id), typ.proof_len, p),
              piece(query_rands, query_rand_len(typ), p),
              piece(joint_rands, typ.joint_rand_len, p), 1)])

\* The aggregator's share of the verifiers of all the proofs.
verifiers_share(agg_id, share, query_rands, joint_rands) ==
    FlattenSeq([p \in 1..num_proofs |->
        query(typ, expanded_measurement(share, agg_id),
              piece(expanded_proofs(share, agg_id), typ.proof_len, p),
              piece(query_rands, query_rand_len(typ), p),
              piece(joint_rands, typ.joint_rand_len, p), num_aggregators)])

\* The seed of the joint randomness and the verifiers, as a state and a prepare share.
prepared(agg_id, nonce, share, parts, verifiers) ==
    [ok |-> TRUE,
     state |-> [kind |-> share.kind, measurement_share |-> share.measurement_share,
                joint_rand_seed |-> IF HasJointRand THEN derive_joint_rand_seed(parts) ELSE None,
                agg_id |-> agg_id, verifiers_len |-> Len(verifiers)],
     share |-> [verifiers |-> verifiers,
                joint_rand_part |->
                    IF HasJointRand THEN own_joint_rand_part(agg_id, nonce, share) ELSE None]]

\* Fails when the query randomness of a proof is a root of unity.
prepare_init(verify_key, agg_id, nonce, public_share, share) ==
    LET parts == corrected_joint_rand_parts(agg_id, nonce, public_share, share)
        joint_rands == IF HasJointRand THEN derive_joint_rands(parts) ELSE <<>>
        query_rands == derive_query_rands(verify_key, nonce)
    IN  IF \E p \in 1..num_proofs : ~query_rand_ok(typ, piece(query_rands, query_rand_len(typ), p))
        THEN [ok |-> FALSE]
        ELSE prepared(agg_id, nonce, share, parts,
                      verifiers_share(agg_id, share, query_rands, joint_rands))

\* Every proof's verifier is decided on by itself.
proofs_hold(verifiers) ==
    \A p \in 1..num_proofs : decide(typ, piece(verifiers, typ.verifier_len, p))

prepare_shares_to_prepare_message(inputs) ==
    LET verifiers == FoldLeft(LAMBDA acc, share : merge_vector(acc, share.verifiers),
                              [i \in 1..typ.verifier_len * num_proofs |-> 0], inputs)
        parts == [i \in DOMAIN inputs |-> inputs[i].joint_rand_part]
    IN  IF \/ \E i \in DOMAIN inputs :
                Len(inputs[i].verifiers) # typ.verifier_len * num_proofs
           \/ Len(inputs) % 256 # num_aggregators   \* counted in a u8
           \/ ~proofs_hold(verifiers)
        THEN [ok |-> FALSE]
        ELSE [ok |-> TRUE, msg |-> IF HasJointRand THEN derive_joint_rand_seed(parts) ELSE None]

\* Fault: the joint randomness is not compared.
prepare_next_unchecked(s, msg) ==
    [tag |-> "Finish", out |-> truncate(typ, expanded_measurement(s, s.agg_id))]

\* Fault: the share is expanded for the first aggregator, whoever stored it.
prepare_next_agg_zero(s, msg) ==
    IF HasJointRand /\ s.joint_rand_seed # msg THEN [tag |-> "Err"]
    ELSE [tag |-> "Finish", out |-> truncate(typ, expanded_measurement(s, 0))]

prepare_next(s, msg) ==
    IF HasJointRand /\ s.joint_rand_seed # msg THEN [tag |-> "Err"]
    ELSE [tag |-> "Finish", out |-> truncate(typ, expanded_measurement(s, s.agg_id))]

\* The single round of preparation, driven for all the aggregators: their output shares,
\* or <<>> when a call fails.
output_shares(next) ==
    IF \E a \in AggId : next[a].tag = "Err" THEN <<>> ELSE [a \in AggId |-> next[a].out]
with_message(init, combined) ==
    IF combined.ok THEN output_shares([a \in AggId |-> prepare_next(init[a + 1].state, combined.msg)])
    ELSE <<>>
with_shares(init) ==
    IF \A i \in DOMAIN init : init[i].ok
    THEN with_message(init, prepare_shares_to_prepare_message([i \in DOMAIN init |-> init[i].share]))
    ELSE <<>>
run_vdaf_prepare_once(verify_key, nonce, upload) ==
    with_shares(Evaluated([i \in 1..num_aggregators |->
        prepare_init(verify_key, i - 1, nonce, upload.public_share, upload.input_shares[i - 1])]))

-----------------------------------------------------------------------------
\* Aggregation: AggregateShare::merge and accumulate, which add vectors of one length.
merge(x, y) ==
    IF Len(x) = Len(y) THEN [ok |-> TRUE, share |-> merge_vector(x, y)] ELSE [ok |-> FALSE]

\* The output shares of an aggregator, or the aggregate shares of all of them, added up.
aggregate(shares) ==
    FoldLeft(LAMBDA acc, s : IF acc.ok THEN merge(acc.share, s) ELSE acc,
             [ok |-> TRUE, share |-> [i \in 1..typ.output_len |-> 0]], shares)

unshard(agg_shares, num_measurements) ==
    LET sum == aggregate(agg_shares)
    IN  IF sum.ok THEN decode_result(typ, sum.share, num_measurements) ELSE sum

-----------------------------------------------------------------------------
\* The codecs: a prepare state is encoded without its agg_id, its verifiers_len and the
\* kind of its share, which the decoder takes from the aggregator's ID and the type.
encode_state(s) == <<s.measurement_share, s.joint_rand_seed>>

decode_state(agg_id, bytes) ==
    [kind |-> IF agg_id = 0 THEN "Leader" ELSE "Helper", measurement_share |-> bytes[1],
     joint_rand_seed |-> bytes[2], agg_id |-> agg_id,
     verifiers_len |-> typ.verifier_len * num_proofs]

decodes_share(s, share) ==
    /\ Len(share.verifiers) = s.verifiers_len
    /\ (share.joint_rand_part = None) <=> (s.joint_rand_seed = None)

decodes_msg(s, msg) == (msg = None) <=> (s.joint_rand_seed = None)
=============================================================================
