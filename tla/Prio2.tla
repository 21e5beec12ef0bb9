------------------------------- MODULE Prio2 --------------------------------
(***************************************************************************)
(* The one-round VDAF of src/vdaf/prio2.rs, with the proofs of its client  *)
(* and server modules and the recursive transform of src/polynomial.rs: a  *)
(* vector of bits comes with the product of two polynomials, f through the *)
(* bits and g through the bits less one, at the powers of a root of unity. *)
(*                                                                         *)
(* Xof(seed, i) is the i-th field element of Prng::from_prio2_seed; the    *)
(* HMAC that the query randomness is drawn from is a tuple.                *)
(***************************************************************************)
EXTENDS Fft

CONSTANTS input_len, Xof(_, _)

\* The points that f and g are interpolated at; the product has twice as many.
n == next_power_of_two(input_len + 1)

\* Prio2::new and ClientMemory::new refuse an input_len for which 2 * n is not an order of a root.
proof_length == input_len + 3 + n
expand(seed, len) == Evaluated([i \in 1..len |-> Xof(seed, i)])
zeros(len) == [i \in 1..len |-> 0]

-----------------------------------------------------------------------------
\* Count powers of the root of unity of that order, or of its inverse.
fft_get_roots(count, invert) ==
    LET gen == pow(IF invert THEN inv(Generator) ELSE Generator, 2^LogOrder \div count)
    IN  Evaluated([i \in 1..count |-> pow(gen, i - 1)])

\* The even elements of the result are the transform of the sums of the halves, the odd ones
\* that of the differences, scaled by the roots.
fft_recurse(all_roots, points) ==
    LET fft[roots \in Seq(F), ys \in Seq(F)] ==
            LET half == Len(ys) \div 2
                sub == Evaluated([i \in 1..half |-> roots[2 * i - 1]])
                even == fft[sub, Evaluated([i \in 1..half |-> (ys[i] + ys[i + half]) % P])]
                odd == fft[sub, Evaluated([i \in 1..half |->
                                    ((ys[i] - ys[i + half]) * roots[i]) % P])]
            IN  IF Len(ys) = 1 THEN ys ELSE FlattenSeq([i \in 1..half |-> <<even[i], odd[i]>>])
    IN  fft[all_roots, points]

poly_fft(points, size, invert) ==
    LET out == fft_recurse(fft_get_roots(size, invert), points)
        size_inv == inv(size)
    IN  IF invert THEN Evaluated([i \in 1..size |-> (out[i] * size_inv) % P]) ELSE out

interpolate_and_evaluate_at_2n(points) ==
    poly_fft(poly_fft(points, n, TRUE) \o zeros(n), 2 * n, FALSE)

-----------------------------------------------------------------------------
\* The data, the values of f, g and their product h at one, and h at the powers of the root
\* that f and g were not interpolated at: at the others h is zero when the data are bits.
construct_proof(data, f0, g0) ==
    LET points_f == <<f0>> \o data \o zeros(n - 1 - input_len)
        points_g == <<g0>> \o [i \in 1..input_len |-> (data[i] - 1) % P] \o zeros(n - 1 - input_len)
        evals_f == interpolate_and_evaluate_at_2n(points_f)
        evals_g == interpolate_and_evaluate_at_2n(points_g)
    IN  data \o <<f0, g0, (f0 * g0) % P>>
          \o Evaluated([j \in 1..n |-> (evals_f[2 * j] * evals_g[2 * j]) % P])

\* Every share of this model has proof_length elements, which is what the code checks first.
unpack_proof(proof) ==
    [data |-> SubSeq(proof, 1, input_len),
     f0 |-> proof[input_len + 1], g0 |-> proof[input_len + 2], h0 |-> proof[input_len + 3],
     points_h_packed |-> SubSeq(proof, input_len + 4, proof_length)]

\* The leader's share is the proof less what the helper expands its seed to.
shard(measurement, helper_seed, prove_seed) ==
    LET proof == construct_proof(Evaluated([i \in DOMAIN measurement |-> measurement[i] % P]),
                                 Xof(prove_seed, 1), Xof(prove_seed, 2))
    IN  [a \in {0, 1} |->
            IF a = 0
            THEN [kind |-> "Leader", data |-> sub_vector(proof, expand(helper_seed, proof_length))]
            ELSE [kind |-> "Helper", data |-> helper_seed]]

-----------------------------------------------------------------------------
poly_interpret_eval(points, at) == poly_eval(interpolate(points, Len(points)), at)

\* Fault: every server subtracts one.
generate_verification_message_both(eval_at, proof, is_first_server) ==
    LET u == unpack_proof(proof)
        pad == zeros(n - 1 - input_len)
        g_data == [i \in 1..input_len |-> (u.data[i] - 1) % P]
        h(x) == IF x = 1 THEN u.h0 ELSE IF x % 2 = 1 THEN 0 ELSE u.points_h_packed[x \div 2]
    IN  [f_r |-> poly_interpret_eval(<<u.f0>> \o u.data \o pad, eval_at),
         g_r |-> poly_interpret_eval(<<u.g0>> \o g_data \o pad, eval_at),
         h_r |-> poly_interpret_eval([x \in 1..2 * n |-> h(x)], eval_at)]

\* The values of f, g and h; one is subtracted by one server, and h is taken to be zero where
\* it has to be.
generate_verification_message(eval_at, proof, is_first_server) ==
    LET u == unpack_proof(proof)
        pad == zeros(n - 1 - input_len)
        g_data == IF is_first_server THEN [i \in 1..input_len |-> (u.data[i] - 1) % P] ELSE u.data
        h(x) == IF x = 1 THEN u.h0 ELSE IF x % 2 = 1 THEN 0 ELSE u.points_h_packed[x \div 2]
    IN  [f_r |-> poly_interpret_eval(<<u.f0>> \o u.data \o pad, eval_at),
         g_r |-> poly_interpret_eval(<<u.g0>> \o g_data \o pad, eval_at),
         h_r |-> poly_interpret_eval([x \in 1..2 * n |-> h(x)], eval_at)]

is_valid_share(v1, v2) == ((v1.f_r + v2.f_r) * (v1.g_r + v2.g_r)) % P = (v1.h_r + v2.h_r) % P

\* The first element of the stream that is no root of unity.
is_root(x) == pow(x, 2 * n) = 1
choose_eval_at(seed) ==
    LET get[i \in Nat] == IF is_root(Xof(seed, i)) THEN get[i + 1] ELSE Xof(seed, i)
    IN  get[1]

-----------------------------------------------------------------------------
hmac(agg_key, nonce) == <<agg_key, nonce>>
expanded(share, len) == IF share.kind = "Leader" THEN SubSeq(share.data, 1, len) ELSE expand(share.data, len)

\* A state keeps the leader's data without the proof, and the helper's seed.
prepare_init(agg_key, agg_id, nonce, share) ==
    [ok |-> TRUE,
     state |-> [kind |-> share.kind,
                data |-> IF share.kind = "Leader" THEN SubSeq(share.data, 1, input_len) ELSE share.data],
     share |-> generate_verification_message(choose_eval_at(hmac(agg_key, nonce)),
                                             expanded(share, proof_length), agg_id = 0)]

prepare_shares_to_prepare_message(inputs) ==
    IF Len(inputs) = 2 /\ is_valid_share(inputs[1], inputs[2]) THEN [ok |-> TRUE, msg |-> <<>>]
    ELSE [ok |-> FALSE]

prepare_next(s, msg) == [tag |-> "Finish", out |-> expanded(s, input_len)]

\* A state is encoded without the kind of its share, which the decoder takes from the ID.
encode_state(s) == s.data
decode_state(agg_id, bytes) == [kind |-> IF agg_id = 0 THEN "Leader" ELSE "Helper", data |-> bytes]
decodes_share(s, share) == TRUE
decodes_msg(s, msg) == TRUE
=============================================================================
