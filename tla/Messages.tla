------------------------------ MODULE Messages ------------------------------
(***************************************************************************)
(* The encodings of the messages of the library.  What an encoding leaves  *)
(* out (lengths, which aggregator, whether there is joint randomness) the  *)
(* decoder takes from its parameter.                                       *)
(***************************************************************************)
EXTENDS Codec

\* PingPongMessage: a type byte, then the payloads as vectors with a four-byte prefix.
encode_ping_pong(m, buf) ==
    CASE m.type = "Initialize" -> encode_items(4, append(buf, encode_byte(0)), m.prep_share)
      [] m.type = "Continue" ->
            encode_items(4, encode_items(4, append(buf, encode_byte(1)), m.prep_msg), m.prep_share)
      [] m.type = "Finish" -> encode_items(4, append(buf, encode_byte(2)), m.prep_msg)

decode_payload(bytes, pos) == decode_items(4, "byte", bytes, pos)
decode_ping_pong(bytes, pos) ==
    Then(decode_byte(bytes, pos), LAMBDA type, p :
        IF type \notin {0, 1, 2} THEN Refused
        ELSE Then(decode_payload(bytes, p), LAMBDA first, q :
            CASE type = 0 -> Decoded([type |-> "Initialize", prep_share |-> first], q)
              [] type = 1 -> Then(decode_payload(bytes, q), LAMBDA second, end :
                    Decoded([type |-> "Continue", prep_msg |-> first, prep_share |-> second], end))
              [] type = 2 -> Decoded([type |-> "Finish", prep_msg |-> first], q)))

-----------------------------------------------------------------------------
\* Prio3.  The parameter is the instance: the field, the lengths of its type, the number of
\* aggregators and of proofs.

\* A share is the leader's field elements or a helper's seed.
encode_share(inst, s) ==
    IF s.role = "Leader" THEN encode_elems(inst.field, s.elems) ELSE s.seed

decode_share(inst, agg_id, len, bytes, pos) ==
    IF agg_id = 0
    THEN Then(decode_elems(len, inst.field, bytes, pos), LAMBDA elems, p :
            Decoded([role |-> "Leader", elems |-> elems], p))
    ELSE Then(read_exact(SeedSize, bytes, pos), LAMBDA seed, p :
            Decoded([role |-> "Helper", seed |-> seed], p))

role_try_from(inst, agg_id, pos) == IF agg_id < inst.num_aggregators THEN pos ELSE Failed

encode_public_share(inst, s) == encode_all(LAMBDA part : part, s.joint_rand_parts)
decode_public_share(inst, bytes, pos) ==
    Then(decode_all(IF inst.joint_rand_len > 0 THEN inst.num_aggregators ELSE 0,
                    LAMBDA b, p : read_exact(SeedSize, b, p), bytes, pos),
         LAMBDA parts, p : Decoded([joint_rand_parts |-> parts], p))

encode_input_share(inst, s) ==
    encode_share(inst, s.measurement_share) \o encode_share(inst, s.proofs_share)
      \o encode_option(s.joint_rand_blind)

decode_input_share(inst, agg_id, bytes, pos) ==
    Then(decode_share(inst, agg_id, inst.input_len, bytes, role_try_from(inst, agg_id, pos)),
         LAMBDA measurement, p :
      Then(decode_share(inst, agg_id, inst.proof_len * inst.num_proofs, bytes, p), LAMBDA proofs, q :
        Then(decode_option(inst.joint_rand_len > 0, bytes, q), LAMBDA blind, end :
          Decoded([measurement_share |-> measurement, proofs_share |-> proofs,
                   joint_rand_blind |-> blind], end))))

encode_prepare_state(inst, s) ==
    encode_share(inst, s.measurement_share) \o encode_option(s.joint_rand_seed)
decode_prepare_state(inst, agg_id, bytes, pos) ==
    Then(decode_share(inst, agg_id, inst.input_len, bytes, role_try_from(inst, agg_id, pos)),
         LAMBDA measurement, p :
      Then(decode_option(inst.joint_rand_len > 0, bytes, p), LAMBDA seed, end :
        Decoded([measurement_share |-> measurement, joint_rand_seed |-> seed, agg_id |-> agg_id,
                 verifiers_len |-> inst.verifier_len * inst.num_proofs], end)))

\* The prepare share and the prepare message are read with the receiver's state.
encode_prepare_share(inst, s) ==
    encode_elems(inst.field, s.verifiers) \o encode_option(s.joint_rand_part)
decode_prepare_share(inst, state, bytes, pos) ==
    Then(decode_elems(state.verifiers_len, inst.field, bytes, pos), LAMBDA verifiers, p :
      Then(decode_option(state.joint_rand_seed # <<>>, bytes, p), LAMBDA part, end :
        Decoded([verifiers |-> verifiers, joint_rand_part |-> part], end)))

decode_prepare_message(state, bytes, pos) ==
    Then(decode_option(state.joint_rand_seed # <<>>, bytes, pos), LAMBDA seed, end :
        Decoded([joint_rand_seed |-> seed], end))

-----------------------------------------------------------------------------
\* Poplar1.  The parameter has the length of a measurement and the fields of the inner
\* levels and of the leaves.
FieldOf(inst, kind) == IF kind = "Inner" THEN inst.inner ELSE inst.leaf

encode_poplar1_input_share(inst, s) ==
    s.idpf_key \o s.corr_seed \o encode_all(LAMBDA c : encode_elems(inst.inner, c), s.corr_inner)
      \o encode_elems(inst.leaf, s.corr_leaf)

decode_poplar1_input_share(inst, bytes, pos) ==
    Then(read_exact(IdpfSeedSize, bytes, pos), LAMBDA key, p :
      Then(read_exact(SeedSize, bytes, p), LAMBDA corr_seed, q :
        Then(decode_all(inst.bits - 1, LAMBDA b, i : decode_elems(2, inst.inner, b, i), bytes, q),
             LAMBDA corr_inner, r :
          Then(decode_elems(2, inst.leaf, bytes, r), LAMBDA corr_leaf, end :
            Decoded([idpf_key |-> key, corr_seed |-> corr_seed, corr_inner |-> corr_inner,
                     corr_leaf |-> corr_leaf], end)))))

\* A byte for the field, one for the round, the shares of A and B in round one, and the
\* output share with its length in four bytes.  Whose state it is, is not encoded.
encode_poplar1_state(inst, s) ==
    LET field == FieldOf(inst, s.kind)
    IN  encode_byte(IF s.kind = "Inner" THEN 0 ELSE 1)
          \o (IF s.round = 1 THEN encode_byte(0) \o encode_elems(field, <<s.A, s.B>>)
              ELSE encode_byte(1))
          \o encode_uint(4, Len(s.out)) \o encode_elems(field, s.out)

decode_output(field, bytes, pos) ==
    Then(decode_uint(4, bytes, pos), LAMBDA len, p :
        IF p + len * field.size > Len(bytes) THEN Refused ELSE decode_elems(len, field, bytes, p))

decode_sketch_state(kind, field, agg_id, bytes, pos) ==
    Then(decode_byte(bytes, pos), LAMBDA round, p :
      IF round \notin {0, 1} THEN Refused
      ELSE Then(decode_elems(IF round = 0 THEN 2 ELSE 0, field, bytes, p), LAMBDA AB, q :
        Then(decode_output(field, bytes, q), LAMBDA out, end :
          Decoded(IF round = 0
                  THEN [kind |-> kind, round |-> 1, A |-> AB[1], B |-> AB[2],
                        is_leader |-> agg_id = 0, out |-> out]
                  ELSE [kind |-> kind, round |-> 2, out |-> out], end))))

decode_poplar1_state(inst, agg_id, bytes, pos) ==
    Then(decode_byte(bytes, pos), LAMBDA variant, p :
      IF variant \notin {0, 1} THEN Refused
      ELSE LET kind == IF variant = 0 THEN "Inner" ELSE "Leaf"
           IN  decode_sketch_state(kind, FieldOf(inst, kind), agg_id, bytes, p))

\* The shares and messages of the sketch: three elements in round one; in round two one
\* element, answered by an empty message.
decode_sketch_share(inst, state, bytes, pos) ==
    decode_elems(IF state.round = 1 THEN 3 ELSE 1, FieldOf(inst, state.kind), bytes, pos)
decode_sketch(inst, state, bytes, pos) ==
    decode_elems(IF state.round = 1 THEN 3 ELSE 0, FieldOf(inst, state.kind), bytes, pos)

-----------------------------------------------------------------------------
\* The public share of the IDPF: the two control bits of every level, packed in bytes, then
\* the seeds and values of the correction words.

\* Fault: the bits are packed in whole bytes only.
pack_floor(bits) ==
    [k \in 1..Len(bits) \div ByteBits |->
        FoldRight(LAMBDA b, acc : 2 * acc + b, SubSeq(bits, (k - 1) * ByteBits + 1, k * ByteBits), 0)]

\* Least significant bit first; what is left of the last byte is zero.
pack(bits) ==
    LET bit(j) == IF j \in DOMAIN bits THEN bits[j] ELSE 0
    IN  [k \in 1..(Len(bits) + ByteBits - 1) \div ByteBits |->
            FoldRight(LAMBDA b, acc : 2 * acc + b,
                      [j \in 1..ByteBits |-> bit((k - 1) * ByteBits + j)], 0)]
unpack(bytes) ==
    [j \in 1..Len(bytes) * ByteBits |->
        (bytes[(j - 1) \div ByteBits + 1] \div 2^((j - 1) % ByteBits)) % 2]

ValueField(inst, level) == IF level < inst.bits THEN inst.inner ELSE inst.leaf

encode_idpf_public_share(inst, words) ==
    pack(FlattenSeq([i \in DOMAIN words |-> words[i].control_bits]))
      \o FlattenSeq([i \in DOMAIN words |->
                        words[i].seed \o encode_elems(ValueField(inst, i), words[i].value)])

\* The seed and the value of every correction word, with its control bits.
decode_words(inst, control, bytes, pos) ==
    LET word[i \in 0..inst.bits] ==
            IF i = 0 THEN Decoded(<<>>, pos)
            ELSE Then(word[i - 1], LAMBDA words, p :
                   Then(read_exact(IdpfSeedSize, bytes, p), LAMBDA seed, q :
                     Then(decode_elems(2, ValueField(inst, i), bytes, q), LAMBDA value, end :
                       Decoded(Append(words, [control_bits |-> SubSeq(control, 2 * i - 1, 2 * i),
                                              seed |-> seed, value |-> value]), end))))
    IN  word[inst.bits]

\* Fault: the unused bits are not looked at.
unused_bits_ignored(inst, control) == TRUE

unused_bits_are_zero(inst, control) == \A j \in 2 * inst.bits + 1..Len(control) : control[j] = 0

decode_idpf_public_share(inst, bytes, pos) ==
    Then(read_exact((2 * inst.bits + ByteBits - 1) \div ByteBits, bytes, pos), LAMBDA packed, p :
        Then(decode_words(inst, unpack(packed), bytes, p), LAMBDA words, end :
            IF unused_bits_are_zero(inst, unpack(packed)) THEN Decoded(words, end) ELSE Refused))

-----------------------------------------------------------------------------
\* The weight of a VIDPF, and output and aggregate shares: elements whose number is known.
encode_weight(field, w) == encode_elems(field, w)
decode_weight(field, length, bytes, pos) == decode_elems(length, field, bytes, pos)
=============================================================================
