------------------------------ MODULE MCCodec -------------------------------
(***************************************************************************)
(* Messages are encoded one after another into one buffer; the buffer is   *)
(* carried to a reader, perhaps damaged, and decoded from the front by a   *)
(* reader that knows which messages to expect, with which parameters.      *)
(***************************************************************************)
EXTENDS Messages, FiniteSets

CONSTANTS
    MaxMessages,  \* the number of messages of a buffer
    Levels        \* the length of a measurement of the Poplar1 instance

VARIABLES buf,      \* the writer's buffer
          sent,     \* the messages it holds
          carried,  \* the bytes that arrive
          intact,   \* they are the bytes of the buffer
          got,      \* the values read
          at       \* the reader's position
vars == <<buf, sent, carried, intact, got, at>>

-----------------------------------------------------------------------------
\* A message is what the reader knows of it, expected, and its content.
Message(expected, content) == [expected |-> expected, content |-> content]

encode(m, b) ==
    LET e == m.expected
        v == m.content
    IN  CASE e.type = "PingPong" -> encode_ping_pong(v, b)
          [] e.type = "Items" ->
                encode_items(e.prefix, b, encode_all(LAMBDA x : IF e.of = "byte" THEN encode_byte(x) ELSE x, v))
          [] e.type = "Prio3PublicShare" -> append(b, encode_public_share(e.inst, v))
          [] e.type = "Prio3InputShare" -> append(b, encode_input_share(e.inst, v))
          [] e.type = "Prio3PrepareState" -> append(b, encode_prepare_state(e.inst, v))
          [] e.type = "Prio3PrepareShare" -> append(b, encode_prepare_share(e.inst, v))
          [] e.type = "Prio3PrepareMessage" -> append(b, encode_option(v.joint_rand_seed))
          [] e.type = "Poplar1InputShare" -> append(b, encode_poplar1_input_share(e.inst, v))
          [] e.type = "Poplar1PrepareState" -> append(b, encode_poplar1_state(e.inst, v))
          [] e.type \in {"SketchShare", "Sketch"} ->
                append(b, encode_elems(FieldOf(e.inst, e.state.kind), v))
          [] e.type = "IdpfPublicShare" -> append(b, encode_idpf_public_share(e.inst, v))
          [] e.type = "VidpfWeight" -> append(b, encode_weight(e.field, v))

decode(e, bytes, p) ==
    CASE e.type = "PingPong" -> decode_ping_pong(bytes, p)
      [] e.type = "Items" -> decode_items(e.prefix, e.of, bytes, p)
      [] e.type = "Prio3PublicShare" -> decode_public_share(e.inst, bytes, p)
      [] e.type = "Prio3InputShare" -> decode_input_share(e.inst, e.agg_id, bytes, p)
      [] e.type = "Prio3PrepareState" -> decode_prepare_state(e.inst, e.agg_id, bytes, p)
      [] e.type = "Prio3PrepareShare" -> decode_prepare_share(e.inst, e.state, bytes, p)
      [] e.type = "Prio3PrepareMessage" -> decode_prepare_message(e.state, bytes, p)
      [] e.type = "Poplar1InputShare" -> decode_poplar1_input_share(e.inst, bytes, p)
      [] e.type = "Poplar1PrepareState" -> decode_poplar1_state(e.inst, e.agg_id, bytes, p)
      [] e.type = "SketchShare" -> decode_sketch_share(e.inst, e.state, bytes, p)
      [] e.type = "Sketch" -> decode_sketch(e.inst, e.state, bytes, p)
      [] e.type = "IdpfPublicShare" -> decode_idpf_public_share(e.inst, bytes, p)
      [] e.type = "VidpfWeight" -> decode_weight(e.field, e.length, bytes, p)

-----------------------------------------------------------------------------
\* Messages of every type, for a Prio3 instance with joint randomness and one without, and
\* for a Poplar1 instance.
Field1 == [modulus |-> 13, size |-> 1]
Field2 == [modulus |-> 251, size |-> 2]

Prio3(joint_rand_len) ==
    [field |-> Field2, input_len |-> 2, proof_len |-> 1, num_proofs |-> 2, verifier_len |-> 1,
     joint_rand_len |-> joint_rand_len, num_aggregators |-> 2]
Poplar1(bits) == [bits |-> bits, inner |-> Field1, leaf |-> Field2]

Seed(x) == [k \in 1..SeedSize |-> (x + k) % Radix]
Elems(n, x) == [k \in 1..n |-> x - k]
Option(inst, seed) == IF inst.joint_rand_len > 0 THEN <<seed>> ELSE <<>>
ShareOf(agg_id, n, x) ==
    IF agg_id = 0 THEN [role |-> "Leader", elems |-> Elems(n, x)]
    ELSE [role |-> "Helper", seed |-> Seed(x)]

PingPongMessages ==
    {Message([type |-> "PingPong"], v) : v \in
        {[type |-> "Initialize", prep_share |-> <<1, 2>>],
         [type |-> "Continue", prep_msg |-> <<0>>, prep_share |-> <<>>],
         [type |-> "Finish", prep_msg |-> <<>>]}}

\* Lists of bytes and of seeds, around the largest that a prefix of one byte can count.
Lists ==
    {Message([type |-> "Items", prefix |-> n, of |-> "byte"], [k \in 1..len |-> 1]) :
        n \in {1, 2}, len \in {0, Radix - 1, Radix}}
      \cup {Message([type |-> "Items", prefix |-> n, of |-> "seed"], [k \in 1..len |-> Seed(k)]) :
        n \in {1, 3}, len \in {1, (Radix - 1) \div SeedSize + 1}}

StateOf(inst, a) ==
    [measurement_share |-> ShareOf(a, inst.input_len, 251), joint_rand_seed |-> Option(inst, Seed(3)),
     agg_id |-> a, verifiers_len |-> inst.verifier_len * inst.num_proofs]

Prio3Messages(inst) ==
    {Message([type |-> "Prio3PublicShare", inst |-> inst],
             [joint_rand_parts |-> IF inst.joint_rand_len > 0 THEN <<Seed(1), Seed(2)>> ELSE <<>>]),
     Message([type |-> "Prio3PrepareShare", inst |-> inst, state |-> StateOf(inst, 0)],
             [verifiers |-> Elems(2, 200), joint_rand_part |-> Option(inst, Seed(4))]),
     Message([type |-> "Prio3PrepareMessage", state |-> StateOf(inst, 1)],
             [joint_rand_seed |-> Option(inst, Seed(5))])}
      \cup {Message([type |-> "Prio3InputShare", inst |-> inst, agg_id |-> a],
                    [measurement_share |-> ShareOf(a, 2, 251), proofs_share |-> ShareOf(a, 2, 9),
                     joint_rand_blind |-> Option(inst, Seed(6))]) : a \in {0, 1}}
      \cup {Message([type |-> "Prio3PrepareState", inst |-> inst, agg_id |-> a], StateOf(inst, a)) :
               a \in {0, 1}}

SketchStates ==
    {[kind |-> k, round |-> 1, A |-> 12, B |-> 0, is_leader |-> l, out |-> Elems(2, 12)] :
        k \in {"Inner", "Leaf"}, l \in BOOLEAN}
      \cup {[kind |-> k, round |-> 2, out |-> <<1>>] : k \in {"Inner", "Leaf"}}

Poplar1Messages(inst) ==
    {Message([type |-> "Poplar1InputShare", inst |-> inst],
             [idpf_key |-> [k \in 1..IdpfSeedSize |-> 7], corr_seed |-> Seed(1),
              corr_inner |-> [l \in 1..inst.bits - 1 |-> Elems(2, 10)], corr_leaf |-> Elems(2, 251)]),
     Message([type |-> "IdpfPublicShare", inst |-> inst],
             [l \in 1..inst.bits |->
                 [control_bits |-> <<l % 2, 1>>, seed |-> [k \in 1..IdpfSeedSize |-> l],
                  value |-> <<1, l>>]])}
      \cup {Message([type |-> "Poplar1PrepareState", inst |-> inst,
                     agg_id |-> IF s.round = 1 /\ ~s.is_leader THEN 1 ELSE 0], s) : s \in SketchStates}
      \cup {Message([type |-> "SketchShare", inst |-> inst, state |-> s],
                    Elems(IF s.round = 1 THEN 3 ELSE 1, 13)) : s \in SketchStates}
      \cup {Message([type |-> "Sketch", inst |-> inst, state |-> s],
                    Elems(IF s.round = 1 THEN 3 ELSE 0, 13)) : s \in SketchStates}

Weights ==
    {Message([type |-> "VidpfWeight", field |-> Field2, length |-> n], Elems(n, 250)) : n \in {1, 3}}

Samples == PingPongMessages \cup Weights \cup Lists \cup Prio3Messages(Prio3(0)) \cup Prio3Messages(Prio3(1))
             \cup Poplar1Messages(Poplar1(Levels))

\* The bytes that arrive when one is changed, the last is lost, or one is added.
Damaged(bytes) ==
    {[bytes EXCEPT ![i] = b] : i \in DOMAIN bytes, b \in {0, 1, Radix - 1}}
      \cup {Append(bytes, 0)} \cup (IF bytes = <<>> THEN {} ELSE {Front(bytes)})

-----------------------------------------------------------------------------
NotCarried == <<Failed>>

Init ==
    /\ buf = [ok |-> TRUE, bytes |-> <<>>]
    /\ sent = <<>>
    /\ carried = NotCarried
    /\ intact = TRUE
    /\ got = <<>>
    /\ at = 0

\* An encoder that reports an error leaves a buffer that the caller drops.
Encode(m) ==
    /\ carried = NotCarried /\ buf.ok /\ Len(sent) < MaxMessages
    /\ buf' = encode(m, buf)
    /\ sent' = Append(sent, m)
    /\ UNCHANGED <<carried, intact, got, at>>

Carry ==
    /\ carried = NotCarried /\ buf.ok /\ sent # <<>>
    /\ carried' \in {buf.bytes} \cup Damaged(buf.bytes)
    /\ intact' = (carried' = buf.bytes)
    /\ UNCHANGED <<buf, sent, got, at>>

\* The last message has to end where the bytes end.
Decode ==
    /\ carried # NotCarried /\ at # Failed /\ Len(got) < Len(sent)
    /\ \E read \in {decode(sent[Len(got) + 1].expected, carried, at)} :
         LET r == IF Len(got) + 1 = Len(sent) THEN all_read(read, carried) ELSE read
         IN  /\ at' = r.pos
             /\ got' = IF r.pos = Failed THEN got ELSE Append(got, r.value)
    /\ UNCHANGED <<buf, sent, carried, intact>>

Next == (\E m \in Samples : Encode(m)) \/ Carry \/ Decode
Spec == Init /\ [][Next]_vars

-----------------------------------------------------------------------------
\* What is encoded is decoded: from an undamaged buffer every message is read as it was
\* written, each decoder stopping where the next message starts and the last one at the end
\* of the buffer, although the encodings carry neither lengths nor types of their own.  The
\* one error an encoder reports is a list too long for its prefix, and that is always one
\* (encode and decode of src/codec.rs and of the messages).
RoundTrip ==
    /\ intact => /\ at # Failed
                 /\ \A i \in DOMAIN got : got[i] = sent[i].content
    /\ sent # <<>> =>
         LET m == Last(sent)
         IN  (~buf.ok) <=> /\ m.expected.type = "Items"
                           /\ Len(m.content) * (IF m.expected.of = "byte" THEN 1 ELSE SeedSize)
                                > Radix^m.expected.prefix - 1

\* An encoding is canonical: whatever bytes arrive, if they are read to the end then the
\* values read encode to those very bytes.  A damaged message is refused or is another
\* message, never a second form of the same one: field elements are reduced, unused bits
\* are zero, and no item reaches past the end of its list.
Canonical ==
    (carried # NotCarried /\ Len(got) = Len(sent)) =>
        FoldLeft(LAMBDA b, i : encode(Message(sent[i].expected, got[i]), b),
                 [ok |-> TRUE, bytes |-> <<>>], [i \in DOMAIN got |-> i])
          = [ok |-> TRUE, bytes |-> carried]
=============================================================================
