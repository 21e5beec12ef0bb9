-------------------------------- MODULE Vidpf -------------------------------
(***************************************************************************)
(* The verifiable incremental distributed point function of src/vidpf.rs:  *)
(* key generation by a client, and the two servers, each evaluating its    *)
(* key at one prefix after another from the state it kept for the parent.  *)
(*                                                                         *)
(* A seed is the set of its bits that are one, and exclusive or is the     *)
(* symmetric difference; bit 0 is the one the control bit is taken from.   *)
(* A proof is the exclusive or of hash values, a set of them; a hash value *)
(* is the tuple of what is hashed, so that two never collide by chance.    *)
(***************************************************************************)
EXTENDS Field

CONSTANTS
    SeedBits,             \* the bits of a seed
    LevelWidth,           \* the width in bits of the level hashed with a node (16 in the code)
    WeightLen,            \* weight_parameter: the elements of a weight
    PrgXof(_, _, _),      \* seed, nonce, block: a block of the stream under the tag Prg
    ConvertSeed(_, _), ConvertWeight(_, _, _),  \* ... under the tag Convert: a seed, elements
    Reports               \* what clients program: [input, weight, nonce, keys], a key per server

Server == {0, 1}
Seed == SUBSET SeedBits

\* What the streams yield are seeds and field elements; what a client programs has their types.
\* A weight of another length than the parameter's is possible.
VidpfContract ==
    /\ WeightLen \in Nat
    /\ \A r \in Reports :
        /\ r.input \in Seq({0, 1}) /\ r.weight \in Seq(F) /\ r.keys \in [1..2 -> Seed]
        /\ \A seed \in Seed :
            /\ PrgXof(seed, r.nonce, 0) \in Seed /\ PrgXof(seed, r.nonce, 1) \in Seed
            /\ ConvertSeed(seed, r.nonce) \in Seed
            /\ \A i \in 1..WeightLen : ConvertWeight(seed, r.nonce, i) \in F

xor_if(x, y, bit) == IF bit = 1 THEN SymDiff(x, y) ELSE x
negate_if(w, bit) == IF bit = 1 THEN [i \in DOMAIN w |-> (P - w[i]) % P] ELSE w

\* A seed and a control bit, taken from bit 0 and cleared there, for either child.
prg(seed, nonce) ==
    LET blocks == <<PrgXof(seed, nonce, 0), PrgXof(seed, nonce, 1)>>
    IN  [seeds |-> <<blocks[1] \ {0}, blocks[2] \ {0}>>,
         bits |-> Evaluated([k \in 1..2 |-> IF 0 \in blocks[k] THEN 1 ELSE 0])]

convert(seed, nonce) ==
    [seed |-> ConvertSeed(seed, nonce),
     weight |-> Evaluated([i \in 1..WeightLen |-> ConvertWeight(seed, nonce, i)])]

\* The hash of a node: its prefix, its seed, and its level in LevelWidth bits.
node_proof(prefix, seed) == {<<"NodeProof", seed, prefix>>}
node_proof_adjustment(proof) == {<<"NodeProofAdjust", proof>>}

\* Fault: the sign of the correction is not the one of the server that applies it.
weight_correction_unsigned(w, weight, t) == merge_vector(sub_vector(w[2], w[1]), weight)

weight_correction(w, weight, t) ==
    negate_if(merge_vector(sub_vector(w[2], w[1]), weight), t[2])

\* One level of key generation.  s and t are the servers' seeds and control bits on the path.
gen_level(report, level, s, t) ==
    LET alpha == report.input[level]
        keep == alpha + 1
        lose == 2 - alpha
        seq == <<prg(s[1], report.nonce), prg(s[2], report.nonce)>>
        s_cw == SymDiff(seq[1].seeds[lose], seq[2].seeds[lose])
        t_cw == <<(seq[1].bits[1] + seq[2].bits[1] + alpha + 1) % 2,
                  (seq[1].bits[2] + seq[2].bits[2] + alpha) % 2>>
        converted == Evaluated([i \in 1..2 |->
                        convert(xor_if(seq[i].seeds[keep], s_cw, t[i]), report.nonce)])
        t_next == Evaluated([i \in 1..2 |-> (seq[i].bits[keep] + t[i] * t_cw[keep]) % 2])
        prefix == SubSeq(report.input, 1, level)
    IN  [s |-> <<converted[1].seed, converted[2].seed>>,
         t |-> t_next,
         cw |-> [seed |-> s_cw, bits |-> t_cw,
                 weight |-> weight_correction(<<converted[1].weight, converted[2].weight>>,
                                              report.weight, t_next)],
         cs |-> SymDiff(node_proof(prefix, converted[1].seed), node_proof(prefix, converted[2].seed))]

\* The public share: a correction word and a proof correction for every level.  Levels that
\* do not fit their encoding are an error; a weight of another length is a panic.
gen_with_keys(report) ==
    LET run == FoldLeft(LAMBDA acc, level :
                    LET g == gen_level(report, level, acc.s, acc.t)
                    IN  [s |-> g.s, t |-> g.t, cw |-> Append(acc.cw, g.cw), cs |-> Append(acc.cs, g.cs)],
                 [s |-> report.keys, t |-> <<0, 1>>, cw |-> <<>>, cs |-> <<>>],
                 [level \in DOMAIN report.input |-> level])
    IN  IF Len(report.input) > 2^LevelWidth \/ Len(report.weight) # WeightLen
        THEN [cw |-> <<>>, cs |-> <<>>]
        ELSE [cw |-> run.cw, cs |-> run.cs]

init_from_key(id, key) == [seed |-> key, control_bit |-> id, proof |-> {}]

\* Fault: the proof of a node forgets the proofs of the nodes above it.
next_proof_fresh(pi_tilde, cs, bit, pi) == node_proof_adjustment(xor_if(pi_tilde, cs, bit))

next_proof(pi_tilde, cs, bit, pi) ==
    SymDiff(node_proof_adjustment(SymDiff(xor_if(pi_tilde, cs, bit), pi)), pi)

\* One level of evaluation: the state and the share of the weight at a prefix, from the
\* state of its parent.
eval_next(id, public, prefix, state, nonce) ==
    LET level == Len(prefix)
        side == prefix[level] + 1
        cw == public.cw[level]
        seq == prg(state.seed, nonce)
        control_bit == (seq.bits[side] + state.control_bit * cw.bits[side]) % 2
        converted == convert(xor_if(seq.seeds[side], cw.seed, state.control_bit), nonce)
        y == IF control_bit = 1 THEN merge_vector(cw.weight, converted.weight) ELSE converted.weight
    IN  [state |-> [seed |-> converted.seed, control_bit |-> control_bit,
                    proof |-> next_proof(node_proof(prefix, converted.seed), public.cs[level],
                                         control_bit, state.proof)],
         share |-> negate_if(y, id)]

\* A whole input evaluated from the key.
eval(id, public, key, input, nonce) ==
    FoldLeft(LAMBDA acc, level :
                eval_next(id, public, SubSeq(input, 1, level), acc.state, nonce),
             [state |-> init_from_key(id, key), share |-> [i \in 1..WeightLen |-> 0]],
             [level \in DOMAIN input |-> level])

-----------------------------------------------------------------------------
VARIABLES report,  \* the client's report
          public,  \* the public share each server received
          damage,  \* what happened to server 1's on the way: a field, or "none"
          nodes    \* what each server computed: by prefix, the state and the share
vars == <<report, public, damage, nodes>>

Fields == {"seed", "bits", "proof", "weight"}

\* One correction of a public share is not what the client sent.
damaged(share, level, field) ==
    CASE field = "seed" -> [share EXCEPT !.cw[level].seed = SymDiff(@, SeedBits)]
      [] field = "bits" -> [share EXCEPT !.cw[level].bits = [k \in 1..2 |-> 1 - @[k]]]
      [] field = "weight" -> [share EXCEPT !.cw[level].weight = [i \in DOMAIN @ |-> (@[i] + 1) % P]]
      [] field = "proof" -> [share EXCEPT !.cs[level] = SymDiff(@, {<<"Noise">>})]

Root(id) == [state |-> init_from_key(id, report.keys[id + 1]), share |-> [i \in 1..WeightLen |-> 0]]

Init ==
    /\ report \in Reports
    /\ LET sent == gen_with_keys(report)
       IN  \/ damage = "none" /\ public = [id \in Server |-> sent]
           \/ \E level \in DOMAIN sent.cw : damage \in Fields /\
                 public = [id \in Server |-> IF id = 0 THEN sent ELSE damaged(sent, level, damage)]
    /\ nodes = [id \in Server |-> [prefix \in {<<>>} |-> Root(id)]]

\* eval_next: a level without a correction word is an error.
EvalNext(id, parent, bit) ==
    LET prefix == Append(parent, bit)
    IN  /\ parent \in DOMAIN nodes[id] /\ prefix \notin DOMAIN nodes[id]
        /\ Len(prefix) <= Len(public[id].cw)
        /\ nodes' = [nodes EXCEPT ![id] = [p \in DOMAIN @ \cup {prefix} |->
                        IF p = prefix
                        THEN eval_next(id, public[id], prefix, @[parent].state, report.nonce)
                        ELSE @[p]]]
        /\ UNCHANGED <<report, public, damage>>

Next == \E id \in Server : \E parent \in DOMAIN nodes[id] : \E bit \in {0, 1} : EvalNext(id, parent, bit)
Spec == Init /\ [][Next]_vars

-----------------------------------------------------------------------------
Both == (DOMAIN nodes[0] \cap DOMAIN nodes[1]) \ {<<>>}
Sum(prefix) == merge_vector(nodes[0][prefix].share, nodes[1][prefix].share)
SameProof(prefix) == nodes[0][prefix].state.proof = nodes[1][prefix].state.proof
Expected(prefix) ==
    IF IsPrefix(prefix, report.input) THEN report.weight ELSE [i \in 1..WeightLen |-> 0]

\* Whatever prefixes the servers evaluate, each on its own and in any order that follows the
\* tree: for an honest report the two shares at a prefix add up to the client's weight on the
\* path of its input and to zero elsewhere, the two proofs are the same, and the states kept
\* between the levels lead where an evaluation of the whole prefix leads (gen_with_keys,
\* eval_next and eval).
VidpfPointFunction ==
    damage = "none" =>
        /\ \A prefix \in Both : Sum(prefix) = Expected(prefix) /\ SameProof(prefix)
        /\ \A id \in Server : \A prefix \in DOMAIN nodes[id] :
               nodes[id][prefix] = eval(id, public[id], report.keys[id + 1], prefix, report.nonce)

\* The proofs are worth comparing: even when the servers do not hold the same public share,
\* servers whose proofs are the same at a prefix have the same proofs, and shares that add up,
\* at that prefix and at every one above it.  A weight correction is the one part the proofs
\* do not cover (node_proof and node_proof_adjustment).
ProofsVouch ==
    damage # "weight" =>
        \A prefix \in Both : SameProof(prefix) =>
            \A above \in Both : IsPrefix(above, prefix) =>
                SameProof(above) /\ Sum(above) = Expected(above)
=============================================================================
