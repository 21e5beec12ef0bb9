--------------------------------- MODULE Szk --------------------------------
(***************************************************************************)
(* The shared zero-knowledge proofs of src/flp/szk.rs: a fully linear      *)
(* proof about an input that two aggregators hold shares of.  A client     *)
(* proves; each aggregator queries on its own, sends its query share, and  *)
(* decides once it has the query share of the other.                       *)
(*                                                                         *)
(* As in Prio3, seeds that the code derives by hashing are the tuples of   *)
(* what is hashed, and Xof expands a seed into field elements.             *)
(***************************************************************************)
EXTENDS Flp

CONSTANTS
    Xof(_, _, _)    \* seed, domain separation tag, index (from 1)

None == <<>>
expand(seed, dst, n) == Evaluated([i \in 1..n |-> Xof(seed, dst, i)])

derive_prove_rand(typ, seed) == expand(seed, <<"prove_rand">>, prove_rand_len(typ))

derive_joint_rand_part(blind, measurement_share, nonce) ==
    <<"joint_rand_part", blind, nonce, measurement_share>>

derive_joint_rand_seed(leader_part, helper_part) == <<"joint_rand_seed", leader_part, helper_part>>
derive_joint_rand(typ, seed) == expand(seed, <<"joint_rand">>, typ.joint_rand_len)
derive_helper_proof_share(typ, seed) == expand(seed, <<"proof_share">>, typ.proof_len)
derive_query_rand(typ, verify_key, nonce) ==
    expand(verify_key, <<"query_rand", nonce>>, query_rand_len(typ))
has_joint_rand(typ) == typ.joint_rand_len > 0

\* The two proof shares.  The leader gets its share in full, its blind and the helper's joint
\* randomness part; the helper a seed that is its proof share and its blind, and the leader's
\* part.  A leader seed is given for the types with joint randomness.
szk_prove(typ, leader_input, helper_input, encoded, prove_rand_seed, helper_seed, leader_seed, nonce) ==
    LET leader_part == derive_joint_rand_part(leader_seed[1], leader_input, nonce)
        helper_part == derive_joint_rand_part(helper_seed, helper_input, nonce)
        joint_rand == IF leader_seed = None THEN <<>>
                      ELSE derive_joint_rand(typ, derive_joint_rand_seed(leader_part, helper_part))
        proof == prove(typ, encoded, derive_prove_rand(typ, prove_rand_seed), joint_rand)
    IN  <<[role |-> "Leader", proof |-> sub_vector(proof, derive_helper_proof_share(typ, helper_seed)),
           blind_and_part |-> IF leader_seed = None THEN None ELSE <<leader_seed[1], helper_part>>],
          [role |-> "Helper", seed |-> helper_seed,
           part |-> IF leader_seed = None THEN None ELSE <<leader_part>>]>>

\* An aggregator's parts of the joint randomness: its own, computed from its input share, and
\* the other's, as the client gave it.
own_part(share, input, nonce) ==
    derive_joint_rand_part(IF share.role = "Leader" THEN share.blind_and_part[1] ELSE share.seed,
                           input, nonce)

\* Fault: the helper hashes the parts in its own order.
query_seed_own_first(share, input, nonce) ==
    derive_joint_rand_seed(own_part(share, input, nonce),
                           IF share.role = "Leader" THEN share.blind_and_part[2] ELSE share.part[1])

query_seed(share, input, nonce) ==
    IF share.role = "Leader"
    THEN derive_joint_rand_seed(own_part(share, input, nonce), share.blind_and_part[2])
    ELSE derive_joint_rand_seed(share.part[1], own_part(share, input, nonce))

missing_parts(share) ==
    IF share.role = "Leader" THEN share.blind_and_part = None ELSE share.part = None

\* The query share and the state kept for the decision; an error when a part is missing, or
\* when the query randomness is a root of unity.
szk_query(typ, input, share, verify_key, nonce) ==
    LET t == derive_query_rand(typ, verify_key, nonce)
        proof == IF share.role = "Leader" THEN share.proof
                 ELSE derive_helper_proof_share(typ, share.seed)
        seed == query_seed(share, input, nonce)
        joint_rand == IF has_joint_rand(typ) THEN derive_joint_rand(typ, seed) ELSE <<>>
    IN  IF (has_joint_rand(typ) /\ missing_parts(share)) \/ ~query_rand_ok(typ, t)
        THEN [ok |-> FALSE]
        ELSE [ok |-> TRUE,
              joint_rand_part |-> IF has_joint_rand(typ) THEN <<own_part(share, input, nonce)>> ELSE None,
              verifier |-> query(typ, input, proof, t, joint_rand, 2),
              joint_rand_seed |-> IF has_joint_rand(typ) THEN <<seed>> ELSE None]

\* The proof first, then the seed that was used against the parts that both aggregators sent.
szk_decide(typ, verifier, leader_part, helper_part, seed) ==
    CASE ~decide(typ, verifier) -> "reject"
      [] decide(typ, verifier) /\ <<leader_part, helper_part, seed>> = <<None, None, None>> -> "accept"
      [] decide(typ, verifier) /\ None \notin {leader_part, helper_part, seed} ->
            IF seed[1] = derive_joint_rand_seed(leader_part[1], helper_part[1])
            THEN "accept" ELSE "reject"
      [] OTHER -> "error"

-----------------------------------------------------------------------------
Agg == {0, 1}

VARIABLES report,    \* the report the aggregators verify
          queried,   \* what an aggregator's query gave, <<>> before
          decision   \* an aggregator's decision: "none", "accept", "reject" or "error"
vars == <<report, queried, decision>>

\* One of the given reports, shares of inputs and of proofs, reaches the aggregators.
Init(reports) ==
    /\ report \in reports
    /\ queried = [a \in Agg |-> <<>>]
    /\ decision = [a \in Agg |-> "none"]

Query(a) ==
    /\ queried[a] = <<>>
    /\ LET r == szk_query(report.typ, report.inputs[a + 1], report.proofs[a + 1],
                          report.verify_key, report.nonce)
       IN  /\ queried' = [queried EXCEPT ![a] = <<r>>]
           /\ decision' = [decision EXCEPT ![a] = IF r.ok THEN @ ELSE "error"]
    /\ UNCHANGED report

\* With the query share of the other aggregator: the sum of the verifier shares.
Decide(a) ==
    /\ decision[a] = "none"
    /\ \A b \in Agg : queried[b] # <<>> /\ queried[b][1].ok
    /\ decision' = [decision EXCEPT ![a] =
            szk_decide(report.typ, merge_vector(queried[0][1].verifier, queried[1][1].verifier),
                       queried[0][1].joint_rand_part, queried[1][1].joint_rand_part,
                       queried[a][1].joint_rand_seed)]
    /\ UNCHANGED <<report, queried>>

Next == \E a \in Agg : Query(a) \/ Decide(a)

-----------------------------------------------------------------------------
\* The parts as the shares of the input determine them, and whether the client sent those.
TrueParts == [a \in Agg |-> own_part(report.proofs[a + 1], report.inputs[a + 1], report.nonce)]
PartsAreTrue ==
    has_joint_rand(report.typ) =>
        /\ \A a \in Agg : ~missing_parts(report.proofs[a + 1])
        /\ report.proofs[1].blind_and_part[2] = TrueParts[1]
        /\ report.proofs[2].part[1] = TrueParts[0]

\* The proof holds for the whole input, under the joint randomness of the true parts.
IsProved ==
    LET typ == report.typ
        input == merge_vector(report.inputs[1], report.inputs[2])
        proof == merge_vector(report.proofs[1].proof, derive_helper_proof_share(typ, report.proofs[2].seed))
        joint_rand == IF has_joint_rand(typ)
                      THEN derive_joint_rand(typ, derive_joint_rand_seed(TrueParts[0], TrueParts[1]))
                      ELSE <<>>
    IN  decide(typ, query(typ, input, proof, derive_query_rand(typ, report.verify_key, report.nonce),
                          joint_rand, 1))

\* Two aggregators that never see the whole input decide about it: both accept only a proof
\* that holds for the sum of their inputs under joint randomness that each contributed to
\* with the share it really holds, such a proof is never turned down once queried, and they
\* decide differently only when the client gave one of them a part that does not belong to
\* the other's share (prove, query and decide of src/flp/szk.rs).
SzkDecides ==
    /\ decision[0] = "accept" /\ decision[1] = "accept" => PartsAreTrue /\ IsProved
    /\ PartsAreTrue /\ IsProved => \A a \in Agg : decision[a] # "reject"
    /\ {decision[0], decision[1]} = {"accept", "reject"} => ~PartsAreTrue
    /\ \A a \in Agg : decision[a] = "error" => ~queried[a][1].ok
=============================================================================
