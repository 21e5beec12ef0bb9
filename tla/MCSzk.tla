-------------------------------- MODULE MCSzk -------------------------------
(***************************************************************************)
(* Szk for Count, Sum and Histogram: inputs that are valid and not, and    *)
(* reports altered, after they were proved, in each part a client sends.   *)
(***************************************************************************)
EXTENDS Szk

CONSTANTS MCKeys   \* verification keys

Nonce == 4
HelperInput(typ) == [i \in 1..typ.input_len |-> (5 * i + 2) % P]

\* Encoded measurements, and inputs that are not the encoding of one.
Inputs(typ) ==
    CASE typ.name = "Count" -> {<<0>>, <<1>>, <<2>>}
      [] typ.name = "Sum" -> {<<1, 0>>, <<1, 1>>, <<0, 3>>}
      [] typ.name = "Histogram" -> {<<0, 1, 0>>, <<1, 1, 0>>}

Proved(typ, input) ==
    LET leader_input == sub_vector(input, HelperInput(typ))
    IN  [typ |-> typ, nonce |-> Nonce, inputs |-> <<leader_input, HelperInput(typ)>>,
         proofs |-> szk_prove(typ, leader_input, HelperInput(typ), input, 11, 23,
                              IF has_joint_rand(typ) THEN <<31>> ELSE None, Nonce)]

\* A part replaced by one that hashes to the same joint randomness ("_colliding") leaves the
\* comparison of the seeds to find it out.
Alterations(typ) ==
    {"none", "input", "proof"}
      \cup (IF has_joint_rand(typ)
            THEN {"leader_part", "leader_part_colliding", "helper_part_colliding", "no_parts"}
            ELSE {})

Altered(rep, alteration) ==
    CASE alteration = "none" -> rep
      [] alteration = "input" -> [rep EXCEPT !.inputs[1][1] = (@ + 1) % P]
      [] alteration = "proof" -> [rep EXCEPT !.proofs[1].proof[1] = (@ + 1) % P]
      [] alteration = "leader_part" -> [rep EXCEPT !.proofs[2].part[1][2] = 0]
      [] alteration = "leader_part_colliding" -> [rep EXCEPT !.proofs[2].part[1][2] = @ + 101]
      [] alteration = "helper_part_colliding" -> [rep EXCEPT !.proofs[1].blind_and_part[2][2] = @ + 101]
      [] alteration = "no_parts" -> [rep EXCEPT !.proofs[2].part = None]

MCReports ==
    UNION {UNION {{[verify_key |-> key] @@ Altered(Proved(typ, input), alteration) :
                        alteration \in Alterations(typ), key \in MCKeys} : input \in Inputs(typ)} :
           typ \in {Count, Sum(2), Histogram(3, 2)}}

MCInit == Init(MCReports)
=============================================================================
