------------------------------- MODULE MCFlp --------------------------------
(***************************************************************************)
(* A proof is generated for an input, or made up, split with the input     *)
(* into shares, queried share by share at a point, and decided on.         *)
(***************************************************************************)
EXTENDS Flp

CONSTANTS
    MCRands,       \* the field elements randomness is made of
    MCPoints,      \* the query points tried on shares
    MCShares       \* the numbers of shares

VARIABLES
    stage,         \* "input", "proved", "queried", "decided"
    typ, input, joint_rand,
    proof,         \* <<>> before it is made
    genuine,       \* was the proof made by prove?
    shares,        \* of the input and of the proof
    t,             \* the query randomness
    verifier,      \* the sum of the shares of the verifier
    accepted

vars == <<stage, typ, input, joint_rand, proof, genuine, shares, t, verifier, accepted>>

MCTypes == {Count, Sum(1), Sum(3), Histogram(2, 1), Histogram(3, 2), SumVec(1, 3, 2)}
             \cup {FixedPoint(2, d) : d \in {k \in {1, 5, 25} : fits(2, k)}}

\* For vectors of fixed-point numbers: the encodings of some, two of them too long for their
\* norm to be encoded, and these with one element changed.
MCVectors(ty) ==
    {[i \in 1..ty.output_len |-> 0], [i \in 1..ty.output_len |-> IF i % 2 = 1 THEN -1 ELSE 0],
     [i \in 1..ty.output_len |-> IF i < 5 THEN 1 ELSE 0], [i \in 1..ty.output_len |-> -2]}
MCInputs(ty) ==
    CASE ty.input_len = 1 -> [1..1 -> {0, 1, 2, P - 1}]
      [] ty.name = "FixedPoint" ->
            LET encoded == {encode_measurement(ty, v) : v \in MCVectors(ty)}
            IN  encoded \cup {[e EXCEPT ![i] = @ + 1] : e \in encoded,
                                i \in {2, ty.input_len - 1, ty.input_len}}
      [] OTHER -> [1..ty.input_len -> {0, 1, 2}]

Init ==
    /\ stage = "input"
    /\ typ \in MCTypes
    /\ input \in MCInputs(typ)
    /\ joint_rand \in [1..typ.joint_rand_len -> MCRands]
    /\ proof = <<>> /\ genuine = FALSE /\ shares = <<>> /\ t = <<>> /\ verifier = <<>>
    /\ accepted = FALSE

\* The seeds of the wires: some, and for a valid input also those with the one for which the
\* last wire polynomial of the first gadget loses its leading coefficient.
MCSeeds(r) == [j \in 1..prove_rand_len(typ) |-> (r + j) % P]
MCUnlucky(r) ==
    LET g == typ.gadgets[1]
        m == wire_poly_len(g.calls)
        w == wires(typ, input, joint_rand, 1)[1]
        last_poly(seed) == interpolate(<<seed>> \o [k \in 1..g.calls |-> w[k][g.arity]], m)
    IN  [MCSeeds(r) EXCEPT ![g.arity] = CHOOSE seed \in F : poly_deg(last_poly(seed)) < m - 1]

Prove ==
    /\ stage = "input"
    /\ \E r \in MCRands :
        \E prove_rand \in {MCSeeds(r)} \cup (IF IsValid(typ, input) THEN {MCUnlucky(r)} ELSE {}) :
        proof' = prove(typ, input, prove_rand, joint_rand)
    /\ genuine' = TRUE
    /\ stage' = "proved"
    /\ UNCHANGED <<typ, input, joint_rand, shares, t, verifier, accepted>>

\* A proof that prove did not make for this input: that of a valid input, or the
\* input's own with one element changed.
Forge ==
    /\ stage = "input"
    /\ LET rand == [j \in 1..prove_rand_len(typ) |-> j]
           borrowed == {prove(typ, x, rand, joint_rand) :
                            x \in {y \in MCInputs(typ) : IsValid(typ, y) /\ y # input}}
           changed == {[own EXCEPT ![k] = (@ + 1) % P] : own \in {prove(typ, input, rand, joint_rand)},
                            k \in IF typ.name # "FixedPoint" THEN 1..typ.proof_len
                                  ELSE {1, typ.proof_len - 1, typ.proof_len}}
       IN  proof' \in borrowed \cup changed
    /\ stage' = "proved"
    /\ UNCHANGED <<typ, input, joint_rand, genuine, shares, t, verifier, accepted>>

\* The input and the proof are split: the helpers' shares are pseudorandom.
Split(x, n, salt) ==
    LET mask(j) == [i \in DOMAIN x |-> (salt * j + i * i * j + 3 * i) % P]
    IN  <<FoldLeft(LAMBDA acc, j : sub_vector(acc, mask(j)), x, [j \in 1..n - 1 |-> j])>>
          \o [j \in 1..n - 1 |-> mask(j)]

\* A genuine proof is split in every way, any other into as few shares as possible.
Query ==
    /\ stage = "proved"
    /\ \E n \in (IF genuine THEN MCShares ELSE {Min(MCShares)}), point \in [1..query_rand_len(typ) -> MCPoints] :
        LET xs == Split(input, n, 1)
            ps == Split(proof, n, 2)
        IN  /\ query_rand_ok(typ, point)
            /\ shares' = xs
            /\ t' = point
            /\ verifier' = sum_vectors(Evaluated(
                   [j \in 1..n |-> query(typ, xs[j], ps[j], point, joint_rand, n)]))
    /\ stage' = "queried"
    /\ UNCHANGED <<typ, input, joint_rand, proof, genuine, accepted>>

Decide ==
    /\ stage = "queried"
    /\ accepted' = decide(typ, verifier)
    /\ stage' = "decided"
    /\ UNCHANGED <<typ, input, joint_rand, proof, genuine, shares, t, verifier>>

Next == Prove \/ Forge \/ Query \/ Decide

Spec == Init /\ [][Next]_vars

-----------------------------------------------------------------------------
\* The proof that prove makes for a valid input has the length its type states (prove asserts
\* it) and is accepted at every admissible query point, however many shares it is split into,
\* with one exception: a product of wire polynomials that lost its leading coefficient, written
\* over a longer one in the buffer of a sum (ParallelSum::call_poly, Mul::call_poly_direct).  A
\* lost coefficient does no harm by itself, nor where the product is computed by FFT.
Completeness ==
    /\ stage = "proved" /\ genuine => Len(proof) = typ.proof_len
    /\ stage = "queried" => Len(verifier) = typ.verifier_len
    /\ stage = "decided" /\ genuine /\ IsValid(typ, input) =>
          accepted \/ spoilt(typ, input, proof, joint_rand)

\* The shares of the verifier add up to the verifier of the whole input, and the truncated
\* shares to the truncated input: every constant in a circuit, and every padding, is divided
\* by the number of shares.
SharesAddUp ==
    stage = "queried" =>
        /\ verifier = query(typ, input, proof, t, joint_rand, 1)
        /\ truncate(typ, input) =
              FoldLeft(merge_vector, truncate(typ, shares[1]),
                       [j \in 1..Len(shares) - 1 |-> truncate(typ, shares[j + 1])])

\* A proof of something the circuit refuses, whoever made it, is accepted only when the query
\* hits, for some gadget, one of at most as many points as the gadget's polynomial has roots.
Soundness ==
    stage = "proved" /\ valid(typ, input, joint_rand, 1) # 0 =>
        LET at(x) == query(typ, input, proof, [g \in DOMAIN typ.gadgets |-> x], joint_rand, 1)
        IN  \/ at(0)[1] # 0
            \/ \E g \in DOMAIN typ.gadgets :
                  Cardinality({x \in F : well_formed(typ, at(x), g)})
                    <= degree * (wire_poly_len(typ.gadgets[g].calls) - 1)

\* The circuit accepts a valid input whatever the joint randomness, and an invalid one, for a
\* second element that is not zero, at no more first elements than a polynomial of the
\* circuit's degree has roots.
CircuitIsSound ==
    stage = "input" =>
        \A r \in MCRands :
            LET roots == {x \in F : valid(typ, input, SubSeq(<<x, r>>, 1, typ.joint_rand_len), 1) = 0}
            IN  IF IsValid(typ, input) THEN roots = F
                ELSE IF typ.joint_rand_len = 0 THEN roots = {}
                ELSE Cardinality(roots) <= typ.input_len
=============================================================================
