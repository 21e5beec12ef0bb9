---------------------------- MODULE MCArithmetic ----------------------------
(***************************************************************************)
(* The proofs and the arithmetic that they are computed with, from the     *)
(* words of a field element upwards: one element (Montgomery), one         *)
(* transform (MCFft), one sum of polynomials (MCParallelSum), or one proof *)
(* (MCProofs) is computed at a time.                                       *)
(*                                                                         *)
(* Words of three bits.  A modulus of two words so large that sums need    *)
(* more, as Field128's is, and small ones, as FieldPrio2's is in 128 bits; *)
(* and moduli of one word.                                                 *)
(***************************************************************************)
EXTENDS Montgomery

CONSTANTS P, Generator, LogOrder, FftThreshold,   \* the field of the polynomials
          Sizes, MCValues,                        \* of the transforms
          MCRands, MCPoints, MCShares, MCKeys     \* of the proofs

VARIABLES layer,                     \* what is computed
          inp, size, l, pass,        \* of MCFft
          job, segments,             \* of ParallelSum
          outp,                      \* the output of either
          stage, typ, input, joint_rand, proof, genuine, shares, t, verifier, accepted,
          report, queried, decision  \* of MCProofs

Transform == INSTANCE MCFft
Sum == INSTANCE MCParallelSum
Proofs == INSTANCE MCProofs

MCModuli ==
    {[p |-> p, words |-> 2] : p \in {5, 37, 53}} \cup {[p |-> p, words |-> 1] : p \in {3, 5, 7}}

ASSUME PrimeModuli /\ RoomAbove

elementVars == <<fp, x, n>>
transformVars == <<inp, size, l, pass>>
sumVars == <<job, segments>>
proofVars == <<stage, typ, input, joint_rand, proof, genuine, shares, t, verifier, accepted,
               report, queried, decision>>
mcvars == <<layer, elementVars, transformVars, sumVars, outp, proofVars>>

NoElement == fp = FieldParameters([p |-> 3, words |-> 1]) /\ x = 0 /\ n = 0
NoTransform == inp = <<>> /\ size = 0 /\ l = 0 /\ pass = "none"
NoSum == job = <<>> /\ segments = <<[status |-> "none"]>>
NoProofs == Proofs!NoProof /\ Proofs!NoShared

MCInit ==
    \/ layer = "element" /\ Init /\ NoTransform /\ NoSum /\ outp = <<>> /\ NoProofs
    \/ layer = "transform" /\ Transform!Init /\ NoElement /\ NoSum /\ NoProofs
    \/ layer = "sum" /\ Sum!MCInit /\ NoElement /\ NoTransform /\ NoProofs
    \/ layer = "proof" /\ Proofs!MCInit /\ NoElement /\ NoTransform /\ NoSum /\ outp = <<>>

MCNext ==
    /\ \/ layer = "element" /\ Next /\ UNCHANGED <<transformVars, sumVars, outp, proofVars>>
       \/ layer = "transform" /\ Transform!Next /\ UNCHANGED <<elementVars, sumVars, proofVars>>
       \/ layer = "sum" /\ Sum!Next /\ UNCHANGED <<elementVars, transformVars, proofVars>>
       \/ layer = "proof" /\ Proofs!MCNext /\ UNCHANGED <<elementVars, transformVars, sumVars, outp>>
    /\ UNCHANGED layer

MCSpec == MCInit /\ [][MCNext]_mcvars

-----------------------------------------------------------------------------
\* After each level of a forward transform, every block holds the values of a part of the
\* input at the roots of the block's size (discrete_fourier_transform).
BlocksAreTransforms == Transform!BlocksAreTransforms

\* The inverse transform gives back what the forward one was given
\* (discrete_fourier_transform_inv_finish).
InverseRestores == Transform!InverseRestores

\* However a sum of gadgets is split among threads, every coefficient that no chunk leaves as
\* an earlier chunk set it is the exact one (ParallelSum, ParallelSumMultithreaded).
SumIsExactWhereWritten == Sum!SumIsExactWhereWritten

\* The proof of a valid input has the length it should have and is accepted, unless it was
\* spoilt by what a sum of products kept in its buffer (prove, query, decide).
Completeness == Proofs!Completeness

\* The shares of the verifier add up to the verifier, and those of the output to the output
\* (query, truncate).
SharesAddUp == Proofs!SharesAddUp

\* A proof of what the circuit refuses is accepted at few points only (decide).
Soundness == Proofs!Soundness

\* The circuit accepts valid inputs always and others for little joint randomness (valid).
CircuitIsSound == Proofs!CircuitIsSound

\* Two aggregators decide on a proof as one would that had both shares, and differ only on a
\* client's fault (src/flp/szk.rs).
SzkDecides == Proofs!SzkDecides
=============================================================================
