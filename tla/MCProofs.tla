------------------------------ MODULE MCProofs ------------------------------
(***************************************************************************)
(* The fully linear proofs, by themselves (MCFlp) and as the proofs that   *)
(* two aggregators decide on (MCSzk): one proof or one report at a time.   *)
(***************************************************************************)
EXTENDS MCFlp

CONSTANTS MCKeys   \* of Szk

VARIABLES report, queried, decision       \* of Szk

\* What the XOF absorbs as its seed, as a number.
MCSeedNumber(seed, dst) ==
    LET vector(acc, v) == FoldLeft(LAMBDA x, y : (3 * x + y + 1) % 101, acc, v)
        part(acc, p) == vector((5 * acc + p[2] + p[3]) % 101, p[4])
    IN  IF dst[1] # "joint_rand" THEN seed ELSE part(part(1, seed[2]), seed[3])

MCTag == [prove_rand |-> 1, joint_rand |-> 2, proof_share |-> 4, query_rand |-> 5]
MCStream(h, i, tag) == (h * h + (h + 2) * i + (i * i * i) \div 2 + 2 * tag) % P
MCXof(seed, dst, i) ==
    MCStream(MCTag[dst[1]] + MCSeedNumber(seed, dst), i, MCTag[dst[1]])

Shared == INSTANCE MCSzk WITH Xof <- MCXof
NoReport == [typ |-> Count]
sharedVars == <<report, queried, decision>>

NoProof ==
    /\ stage = "none" /\ typ = Count
    /\ input = <<>> /\ joint_rand = <<>> /\ proof = <<>> /\ genuine = FALSE /\ shares = <<>>
    /\ t = <<>> /\ verifier = <<>> /\ accepted = FALSE
NoShared == report = NoReport /\ queried = <<>> /\ decision = <<>>

MCInit == (Init /\ NoShared) \/ (Shared!MCInit /\ NoProof)

MCNext ==
    \/ Next /\ UNCHANGED sharedVars
    \/ report # NoReport /\ Shared!Next /\ UNCHANGED vars

-----------------------------------------------------------------------------
\* Two aggregators that never see the whole input accept only what is proved about it under
\* joint randomness that both contributed to, reject nothing else, and decide differently
\* only on a client's fault (prove, query and decide of src/flp/szk.rs).
SzkDecides == report # NoReport => Shared!SzkDecides
=============================================================================
