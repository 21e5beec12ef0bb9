------------------------------- MODULE MCDpf --------------------------------
(***************************************************************************)
(* The two distributed point functions, Idpf or Vidpf at a time, with      *)
(* seeds of three bits.  The random keys make every control bit on the     *)
(* path be one for either aggregator in some report.                       *)
(***************************************************************************)
EXTENDS Idpf

MCSeedBits == {0, 1, 2}
MCNumber(seed) == (IF 0 \in seed THEN 1 ELSE 0) + (IF 1 \in seed THEN 2 ELSE 0)
                    + (IF 2 \in seed THEN 4 ELSE 0)
MCSeed(n) == {i \in MCSeedBits : (n \div 2^i) % 2 = 1}

MCExtendXof(key, block) == MCSeed((5 * MCNumber(key) + 3 * block + 1) % 8)
MCConvertSeed(seed) == MCSeed((3 * MCNumber(seed) + 5) % 8)
MCConvertValue(seed) == (MCNumber(seed) * MCNumber(seed) + 1) % P

MCKeys == {<<MCSeed(3), MCSeed(6)>>, <<MCSeed(1), MCSeed(4)>>}
MCReports == [input : {<<0, 1, 1>>, <<1, 0, 1>>}, values : {<<1, 2, 2>>}, random : MCKeys]

\* For Vidpf: inputs of up to three bits, one of them longer than its
\* levels can be encoded, and weights of two elements.
MCPrgXof(seed, nonce, block) == MCSeed((5 * MCNumber(seed) + 3 * block + nonce) % 8)
MCNonceSeed(seed, nonce) == MCSeed((3 * MCNumber(seed) + 5 * nonce) % 8)
MCConvertWeight(seed, nonce, i) == (MCNumber(seed) * MCNumber(seed) + nonce + i) % P

MCVidpfReports ==
    [input : {<<0, 1>>, <<1, 1>>, <<1, 0>>, <<0, 0, 1>>}, weight : {<<1, 2>>, <<0, 1>>}, nonce : {1},
     keys : MCKeys]

VARIABLES upload, public, damage, nodes   \* of Vidpf: the client's report, and the rest
Verifiable == INSTANCE Vidpf WITH LevelWidth <- 1, WeightLen <- 2, report <- upload,
                PrgXof <- MCPrgXof, ConvertSeed <- MCNonceSeed, ConvertWeight <- MCConvertWeight,
                Reports <- MCVidpfReports

ASSUME Verifiable!VidpfContract

NoUpload == [input |-> <<>>]
verifiableVars == <<upload, public, damage, nodes>>

MCInit ==
    \/ /\ Init
       /\ upload = NoUpload /\ public = <<>> /\ damage = "none" /\ nodes = <<>>
    \/ /\ Verifiable!Init
       /\ agg = 0 /\ report = NoUpload /\ words = <<>> /\ kind = "NoCache" /\ capacity = 0
       /\ cache = <<>> /\ asked = <<>> /\ answer = -1

MCNext ==
    \/ upload = NoUpload /\ Next /\ UNCHANGED verifiableVars
    \/ upload # NoUpload /\ Verifiable!Next /\ UNCHANGED vars

MCSpec == MCInit /\ [][MCNext]_<<vars, verifiableVars>>

-----------------------------------------------------------------------------
\* For an honest report the servers' shares add up to the weight on the path of the input and
\* to zero elsewhere, with equal proofs, in whatever order prefixes are evaluated
\* (gen_with_keys, eval_next and eval of src/vidpf.rs).
VidpfPointFunction == upload # NoUpload => Verifiable!VidpfPointFunction

\* Servers whose proofs are equal at a prefix have shares that add up at it and above it, also
\* when one holds a damaged public share (node_proof and node_proof_adjustment).
ProofsVouch == upload # NoUpload => Verifiable!ProofsVouch
=============================================================================
