--------------------------- MODULE MCPingPongPrio3 --------------------------
(***************************************************************************)
(* PingPong running Prio3 with two aggregators: honest uploads, and        *)
(* uploads malformed in each part a client sends.                          *)
(***************************************************************************)
EXTENDS Driver, Prio3

CONSTANTS
    MCMeasurements,
    MCSalts,   \* the seeds of a client's randomness
    MCKeys     \* verification keys

MCTypHistogram == Histogram(3, 2)

\* What the XOF absorbs as its seed, as a number: a joint randomness seed is made of parts.
MCSeedNumber(seed, dst) ==
    LET vector(acc, v) == FoldLeft(LAMBDA x, y : (3 * x + y + 1) % 101, acc, v)
    IN  IF dst[1] # "joint_rand" THEN seed
        ELSE FoldLeft(LAMBDA acc, part :
                        vector((5 * acc + part[2] + part[3] + part[4]) % 101, part[5]),
                      1, seed[2])

MCTag == [prove_rand |-> 1, joint_rand |-> 2, measurement_share |-> 3, proof_share |-> 4,
          query_rand |-> 5]
MCStream(h, i, tag) == (h * h + (h + 2) * i + (i * i * i) \div 2 + 2 * tag) % P
MCXof(seed, dst, i) ==
    LET tag == MCTag[dst[1]]
    IN  MCStream(FoldLeft(LAMBDA acc, x : (3 * acc + x + 1) % 101, tag + MCSeedNumber(seed, dst),
                          Tail(dst)), i, tag)

-----------------------------------------------------------------------------
Nonce == 4
\* A part replaced by one that hashes to the same joint randomness ("_colliding": in a
\* small field the stream has few values) leaves the check of the seeds to find it out.
Tampers ==
    {"none", "measurement", "first_proof", "last_proof"}
      \cup (IF HasJointRand
            THEN {"leader_part", "leader_part_colliding", "helper_part_colliding", "helper_blind"}
            ELSE {})
MCUpload(m, salt) ==
    [measurement |-> m,
     upload |-> shard_with_random(m, Nonce, [k \in 1..random_size |-> 10 * salt + k])]

\* An honest client with such random bytes that, in its first proof, a wire polynomial of the
\* last chunk loses its leading coefficient.
MCUnlucky == <<1, 13>>
MCUploads ==
    {MCUpload(x[1], x[2]) : x \in (MCMeasurements \X MCSalts) \cup {MCUnlucky}}

Tampered(upload, tamper) ==
    CASE tamper = "none" -> upload
      [] tamper = "measurement" ->
            [upload EXCEPT !.input_shares[0].measurement_share[1] = (@ + 2) % P]
      [] tamper = "first_proof" ->
            [upload EXCEPT !.input_shares[0].proofs_share[1] = (@ + 1) % P]
      [] tamper = "last_proof" ->
            [upload EXCEPT !.input_shares[0].proofs_share[typ.proof_len * num_proofs] = (@ + 1) % P]
      [] tamper = "leader_part" -> [upload EXCEPT !.public_share[1][2] = 0]
      [] tamper = "leader_part_colliding" -> [upload EXCEPT !.public_share[1][2] = @ + 101]
      [] tamper = "helper_part_colliding" -> [upload EXCEPT !.public_share[2][2] = @ + 101]
      [] tamper = "helper_blind" -> [upload EXCEPT !.input_shares[1].joint_rand_blind = 0]

MCReport(u, key, tamper) ==
    [vdaf |-> "Prio3", measurement |-> u.measurement, key |-> key, tamper |-> tamper,
     upload |-> Tampered(u.upload, tamper)]
MCReports ==
    {MCReport(u, key, tamper) : u \in MCUploads, key \in MCKeys, tamper \in Tampers}
MCHonest == {rep \in MCReports : rep.tamper = "none"}

MCprepare_init(a, rep) ==
    prepare_init(rep.key, a, Nonce, rep.upload.public_share, rep.upload.input_shares[a])
MCcombine(l, h) == prepare_shares_to_prepare_message(<<l, h>>)

\* The types of the Aggregator implementation: what preparing the reports can yield.
MCInits(a) == {r \in {MCprepare_init(a, rep) : rep \in MCReports} : r.ok}
MCPrepStates == <<{r.state : r \in MCInits(0)}, {r.state : r \in MCInits(1)}>>
MCPrepState(a) == MCPrepStates[a + 1]
MCPrepShares == <<{r.share : r \in MCInits(0)}, {r.share : r \in MCInits(1)}>>
MCPrepShare == MCPrepShares[1] \cup MCPrepShares[2]
MCPrepMsg ==
    IF ~HasJointRand THEN {None}
    ELSE LET parts == {s.joint_rand_part : s \in MCPrepShare}
         IN  {derive_joint_rand_seed(<<x, y>>) : x, y \in parts}
MCOutShare == [1..typ.output_len -> F]

-----------------------------------------------------------------------------
\* The parts of the joint randomness as the input shares determine them.
TrueParts(upload) ==
    IF ~HasJointRand THEN None
    ELSE [i \in 1..num_aggregators |->
            own_joint_rand_part(i - 1, Nonce, upload.input_shares[i - 1])]

\* The input the shares are shares of.
WholeInput(upload) ==
    merge_vector(expanded_measurement(upload.input_shares[0], 0),
                 expanded_measurement(upload.input_shares[1], 1))

\* The proofs and the joint randomness, as the shares determine them.
WholeProof(upload, p) ==
    piece(merge_vector(expanded_proofs(upload.input_shares[0], 0),
                       expanded_proofs(upload.input_shares[1], 1)), typ.proof_len, p)
TrueJointRand(upload, p) ==
    piece(IF HasJointRand THEN derive_joint_rands(TrueParts(upload)) ELSE <<>>, typ.joint_rand_len, p)
QueryRand(rep, p) == piece(derive_query_rands(rep.key, Nonce), query_rand_len(typ), p)

\* What preparation ought to decide, computed on the whole input and the whole proofs.
IsProved(rep) ==
    LET upload == rep.upload
        input == WholeInput(upload)
    IN  /\ upload.public_share = TrueParts(upload)
        /\ \A p \in 1..num_proofs :
            decide(typ, query(typ, input, WholeProof(upload, p), QueryRand(rep, p),
                              TrueJointRand(upload, p), 1))

\* Both aggregators finish exactly when the client's joint randomness parts are those of
\* its shares and every one of its proofs holds for the measurement as a whole.
AcceptsWhatIsProved ==
    report.vdaf = "Prio3" =>
        /\ HostFinished(Leader) /\ HostFinished(Helper) => IsProved(report)
        /\ (\E a \in Agg : error[a] \in {"VdafPrepareSharesToPrepareMessage", "VdafPrepareNext"})
              => ~IsProved(report)

\* An honest report is rejected by chance only, and never by one aggregator when the other
\* has finished: because the query randomness is a root of unity, before anything has been
\* sent about it; or, when the verifiers are combined, because one of its proofs was spoilt as
\* it was made (a sum of products kept coefficients of an earlier one, gadgets.rs:53).
HonestRejectedOnlyByChance ==
    report.vdaf = "Prio3" /\ report \in Honest => \A a \in Agg :
        phase[a] = "Rejected" =>
            /\ \A b \in Agg : ~HostFinished(b)
            /\ \/ /\ error[a] = "VdafPrepareInit"
                  /\ \E p \in 1..num_proofs : ~query_rand_ok(typ, QueryRand(report, p))
                  /\ net = {}
               \/ /\ error[a] = "VdafPrepareSharesToPrepareMessage"
                  /\ \E p \in 1..num_proofs :
                        spoilt(typ, WholeInput(report.upload), WholeProof(report.upload, p),
                               TrueJointRand(report.upload, p))

\* When the helper finishes with an output share and the leader rejects the report, the
\* client sent joint randomness parts that do not belong to its shares: the aggregators
\* end up apart for no other reason.
SplitVerdictIsTheClients ==
    report.vdaf = "Prio3" /\ HostFinished(Helper) /\ phase[Leader] = "Rejected" =>
        report.upload.public_share # TrueParts(report.upload)

\* The output shares of an accepted report add up to the truncated input, and for an
\* honest client that is its measurement: nothing a helper derives again from its seed, at
\* preparation or after a restart, differs from what the client subtracted.
OutputsAddUp ==
    report.vdaf = "Prio3" /\ HostFinished(Leader) /\ HostFinished(Helper) =>
        LET outputs == merge_vector(OutputOf(Leader), OutputOf(Helper))
        IN  /\ outputs = truncate(typ, WholeInput(report.upload))
            /\ report \in Honest =>
                outputs = truncate(typ, encode_measurement(typ, report.measurement))
=============================================================================
