--------------------------- MODULE PingPongPoplar1 --------------------------
(***************************************************************************)
(* Poplar1 over the ping-pong topology: a report stands for a job, that is *)
(* an upload and an aggregation parameter to prepare it for, and what the  *)
(* topology calls is the Aggregator implementation of src/vdaf/poplar1.rs. *)
(***************************************************************************)
EXTENDS Driver, Poplar1

CONSTANT job_of(_)   \* the job of a report

\* What the topology calls is Poplar1.
RunsPoplar1 ==
    /\ Rounds = 2
    /\ \A a \in Agg, rep \in Reports : vdaf_prepare_init(a, rep) = prepare_init(a, job_of(rep))
    /\ \A l, h \in VdafPrepShare : vdaf_combine(l, h) = prepare_shares_to_prepare_message(l, h)
    /\ \A a \in Agg : \A s \in VdafPrepState(a) :
        /\ \A m \in VdafPrepMsg : /\ vdaf_prepare_next(s, m) = prepare_next(s, m)
                                  /\ vdaf_decodes_msg(s, m) = decodes_msg(s, m)
        /\ \A x \in VdafPrepShare : vdaf_decodes_share(s, x) = decodes_share(s, x)

\* A job: an aggregation parameter, and an upload whose IDPF may be programmed with any
\* values.  Its correlated randomness is what the seeds of the upload give.
IsJob(job) ==
    /\ job.prefixes \in Seq(Seq({0, 1})) /\ try_from_prefixes(job.prefixes)
    /\ LevelOf(job) < Bits =>
        /\ \A p \in Prefix : job.upload.values[p] \in [1..2 -> F]
        /\ job.upload.corr[LevelOf(job)] = compute_next_corr_shares(job.upload.seeds, LevelOf(job))

\* A job of an honest client: it programs the path of its measurement.
IsHonestJob(job) ==
    /\ LevelOf(job) < Bits
    /\ \E measurement \in [1..Bits -> {0, 1}] :
        job.upload.values = shard(measurement, job.upload.seeds).values

JobsOfPoplar1 ==
    /\ \A rep \in Reports : IsJob(job_of(rep))
    /\ \A rep \in Honest : IsHonestJob(job_of(rep))

\* Every element of a stream is an element of the field.
StreamsOfTheField == \A seed, dst, i : Xof(seed, dst, i) \in F

\* The number of elements to skip does not wrap at any inner level.
NoWrap == \A level \in 0..Bits - 2 : fast_forward(level) = 3 * level

-----------------------------------------------------------------------------
\* Preparation decides exactly what the sketch says about the values the client programmed:
\* the offsets a, b, c taken from the streams at the job's level, the shares of A and B, the
\* IDPF masks and the leader/helper asymmetry all cancel.  Otherwise a report is rejected
\* only for a prefix longer than a measurement.
AcceptsBySketch ==
    LET job == job_of(report)
    IN  /\ \A a \in Agg : HostFinished(a) => LevelOf(job) < Bits /\ SketchHolds(job)
        /\ \A a \in Agg : phase[a] = "Rejected" => LevelOf(job) >= Bits \/ ~SketchHolds(job)

\* No report of an honest client is rejected: whatever the seeds, the level and the candidate
\* prefixes, the sketch of the values on the path of one measurement holds.
HonestNeverRejected ==
    report \in Honest => \A a \in Agg : phase[a] # "Rejected"

\* The two output shares of an accepted report add up to the values the client programmed at
\* the candidate prefixes, in the order of the prefixes.
OutputsAddUp ==
    HostFinished(Leader) /\ HostFinished(Helper) =>
        LET job == job_of(report)
            l == OutputOf(Leader)
            h == OutputOf(Helper)
        IN  /\ l.kind = h.kind
            /\ \A i \in 1..Len(job.prefixes) :
                (l.elems[i] + h.elems[i]) % P = job.upload.values[job.prefixes[i]][1]
=============================================================================
