----------------------------- MODULE Aggregation ----------------------------
(***************************************************************************)
(* From prepared reports to an aggregate result: the traits Aggregatable,  *)
(* Aggregator and Collector of src/vdaf.rs.  Every aggregator adds its     *)
(* output shares, in an order of its own, to partial aggregate shares that *)
(* it stores, merges and finally hands to the collector, which combines    *)
(* those of all aggregators and may go on with a further aggregation       *)
(* parameter.  The VDAF is a parameter; a fallible call returns a record   *)
(* whose field ok tells success.                                           *)
(***************************************************************************)
EXTENDS Integers, SequencesExt, FiniteSets

CONSTANTS
    Batches,                 \* what may be aggregated: a set of reports and a first parameter
    Partials,                \* 1..k: the partial aggregate shares that an aggregator keeps
    vdaf_num_aggregators(_), \* parameter
    vdaf_prepare(_, _),      \* parameter, report: the output shares by aggregator, or <<>>
    vdaf_aggregate(_, _),    \* parameter, sequence of output shares
    vdaf_merge(_, _),        \* merge and accumulate: an aggregate share is an output share
    vdaf_encode_agg_share(_), vdaf_decode_agg_share(_, _),   \* parameter, encoded share
    vdaf_unshard(_, _, _),   \* parameter, aggregate shares, number of measurements
    next_param(_, _),        \* parameter, result: the next parameter in a sequence, or <<>>
    SameShape(_, _)          \* are two shares vectors of one length over one field?

VARIABLES
    reports,    \* the reports of the batch
    param,      \* the aggregation parameter, in a sequence; <<>> when there is none left
    outs,       \* the output shares of the reports that were prepared, for param
    late,       \* those of a report that is still under way for the parameter before it
    todo,       \* the reports each aggregator has yet to accumulate
    partial,    \* its partial aggregate shares
    collected   \* what the collector obtained, parameter by parameter

vars == <<reports, param, outs, late, todo, partial, collected>>

\* The reports that can be prepared, each with its output shares.
Successful(prep) == Restrict(prep, {r \in DOMAIN prep : prep[r] # <<>>})
PreparedFor(p, batch) == Successful([r \in batch |-> vdaf_prepare(p, r)])

\* What the aggregators begin a parameter with.
NoPartials(p) == [a \in 0..vdaf_num_aggregators(p) - 1 |-> [k \in Partials |-> vdaf_aggregate(p, <<>>).share]]

Init ==
    \E batch \in Batches :
        /\ reports = batch.reports
        /\ param = <<batch.param>>
        /\ outs = PreparedFor(batch.param, batch.reports)
        /\ late = <<>>
        /\ partial = NoPartials(batch.param)
        /\ todo = [a \in DOMAIN partial |-> DOMAIN outs]
        /\ collected = <<>>

Aggregators == DOMAIN partial

\* A share that cannot be added is an error; the accumulator stays as it was.
accumulated(x, y) == LET stays_on_error(sum) == IF sum.ok THEN sum.share ELSE x
                     IN  stays_on_error(vdaf_merge(x, y))

Accumulate(a, k, r) ==
    /\ param # <<>>
    /\ r \in todo[a]
    /\ partial' = [partial EXCEPT ![a][k] = accumulated(@, outs[r][a])]
    /\ todo' = [todo EXCEPT ![a] = @ \ {r}]
    /\ UNCHANGED <<reports, param, outs, late, collected>>

\* An output share of the previous parameter turns up.  A deployment keeps the batches of
\* parameters apart when their shares look alike; the others the VDAF has to refuse.
AccumulateLate(a, k, r) ==
    /\ param # <<>>
    /\ r \in DOMAIN late
    /\ ~SameShape(late[r][a], partial[a][k])
    /\ partial' = [partial EXCEPT ![a][k] = accumulated(@, late[r][a])]
    /\ late' = <<>>
    /\ UNCHANGED <<reports, param, outs, todo, collected>>

\* Fault: what was merged stays where it was.
Merge_keeps_source(a, j, k) ==
    /\ param # <<>>
    /\ j # k
    /\ partial' = [partial EXCEPT ![a][k] = accumulated(@, partial[a][j])]
    /\ UNCHANGED <<reports, param, outs, late, todo, collected>>

Merge(a, j, k) ==
    /\ param # <<>>
    /\ j # k
    /\ partial' = [partial EXCEPT ![a][k] = accumulated(@, partial[a][j]),
                                  ![a][j] = vdaf_aggregate(param[1], <<>>).share]
    /\ UNCHANGED <<reports, param, outs, late, todo, collected>>

\* The partial shares are stored and read back.
Reload(a) ==
    /\ param # <<>>
    /\ partial' = [partial EXCEPT ![a] = [k \in Partials |->
                    vdaf_decode_agg_share(param[1], vdaf_encode_agg_share(@[k]))]]
    /\ UNCHANGED <<reports, param, outs, late, todo, collected>>

\* The partial shares of an aggregator as its aggregate share for the collector.
agg_share(a) == vdaf_aggregate(param[1], [k \in Partials |-> partial[a][k]])

Collect ==
    LET shares == [i \in 1..Cardinality(Aggregators) |-> agg_share(i - 1).share]
        num_measurements == Cardinality(DOMAIN outs)
        res == vdaf_unshard(param[1], shares, num_measurements)
        next == IF res.ok THEN next_param(param[1], res.result) ELSE <<>>
    IN  /\ param # <<>>
        /\ \A a \in Aggregators : todo[a] = {} /\ agg_share(a).ok
        /\ collected' = Append(collected, [param |-> param[1], accepted |-> DOMAIN outs, res |-> res])
        /\ param' = next
        /\ \E r \in reports : late' = Restrict(outs, {r} \cap DOMAIN outs)
        /\ outs' = IF next = <<>> THEN <<>> ELSE PreparedFor(next[1], reports)
        /\ todo' = [a \in Aggregators |-> DOMAIN outs']
        /\ partial' = IF next = <<>> THEN partial ELSE NoPartials(next[1])
        /\ UNCHANGED reports

Next ==
    \/ \E a \in Aggregators, k \in Partials, r \in reports :
        Accumulate(a, k, r) \/ AccumulateLate(a, k, r)
    \/ \E a \in Aggregators, j, k \in Partials : Merge(a, j, k)
    \/ \E a \in Aggregators : Reload(a)
    \/ Collect

Spec == Init /\ [][Next]_vars

-----------------------------------------------------------------------------
\* The output shares that an aggregator has accumulated, in one call of aggregate.
Taken(a) == DOMAIN outs \ todo[a]
in_order(order, a) == [i \in DOMAIN order |-> outs[order[i]][a]]
one_shot(a) == vdaf_aggregate(param[1], in_order(SetToSeq(Taken(a)), a))

\* Aggregation in steps is aggregation at once: whatever was accumulated where and in which
\* order, merged, stored and read back, and whatever turned up late, the partial shares of an
\* aggregator add up to what aggregate makes of the output shares that it has accumulated
\* (Aggregatable and Aggregator of src/vdaf.rs).
StepsAreOneShot == param # <<>> => \A a \in Aggregators : agg_share(a) = one_shot(a)
=============================================================================
