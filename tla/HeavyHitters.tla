---------------------------- MODULE HeavyHitters ----------------------------
(***************************************************************************)
(* The collector of Poplar1 reports that searches for the measurements     *)
(* sent by at least Threshold clients, level by level, the way             *)
(* run_heavy_hitters of src/vdaf/poplar1.rs does.  The aggregation         *)
(* parameter is a record with the candidate prefixes; a report tells its   *)
(* measurement and whether its client cheats.                              *)
(***************************************************************************)
EXTENDS Aggregation, Poplar1

CONSTANT Threshold

ASSUME ThresholdAssumption == Threshold \in Nat \ {0}

HoldsPrefixes(p) == "prefixes" \in DOMAIN p

\* The children of the frequent prefixes.
next_prefixes(prefixes, counts) ==
    FoldLeft(LAMBDA next, i : IF counts[i] >= Threshold
                              THEN next \o <<Append(prefixes[i], 0), Append(prefixes[i], 1)>>
                              ELSE next,
             <<>>, [i \in DOMAIN prefixes |-> i])

\* A measurement that is sent counts once for each prefix that it has; the report of an honest
\* client is always prepared.
CountsOnce(p, rep) ==
    LET out == vdaf_prepare(p, rep)
    IN  /\ ~rep.cheats => out # <<>>
        /\ out # <<>> => \A i \in DOMAIN p.prefixes :
              (out[0].elems[i] + out[1].elems[i]) % P =
                  IF IsPrefix(p.prefixes[i], rep.measurement) THEN 1 ELSE 0

CountIn(batch, prefix) == Cardinality({r \in batch : IsPrefix(prefix, r.measurement)})

-----------------------------------------------------------------------------
\* At every level, whatever the order of accumulation, the merging of partial shares and
\* the late shares of the level before, the collector obtains for each candidate prefix
\* how many accepted reports have it.
CountsAreExact ==
    \A c \in Range(collected) : HoldsPrefixes(c.param) =>
        /\ c.res.ok
        /\ \A i \in DOMAIN c.param.prefixes :
              c.res.result[i] = CountIn(c.accepted, c.param.prefixes[i])

\* The search ends with every measurement that enough honest clients sent, and with none
\* that fewer clients sent than the threshold: no level loses a candidate.
FindsHeavyHitters ==
    param = <<>> /\ HoldsPrefixes(collected[1].param) =>
        LET last == collected[Len(collected)]
            prefixes == last.param.prefixes
            found == {prefixes[i] : i \in {j \in DOMAIN prefixes :
                          IsLeaf(prefixes) /\ last.res.result[j] >= Threshold}}
            honest == {r \in reports : ~r.cheats}
        IN  /\ \A m \in [1..Bits -> {0, 1}] : CountIn(honest, m) >= Threshold => m \in found
            /\ \A m \in found : CountIn(reports, m) >= Threshold
=============================================================================
