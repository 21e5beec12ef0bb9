-------------------------- MODULE MCPingPongPoplar1 -------------------------
(***************************************************************************)
(* PingPong running Poplar1: honest and malformed uploads, prepared at     *)
(* every level for one or two candidate prefixes.                          *)
(***************************************************************************)
EXTENDS PingPongPoplar1

CONSTANT MCSeeds

\* A stream of field elements in which neighbouring positions differ.
MCXof(seed, dst, i) ==
    LET tag == CASE dst[1] = "shard" -> 1
                 [] dst[1] = "corr_inner" -> 2
                 [] dst[1] = "corr_leaf" -> 3
                 [] dst[1] = "idpf" -> 4
                 [] dst[1] = "verify" -> 6
        h == FoldLeft(LAMBDA acc, x : 3 * acc + x + 1, tag + seed, Tail(dst))
    IN  (h * h + (h + 2) * i + (i * i * i) \div 2 + seed * i) % P

MCMaxPrefixes == 2
MCPrepState(a) == PrepState(a, MCMaxPrefixes)
MCOutShare == OutShare(MCMaxPrefixes)

-----------------------------------------------------------------------------
\* What is prepared is described by a record and expanded on use.  The client's
\* measurement is Path; `prefixes` are candidates of one level, the path's own,
\* a wrong one, or both in order, or one longer than a measurement; `tamper` is
\* how the values programmed into the IDPF at that level are malformed.
Path == [i \in 1..Bits |-> i % 2]
Node(level) == SubSeq(Path, 1, level + 1)
OffPath(p) == [p EXCEPT ![Len(p)] = 1 - @]
Candidates ==
    LET at(level) ==
            LET on == Node(level)
                off == OffPath(on)
            IN  {<<on>>, <<off>>, IF on[Len(on)] = 0 THEN <<on, off>> ELSE <<off, on>>}
    IN  UNION {at(level) : level \in 0..Bits - 1} \cup {<<Append(Path, 0)>>}

Tampers == {"none", "double", "auth", "double_auth", "two_paths"}

MCReports ==
    [corr : {<<x, y>> : x, y \in MCSeeds}, shard : MCSeeds, idpf : MCSeeds,
     key : MCSeeds, prefixes : Candidates, tamper : Tampers]
MCHonest == [corr : {<<x, y>> : x, y \in MCSeeds}, shard : MCSeeds, idpf : MCSeeds,
             key : MCSeeds, prefixes : Candidates \ {<<Append(Path, 0)>>}, tamper : {"none"}]

JobOf(rep) ==
    LET upload == shard(Path, [corr |-> rep.corr, shard |-> rep.shard, idpf |-> rep.idpf])
        on == SubSeq(Path, 1, Len(rep.prefixes[1]))
        tampered ==
            CASE rep.tamper = "none" \/ Len(rep.prefixes[1]) > Bits -> upload
              [] rep.tamper = "double" -> [upload EXCEPT !.values[on][1] = 2]
              [] rep.tamper = "auth" -> [upload EXCEPT !.values[on][2] = (@ + 1) % P]
              [] rep.tamper = "double_auth" ->
                    [upload EXCEPT !.values[on] = [k \in 1..2 |-> (2 * @[k]) % P]]
              [] rep.tamper = "two_paths" -> [upload EXCEPT !.values[OffPath(on)] = upload.values[on]]
    IN  [upload |-> tampered, prefixes |-> rep.prefixes, verify_key |-> rep.key]

MCprepare_init(a, rep) == prepare_init(a, JobOf(rep))

ASSUME InstanceOfPoplar1 == RunsPoplar1 /\ JobsOfPoplar1
=============================================================================
