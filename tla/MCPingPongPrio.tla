--------------------------- MODULE MCPingPongPrio ---------------------------
(***************************************************************************)
(* PingPong running Prio3 (MCPingPongPrio3) or Prio2: a report says which. *)
(* For Prio2, uploads of bits, of other numbers, and uploads malformed in  *)
(* each part of the proof.                                                 *)
(***************************************************************************)
EXTENDS MCPingPongPrio3

CONSTANTS MCPrio2Keys   \* verification keys of Prio2

MCPrio2Xof(seed, i) ==
    LET h == FoldLeft(LAMBDA acc, x : (7 * acc + x) % 101, 0, seed)
    IN  (h * h + (h + 2) * i + (i * i * i) \div 2) % P

P2 == INSTANCE Prio2 WITH input_len <- 2, Xof <- MCPrio2Xof

HelperSeed == <<5>>
ProveSeed == <<9>>

\* The elements of the leader's share that are changed: one of the data, the three values at
\* one, the first and the last point of h; 0 for none.
MCPrio2Tampers == {0, 1, 3, 4, 5, 6, P2!proof_length}
MCPrio2Uploads ==
    {[measurement |-> m, shares |-> P2!shard(m, HelperSeed, ProveSeed)] :
        m \in {v \in [1..2 -> {0, 1, 2}] : v[1] >= v[2]}}
AreBits(v) == \A i \in DOMAIN v : v[i] \in {0, 1}
MCPrio2Reports ==
    {[vdaf |-> "Prio2", key |-> key, honest |-> k = 0 /\ AreBits(u.measurement),
      shares |-> IF k = 0 THEN u.shares ELSE [u.shares EXCEPT ![0].data[k] = (@ + 1) % P]] :
        u \in MCPrio2Uploads, key \in MCPrio2Keys, k \in MCPrio2Tampers}
MCAllReports == MCReports \cup MCPrio2Reports
MCAllHonest == MCHonest \cup {rep \in MCPrio2Reports : rep.honest}

-----------------------------------------------------------------------------
\* The VDAF of a state or a share.  Shares of two VDAFs cannot be combined.
IsPrio2State(s) == "data" \in DOMAIN s
IsPrio2Share(s) == "f_r" \in DOMAIN s

MCAllprepare_init(a, rep) ==
    IF rep.vdaf = "Prio3" THEN MCprepare_init(a, rep)
    ELSE P2!prepare_init(rep.key, a, Nonce, rep.shares[a])
MCAllcombine(l, h) ==
    CASE IsPrio2Share(l) /\ IsPrio2Share(h) -> P2!prepare_shares_to_prepare_message(<<l, h>>)
      [] ~IsPrio2Share(l) /\ ~IsPrio2Share(h) -> MCcombine(l, h)
      [] OTHER -> [ok |-> FALSE]
MCAllprepare_next(s, msg) ==
    IF IsPrio2State(s) THEN P2!prepare_next(s, msg) ELSE prepare_next(s, msg)
MCAlldecodes_share(s, share) ==
    IF IsPrio2State(s) THEN P2!decodes_share(s, share) ELSE decodes_share(s, share)
MCAlldecodes_msg(s, msg) ==
    IF IsPrio2State(s) THEN P2!decodes_msg(s, msg) ELSE decodes_msg(s, msg)

\* An aggregator knows with which VDAF it stored a state.
MCAllencode_state(s) ==
    IF IsPrio2State(s) THEN <<"Prio2", P2!encode_state(s)>> ELSE <<"Prio3", encode_state(s)>>
MCAlldecode_state(a, stored) ==
    IF stored[1] = "Prio2" THEN P2!decode_state(a, stored[2]) ELSE decode_state(a, stored[2])

MCPrio2Inits == <<{MCAllprepare_init(0, rep) : rep \in MCPrio2Reports},
                  {MCAllprepare_init(1, rep) : rep \in MCPrio2Reports}>>
MCAllPrepStates == <<MCPrepStates[1] \cup {r.state : r \in MCPrio2Inits[1]},
                     MCPrepStates[2] \cup {r.state : r \in MCPrio2Inits[2]}>>
MCAllPrepState(a) == MCAllPrepStates[a + 1]
MCAllPrepShare == MCPrepShare \cup {r.share : r \in MCPrio2Inits[1] \cup MCPrio2Inits[2]}
MCAllPrepMsg == MCPrepMsg \cup {<<>>}
MCAllOutShare == MCOutShare \cup [1..2 -> P2!F]

-----------------------------------------------------------------------------
\* The proof that the shares are shares of, and whether it holds at a point.
Whole(rep) == P2!merge_vector(P2!expanded(rep.shares[0], P2!proof_length),
                              P2!expanded(rep.shares[1], P2!proof_length))
HoldsAt(proof, x) ==
    \E v \in {P2!generate_verification_message(x, proof, TRUE)} : (v.f_r * v.g_r) % P = v.h_r

\* The aggregators decide about a vector that neither sees.  No honest report is rejected,
\* whatever the point their key gives; both finish only when the product of the polynomials is
\* right at that point, with output shares that add up to the vector; and a vector that is not
\* of bits, with whatever proof, would pass at no more of the points choose_eval_at can return
\* than a product has roots (prio2.rs; construct_proof, generate_verification_message).
DecidesOnBits ==
    report.vdaf = "Prio2" => \A proof \in {Whole(report)} :
        LET point == P2!choose_eval_at(P2!hmac(report.key, Nonce))
            data == SubSeq(proof, 1, 2)
        IN  /\ report \in Honest => \A a \in Agg : phase[a] # "Rejected"
            /\ \A a \in Agg : phase[a] = "Rejected" => ~HoldsAt(proof, point)
            /\ HostFinished(Leader) /\ HostFinished(Helper) =>
                  HoldsAt(proof, point) /\ P2!merge_vector(OutputOf(Leader), OutputOf(Helper)) = data
            /\ HostFinished(Helper) /\ ~AreBits(data) =>
                  Cardinality({x \in P2!F : ~P2!is_root(x) /\ HoldsAt(proof, x)}) <= 2 * P2!n - 1
=============================================================================
