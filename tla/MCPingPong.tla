----------------------------- MODULE MCPingPong -----------------------------
(***************************************************************************)
(* PingPong with a VDAF of up to Rounds rounds whose shares and            *)
(* messages say where they come from, so that any mix-up of rounds or of   *)
(* aggregators shows.  Like the dummy VDAF of src/vdaf/dummy.rs it counts  *)
(* its rounds, takes every prepare message without looking at it, and can  *)
(* be told to fail.                                                        *)
(***************************************************************************)
EXTENDS Driver

MCShare == [agg : Agg, round : 1..Rounds, good : BOOLEAN]
MCMsg == [l : MCShare, h : MCShare]
MCOut == [agg : Agg, seen : 1..Rounds]

\* Where a preparation fails: nowhere, or in one call of one aggregator.
Faults ==
    {[at |-> "nowhere", agg |-> 0, round |-> 0]}
      \cup [at : {"init"}, agg : Agg, round : {0}]
      \cup [at : {"next"}, agg : Agg, round : 1..Rounds]
      \cup [at : {"combine"}, agg : Agg, round : 1..Rounds]

MCReports == [rounds : 1..Rounds, fault : Faults]
MCHonest == {rep \in MCReports : rep.fault.at = "nowhere"}
MCState(a) == [agg : {a}, round : 1..Rounds, rep : MCReports]

\* A share that is not good makes the combination fail.
MCShareOf(a, rep, n) ==
    [agg |-> a, round |-> n, good |-> rep.fault # [at |-> "combine", agg |-> a, round |-> n]]

MCprepare_init(a, rep) ==
    IF rep.fault.at = "init" /\ rep.fault.agg = a
    THEN [ok |-> FALSE]
    ELSE [ok |-> TRUE, state |-> [agg |-> a, round |-> 1, rep |-> rep],
          share |-> MCShareOf(a, rep, 1)]

MCcombine(l, h) == [ok |-> l.good /\ h.good, msg |-> [l |-> l, h |-> h]]

MCprepare_next(s, m) ==
    IF s.rep.fault.at = "next" /\ s.rep.fault.agg = s.agg /\ s.rep.fault.round = s.round
    THEN [tag |-> "Err"]
    ELSE IF s.round >= s.rep.rounds
    THEN [tag |-> "Finish", out |-> [agg |-> s.agg, seen |-> s.round]]
    ELSE [tag |-> "Continue", state |-> [s EXCEPT !.round = @ + 1],
          share |-> MCShareOf(s.agg, s.rep, s.round + 1)]

MCdecodes(s, x) == TRUE
MCencode_state(s) == [round |-> s.round, rep |-> s.rep]
MCdecode_state(a, e) == [agg |-> a, round |-> e.round, rep |-> e.rep]
=============================================================================
