---------------------------- MODULE Preparation -----------------------------
(***************************************************************************)
(* What the preparation of one report promises to those who use it, with   *)
(* no messages in it: every aggregator decides on the report at most once, *)
(* finishes only with its own output share, and rejects only a report that *)
(* some aggregator cannot prepare.  Prepared(rep) is what the sequential   *)
(* driver obtains for each aggregator: its output share in a sequence of   *)
(* one, or <<>> where preparation fails.                                   *)
(***************************************************************************)
CONSTANTS Aggregators, Prepared(_)

VARIABLES
    report,   \* the report being prepared
    verdict,  \* each aggregator's decision
    output    \* its output share, in a sequence of one, once it has finished

Succeeds == \A a \in Aggregators : Prepared(report)[a] # <<>>

Init ==
    /\ verdict = [a \in Aggregators |-> "undecided"]
    /\ output = [a \in Aggregators |-> <<>>]

Accept(a) ==
    /\ verdict[a] = "undecided"
    /\ Prepared(report)[a] # <<>>
    /\ verdict' = [verdict EXCEPT ![a] = "finished"]
    /\ output' = [output EXCEPT ![a] = Prepared(report)[a]]
    /\ UNCHANGED report

Reject(a) ==
    /\ verdict[a] = "undecided"
    /\ ~Succeeds
    /\ verdict' = [verdict EXCEPT ![a] = "rejected"]
    /\ UNCHANGED <<report, output>>

Next == \E a \in Aggregators : Accept(a) \/ Reject(a)

\* Decisions are the driver's, and each is taken once.
DecidesRightly == Init /\ [][Next]_<<report, verdict, output>>

\* Every aggregator finishes when preparation succeeds, and nobody is left waiting for
\* another one when it does not.
Decides ==
    <>(IF Succeeds THEN \A a \in Aggregators : verdict[a] = "finished"
                   ELSE \E a \in Aggregators : verdict[a] # "undecided")

Spec == DecidesRightly /\ Decides
=============================================================================
