------------------------------- MODULE Driver -------------------------------
(***************************************************************************)
(* The sequential driver of src/vdaf.rs (run_vdaf_prepare), which prepares *)
(* a report in one process by calling the VDAF round after round, and the  *)
(* topology shown to implement what it decides.                            *)
(***************************************************************************)
EXTENDS PingPong

CONSTANT Rounds   \* a bound on the rounds of a preparation; the driver's loop has none

\* Where a turn of the driver's loop begins: every aggregator has a state and has put a
\* prepare share into `outbound`.  Or the loop has ended with what each aggregator obtained,
\* an output share in a sequence of one or nothing.
running(states, shrs) == [running |-> TRUE, states |-> states, outbound |-> shrs]
ended(outputs) == [running |-> FALSE, outputs |-> outputs]
nobody == [a \in Agg |-> <<>>]

\* Shares are decoded under the state of the first aggregator.
combines(t) ==
    /\ \A a \in Agg : vdaf_decodes_share(t.states[Leader], t.outbound[a])
    /\ vdaf_combine(t.outbound[Leader], t.outbound[Helper]).ok
inbound(t) == vdaf_combine(t.outbound[Leader], t.outbound[Helper]).msg

\* What prepare_next returns for an aggregator in a turn.
advance(t, a) == vdaf_prepare_next(t.states[a], inbound(t))

\* One turn: the shares of a round are combined, and every aggregator takes the message.
\* The driver gives up at the first error; the outcomes of the aggregators are kept apart.
turn(t) ==
    IF ~t.running THEN t
    ELSE IF ~combines(t) \/ \E a \in Agg : ~vdaf_decodes_msg(t.states[a], inbound(t))
    THEN ended(nobody)
    ELSE IF \E a \in Agg : advance(t, a).tag # "Continue"
    THEN ended([a \in Agg |-> IF advance(t, a).tag = "Finish" THEN <<advance(t, a).out>> ELSE <<>>])
    ELSE running([a \in Agg |-> advance(t, a).state], [a \in Agg |-> advance(t, a).share])

\* Before the loop: prepare_init for every aggregator.
initialized(rep) ==
    LET init(a) == vdaf_prepare_init(a, rep)
    IN  IF \A a \in Agg : init(a).ok
        THEN running([a \in Agg |-> init(a).state], [a \in Agg |-> init(a).share])
        ELSE ended(nobody)

\* The loop, turn after turn.
turns(rep) ==
    LET t[n \in 0..Rounds] == IF n = 0 THEN initialized(rep) ELSE turn(t[n - 1])
    IN  t

run_vdaf_prepare(rep) == turns(rep)[Rounds].outputs

(***************************************************************************)
(* What the driver takes for granted of a VDAF, with `expect` and panic!,  *)
(* and the topology checks: an aggregator can read the shares and the      *)
(* messages of the round it is in, whoever made them, the aggregators      *)
(* finish at the same time, and they do finish.                            *)
(***************************************************************************)
ASSUME RoundContract ==
    /\ Rounds \in Nat
    /\ \A rep \in Reports : ~turns(rep)[Rounds].running
    /\ \A rep \in Reports : \A n \in 0..Rounds :
        LET t == turns(rep)[n]
        IN  t.running =>
            /\ \A a, b \in Agg : vdaf_decodes_share(t.states[a], t.outbound[b])
            /\ combines(t) =>
                /\ \A a \in Agg : vdaf_decodes_msg(t.states[a], inbound(t))
                /\ \A a, b \in Agg : ~(advance(t, a).tag = "Continue" /\ advance(t, b).tag = "Finish")

-----------------------------------------------------------------------------
Verdicts ==
    [a \in Agg |-> IF HostFinished(a) THEN "finished"
                   ELSE IF phase[a] = "Rejected" THEN "rejected" ELSE "undecided"]
Outputs == [a \in Agg |-> IF HostFinished(a) THEN <<OutputOf(a)>> ELSE <<>>]

Sequential == INSTANCE Preparation WITH
    Aggregators <- Agg, Prepared <- run_vdaf_prepare, verdict <- Verdicts, output <- Outputs

\* The topology implements the sequential driver: over messages lost, repeated and out of
\* order and through crashes, each aggregator finishes with the output share the driver
\* would hand it, rejects only what the driver fails on, never changes its mind, and when
\* the driver succeeds both of them do finish.
ImplementsDriver == Sequential!Spec
=============================================================================
