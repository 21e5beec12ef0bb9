------------------------------ MODULE PingPong ------------------------------
(***************************************************************************)
(* The ping-pong topology of src/topology/ping_pong.rs: two aggregators    *)
(* prepare one report by exchanging Initialize, Continue and Finish        *)
(* messages.  The handlers are those of trait PingPongTopology; the VDAF   *)
(* they call is a parameter (the Aggregator trait of src/vdaf.rs).         *)
(*                                                                         *)
(* The deployment around the handlers (a DAP server) is outside the        *)
(* repository.  It is modelled by what the documentation of the trait lets *)
(* it do: it stores, between rounds, either a prepare state or a           *)
(* PingPongTransition, it may crash and reload what it stored, it          *)
(* evaluates a stored transition as often as it likes, and it hands a      *)
(* handler any message its peer sent.  Messages may be lost, duplicated    *)
(* and reordered.                                                          *)
(***************************************************************************)
EXTENDS Naturals, Sequences

CONSTANTS
    Reports,           \* what may be prepared: an upload and an aggregation parameter
    Honest,            \* the ones made by an honest client
    VdafPrepState(_),      \* the prepare states of aggregator 0 or 1
    VdafPrepShare, VdafPrepMsg, VdafOutShare,
    vdaf_prepare_init(_, _),                       \* agg_id, report
    vdaf_combine(_, _),  \* leader's share, helper's share
    vdaf_prepare_next(_, _),                       \* prepare state, prepare message
    vdaf_decodes_share(_, _), vdaf_decodes_msg(_, _),   \* under a state, do the bytes parse?
    vdaf_encode_state(_), vdaf_decode_state(_, _),      \* agg_id, encoded state
    NoState, NoMsg, NoOut,  \* placeholders where nothing is stored
    CallerChecksStep   \* does the deployment match messages with its round?

Leader == 0
Helper == 1
Agg == {Leader, Helper}
Peer(a) == 1 - a

(***************************************************************************)
(* The contract of the VDAF: every call returns a value of its type, and a *)
(* stored state can be read back by the aggregator that stored it.  A      *)
(* fallible call returns a record whose field ok (or tag) tells success.   *)
(***************************************************************************)
ASSUME InitContract ==
    \A a \in Agg, rep \in Reports :
        LET r == vdaf_prepare_init(a, rep)
        IN  /\ r.ok \in BOOLEAN
            /\ r.ok => r.state \in VdafPrepState(a) /\ r.share \in VdafPrepShare

ASSUME CombineContract ==
    \A l, h \in VdafPrepShare :
        LET r == vdaf_combine(l, h)
        IN  r.ok \in BOOLEAN /\ (r.ok => r.msg \in VdafPrepMsg)

ASSUME NextContract ==
    \A a \in Agg : \A s \in VdafPrepState(a), m \in VdafPrepMsg :
        LET r == vdaf_prepare_next(s, m)
        IN  /\ r.tag \in {"Continue", "Finish", "Err"}
            /\ r.tag = "Continue" => r.state \in VdafPrepState(a) /\ r.share \in VdafPrepShare
            /\ r.tag = "Finish" => r.out \in VdafOutShare

ASSUME CodecContract ==
    \A a \in Agg : \A s \in VdafPrepState(a) : vdaf_decode_state(a, vdaf_encode_state(s)) = s

ASSUME StepAssumption == CallerChecksStep \in BOOLEAN

ASSUME HonestAssumption == Honest \subseteq Reports

VARIABLES
    report,      \* the report being prepared
    phase,       \* what each aggregator holds for the report
    prep_state,  \* its stored prepare state (Continued, or previous_prepare_state)
    prep_msg,    \* its stored current_prepare_message, in phase Transition
    out_share,   \* the output share FinishedNoMessage carried
    error,       \* the PingPongError that rejected the report, or "none"
    net,         \* messages sent and not lost
    hist,        \* history: the prepare messages each aggregator has adopted
    shares       \* history: the prepare shares each aggregator has produced

vars == <<report, phase, prep_state, prep_msg, out_share, error, net, hist, shares>>

-----------------------------------------------------------------------------
\* The encoded PingPongMessage, with its sender and the step (the number of
\* prepare messages its sender has adopted) that the deployment sends along.
Initialize(share) ==
    [type |-> "Initialize", from |-> Leader, step |-> 0, prep_share |-> share]
Continue(a, n, msg, share) ==
    [type |-> "Continue", from |-> a, step |-> n, prep_msg |-> msg, prep_share |-> share]
Finish(a, n, msg) ==
    [type |-> "Finish", from |-> a, step |-> n, prep_msg |-> msg]

Message ==
    [type : {"Initialize"}, from : {Leader}, step : {0}, prep_share : VdafPrepShare]
      \cup [type : {"Continue"}, from : Agg, step : Nat,
            prep_msg : VdafPrepMsg, prep_share : VdafPrepShare]
      \cup [type : {"Finish"}, from : Agg, step : Nat, prep_msg : VdafPrepMsg]

\* The VDAF's half of PingPongTransition::evaluate.
transition_next(a) == vdaf_prepare_next(prep_state[a], prep_msg[a])

\* The PingPongState of an aggregator: the stored one, or the one that
\* evaluating the stored transition yields.
HostContinued(a) ==
    \/ phase[a] = "Continued"
    \/ phase[a] = "Transition" /\ transition_next(a).tag = "Continue"

HostFinished(a) ==
    \/ phase[a] = "FinishedNoMessage"
    \/ phase[a] = "Transition" /\ transition_next(a).tag = "Finish"

\* Fault: the stored transition is not evaluated before it is continued.
host_prep_state_stale(a) == prep_state[a]

host_prep_state(a) ==
    IF phase[a] = "Continued" THEN prep_state[a] ELSE transition_next(a).state

\* The output share an aggregator may accumulate once it has finished.
OutputOf(a) ==
    IF phase[a] = "FinishedNoMessage" THEN out_share[a] ELSE transition_next(a).out

\* Fault: the shares are not reversed on the leader's side.
combine_at_unreversed(a, peer_share, host_share) ==
    vdaf_combine(peer_share, host_share)

\* Prepare shares are combined in the order leader, helper, whoever combines.
combine_at(a, peer_share, host_share) ==
    IF a = Leader
    THEN vdaf_combine(host_share, peer_share)
    ELSE vdaf_combine(peer_share, host_share)

\* What `continued` returns for message m: the kind of PingPongContinuedValue,
\* or the PingPongError of the first check that fails.
continued(a, m) ==
    LET next == vdaf_prepare_next(host_prep_state(a), m.prep_msg)
        combined == combine_at(a, m.prep_share, next.share)
    IN  IF ~HostContinued(a) THEN "HostStateMismatch"
        ELSE IF m.type = "Initialize" THEN "PeerMessageMismatch"
        ELSE IF ~vdaf_decodes_msg(host_prep_state(a), m.prep_msg) THEN "CodecPrepMessage"
        ELSE IF next.tag = "Err" THEN "VdafPrepareNext"
        ELSE IF (next.tag = "Continue") # (m.type = "Continue") THEN "PeerMessageMismatch"
        ELSE IF next.tag = "Finish" THEN "FinishedNoMessage"
        ELSE IF ~vdaf_decodes_share(next.state, m.prep_share) THEN "CodecPrepShare"
        ELSE IF ~combined.ok THEN "VdafPrepareSharesToPrepareMessage"
        ELSE "WithMessage"

\* What `helper_initialized` returns for message m: "ok", or its first error.
helper_init(m) ==
    LET r == vdaf_prepare_init(Helper, report)
    IN  IF ~r.ok THEN "VdafPrepareInit"
        ELSE IF m.type # "Initialize" THEN "PeerMessageMismatch"
        ELSE IF ~vdaf_decodes_share(r.state, m.prep_share) THEN "CodecPrepShare"
        ELSE IF ~combine_at(Helper, m.prep_share, r.share).ok
             THEN "VdafPrepareSharesToPrepareMessage"
        ELSE "ok"

\* An Err ends the preparation: it stands for the Rejected state.
Reject(a, e) ==
    /\ phase' = [phase EXCEPT ![a] = "Rejected"]
    /\ prep_state' = [prep_state EXCEPT ![a] = NoState]
    /\ prep_msg' = [prep_msg EXCEPT ![a] = NoMsg]
    /\ error' = [error EXCEPT ![a] = e]
    /\ UNCHANGED <<report, out_share, net, hist, shares>>

\* Fault: a message already stored is not replaced.
StoreTransition_keeps_message(a, state, msg) ==
    /\ phase' = [phase EXCEPT ![a] = "Transition"]
    /\ prep_state' = [prep_state EXCEPT ![a] = state]
    /\ prep_msg' = [prep_msg EXCEPT ![a] = IF @ = NoMsg THEN msg ELSE @]
    /\ UNCHANGED <<report, out_share, error, net>>

\* Fault: the state that goes with the message is not stored.
StoreTransition_without_state(a, state, msg) ==
    /\ phase' = [phase EXCEPT ![a] = "Transition"]
    /\ prep_msg' = [prep_msg EXCEPT ![a] = msg]
    /\ UNCHANGED <<report, prep_state, out_share, error, net>>

\* Fault: the message is stored with the state that it was combined in.
StoreTransition_with_old_state(a, state, msg) ==
    /\ phase' = [phase EXCEPT ![a] = "Transition"]
    /\ prep_state' = [prep_state EXCEPT ![a] = IF @ = NoState THEN state ELSE @]
    /\ prep_msg' = [prep_msg EXCEPT ![a] = msg]
    /\ UNCHANGED <<report, out_share, error, net>>

\* Store a PingPongTransition in place of what the aggregator held.
StoreTransition(a, state, msg) ==
    /\ phase' = [phase EXCEPT ![a] = "Transition"]
    /\ prep_state' = [prep_state EXCEPT ![a] = state]
    /\ prep_msg' = [prep_msg EXCEPT ![a] = msg]
    /\ UNCHANGED <<report, out_share, error, net>>

-----------------------------------------------------------------------------
Init ==
    /\ report \in Reports
    /\ phase = [a \in Agg |-> "Start"]
    /\ prep_state = [a \in Agg |-> NoState]
    /\ prep_msg = [a \in Agg |-> NoMsg]
    /\ out_share = [a \in Agg |-> NoOut]
    /\ error = [a \in Agg |-> "none"]
    /\ net = {}
    /\ hist = [a \in Agg |-> <<>>]
    /\ shares = [a \in Agg |-> <<>>]

\* leader_initialized, run again as long as the leader waits for an answer to
\* it (the Initialize message may have been lost).
LeaderInitialized ==
    LET r == vdaf_prepare_init(Leader, report)
    IN  /\ phase[Leader] \in {"Start", "Continued"}
        /\ \/ /\ r.ok
              /\ phase' = [phase EXCEPT ![Leader] = "Continued"]
              /\ prep_state' = [prep_state EXCEPT ![Leader] = r.state]
              /\ net' = net \cup {Initialize(r.share)}
              /\ shares' = [shares EXCEPT ![Leader] = <<r.share>>]
              /\ UNCHANGED <<report, prep_msg, out_share, error, hist>>
           \/ /\ ~r.ok
              /\ Reject(Leader, "VdafPrepareInit")

\* helper_initialized, on its first call or on a retry before the next round.
HelperInitialized(m) ==
    LET r == vdaf_prepare_init(Helper, report)
        combined == combine_at(Helper, m.prep_share, r.share)
    IN  /\ m.from = Leader
        /\ \/ phase[Helper] = "Start"
           \/ phase[Helper] = "Transition" /\ Len(hist[Helper]) = 1
        /\ CallerChecksStep => m.step = 0
        /\ \/ /\ helper_init(m) = "ok"
              /\ StoreTransition(Helper, r.state, combined.msg)
              /\ hist' = [hist EXCEPT ![Helper] = <<combined.msg>>]
              /\ shares' = [shares EXCEPT ![Helper] =
                              IF @ = <<>> THEN <<r.share>> ELSE [@ EXCEPT ![1] = r.share]]
           \/ /\ helper_init(m) # "ok"
              /\ Reject(Helper, helper_init(m))

\* Fault: a transition is evaluated only once.
Evaluate_once(a) ==
    LET next == transition_next(a)
        n == Len(hist[a])
    IN  /\ phase[a] = "Transition"
        /\ next.tag = "Continue"
        /\ Len(shares[a]) = n
        /\ net' = net \cup {Continue(a, n, prep_msg[a], next.share)}
        /\ shares' = [shares EXCEPT ![a] = Append(@, next.share)]
        /\ UNCHANGED <<report, phase, prep_state, prep_msg, out_share, error, hist>>

\* PingPongTransition::evaluate on the stored transition, and the sending of
\* the message it returns.  The transition stays stored: it may be evaluated
\* again, after a crash or when the message was lost.
Evaluate(a) ==
    LET next == transition_next(a)
        n == Len(hist[a])
    IN  /\ phase[a] = "Transition"
        /\ \/ /\ next.tag = "Continue"
              /\ net' = net \cup {Continue(a, n, prep_msg[a], next.share)}
              /\ shares' = IF Len(shares[a]) = n
                           THEN [shares EXCEPT ![a] = Append(@, next.share)]
                           ELSE shares
              /\ UNCHANGED <<report, phase, prep_state, prep_msg, out_share, error, hist>>
           \/ /\ next.tag = "Finish"
              /\ net' = net \cup {Finish(a, n, prep_msg[a])}
              /\ UNCHANGED <<report, phase, prep_state, prep_msg, out_share, error,
                             hist, shares>>
           \/ /\ next.tag = "Err"
              /\ Reject(a, "VdafPrepareNext")

\* leader_continued and helper_continued: the outcomes of `continued`.
Continued(a, m) ==
    LET next == vdaf_prepare_next(host_prep_state(a), m.prep_msg)
        combined == combine_at(a, m.prep_share, next.share)
        result == continued(a, m)
    IN  /\ m.from = Peer(a)
        /\ HostContinued(a)
        /\ CallerChecksStep => m.step = Len(hist[a]) + 1
        /\ \/ /\ result = "WithMessage"
              /\ StoreTransition(a, next.state, combined.msg)
              /\ hist' = [hist EXCEPT ![a] = @ \o <<m.prep_msg, combined.msg>>]
              /\ shares' = [shares EXCEPT ![a] = Append(@, next.share)]
           \/ /\ result = "FinishedNoMessage"
              /\ phase' = [phase EXCEPT ![a] = "FinishedNoMessage"]
              /\ prep_state' = [prep_state EXCEPT ![a] = NoState]
              /\ prep_msg' = [prep_msg EXCEPT ![a] = NoMsg]
              /\ out_share' = [out_share EXCEPT ![a] = next.out]
              /\ hist' = [hist EXCEPT ![a] = Append(@, m.prep_msg)]
              /\ UNCHANGED <<report, error, net, shares>>
           \/ /\ result \notin {"WithMessage", "FinishedNoMessage"}
              /\ Reject(a, result)

\* Fault: an unexpected message rejects a report that has been finished.
LateMessage_rejects(a, m) ==
    /\ m.from = Peer(a)
    /\ HostFinished(a)
    /\ Reject(a, continued(a, m))

\* A message handed to an aggregator that has finished: `continued` returns an
\* error and the output share already obtained stands.
LateMessage(a, m) ==
    /\ m.from = Peer(a)
    /\ HostFinished(a)
    /\ CallerChecksStep => m.step = Len(hist[a]) + 1
    /\ error' = [error EXCEPT ![a] = continued(a, m)]
    /\ UNCHANGED <<report, phase, prep_state, prep_msg, out_share, net, hist, shares>>

\* Fault: the encoding of a transition leaves its prepare message out.
Restart_forgets_message(a) ==
    /\ phase[a] \in {"Continued", "Transition"}
    /\ phase' = [phase EXCEPT ![a] = "Continued"]
    /\ prep_msg' = [prep_msg EXCEPT ![a] = NoMsg]
    /\ UNCHANGED <<report, prep_state, out_share, error, net, hist, shares>>

\* A crash: the aggregator comes back with what it stored, encoded and decoded.
\* The prepare message of a transition is decoded under its prepare state.
Restart(a) ==
    /\ phase[a] \in {"Continued", "Transition"}
    /\ phase[a] = "Transition" => vdaf_decodes_msg(prep_state[a], prep_msg[a])
    /\ prep_state' = [prep_state EXCEPT ![a] = vdaf_decode_state(a, vdaf_encode_state(@))]
    /\ UNCHANGED <<report, phase, prep_msg, out_share, error, net, hist, shares>>

Lose(m) ==
    /\ net' = net \ {m}
    /\ UNCHANGED <<report, phase, prep_state, prep_msg, out_share, error, hist, shares>>

Next ==
    \/ LeaderInitialized
    \/ \E m \in net : HelperInitialized(m)
    \/ \E a \in Agg : Evaluate(a) \/ Restart(a)
    \/ \E a \in Agg, m \in net : Continued(a, m) \/ LateMessage(a, m)
    \/ \E m \in net : Lose(m)

Spec == Init /\ [][Next]_vars

\* The deployment keeps calling the handlers, and a message sent again and
\* again is eventually handed over; nothing forces a crash or a loss.
Fairness ==
    /\ WF_vars(LeaderInitialized)
    /\ SF_vars(\E m \in net : HelperInitialized(m))
    /\ \A a \in Agg : WF_vars(Evaluate(a)) /\ SF_vars(\E m \in net : Continued(a, m))

FairSpec == Spec /\ Fairness

-----------------------------------------------------------------------------
Phases == {"Start", "Continued", "Transition", "FinishedNoMessage", "Rejected"}
Errors == {"none", "VdafPrepareInit", "VdafPrepareSharesToPrepareMessage",
           "VdafPrepareNext", "CodecPrepShare", "CodecPrepMessage",
           "HostStateMismatch", "PeerMessageMismatch"}

\* Every variable holds a value of its Rust type: a stored state belongs to the
\* aggregator that stores it and is there exactly in the phases that need it.
TypeOK ==
    /\ report \in Reports
    /\ phase \in [Agg -> Phases]
    /\ DOMAIN prep_state = Agg /\ DOMAIN prep_msg = Agg /\ DOMAIN out_share = Agg
    /\ \A a \in Agg :
        /\ phase[a] \in {"Continued", "Transition"} => prep_state[a] \in VdafPrepState(a)
        /\ phase[a] = "Transition" => prep_msg[a] \in VdafPrepMsg
        /\ phase[a] = "FinishedNoMessage" => out_share[a] \in VdafOutShare
    /\ error \in [Agg -> Errors]
    /\ net \subseteq Message
    /\ hist \in [Agg -> Seq(VdafPrepMsg)]
    /\ shares \in [Agg -> Seq(VdafPrepShare)]

\* The aggregators run the rounds in lockstep: neither is more than one prepare
\* message ahead, and in every round both adopted the same prepare message,
\* whatever `continued` is handed and however often a transition is evaluated.
Lockstep ==
    /\ \A a \in Agg : Len(hist[a]) <= Len(hist[Peer(a)]) + 1
    /\ \A r \in DOMAIN hist[Leader] \cap DOMAIN hist[Helper] :
        hist[Leader][r] = hist[Helper][r]

\* Every prepare message adopted in a round is the combination of the prepare
\* shares that the two aggregators produced for that round, the leader's first:
\* `prep_shares.reverse()` and the array in helper_initialized get it right on
\* both sides.
CombinesBothShares ==
    \A a \in Agg : \A r \in DOMAIN hist[a] :
        /\ r \in DOMAIN shares[Leader] \cap DOMAIN shares[Helper]
        /\ LET c == vdaf_combine(shares[Leader][r], shares[Helper][r])
           IN  c.ok /\ c.msg = hist[a][r]

\* A transition evaluated again, after a crash or to send once more, repeats the
\* message of its first evaluation ("can always be recomputed"): what is on the
\* wire for a step is what its sender did in that step.
NoEquivocation ==
    \A m \in net :
        /\ m.type # "Initialize" =>
            m.step \in DOMAIN hist[m.from] /\ m.prep_msg = hist[m.from][m.step]
        /\ m.type # "Finish" =>
            m.step + 1 \in DOMAIN shares[m.from] /\ m.prep_share = shares[m.from][m.step + 1]

\* What is adopted in a round and what is on the wire about it are the same two shares
\* and their combination, for either aggregator and every time it is sent.
RoundsAreFaithful == CombinesBothShares /\ NoEquivocation

\* Two finished aggregators finished in the same round, on the same prepare
\* messages; the one without a message to send finished after its peer.
FinishAgreement ==
    /\ HostFinished(Leader) /\ HostFinished(Helper) => hist[Leader] = hist[Helper]
    /\ \A a \in Agg : phase[a] = "FinishedNoMessage" => HostFinished(Peer(a))

\* A transition that was stored can be read back: its prepare message parses
\* under its own prepare state.
TransitionReadable ==
    \A a \in Agg : phase[a] = "Transition" => vdaf_decodes_msg(prep_state[a], prep_msg[a])

\* When messages reach the round they were sent for, the two aggregators never
\* disagree about the kind or the shape of the next message: a report is only
\* rejected by the VDAF.
InSync ==
    \A a \in Agg :
        error[a] \notin {"PeerMessageMismatch", "CodecPrepMessage", "CodecPrepShare",
                         "HostStateMismatch"}

\* An aggregator that has finished stays finished with the same output share,
\* whatever messages it still receives; a rejected report stays rejected.
OutcomeIsFinal ==
    [][\A a \in Agg :
        /\ HostFinished(a) => HostFinished(a)' /\ OutputOf(a)' = OutputOf(a)
        /\ phase[a] = "Rejected" => phase'[a] = "Rejected"]_vars
=============================================================================
