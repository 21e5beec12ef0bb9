--------------------------- MODULE PingPong_proofs ---------------------------
(***************************************************************************)
(* What PingPong promises for every VDAF that keeps its contract; that it  *)
(* implements the sequential driver, for every VDAF with which the driver  *)
(* does not panic; and what it decides when that VDAF is Poplar1.          *)
(***************************************************************************)
EXTENDS PingPongPoplar1, Integers_proofs, SequenceTheorems, TLAPS

\* Both aggregators are numbered, and each is the other's peer.
LEMMA PeerFacts ==
    ASSUME NEW a \in Agg
    PROVE  Peer(a) \in Agg /\ Peer(Peer(a)) = a /\ Peer(a) # a
BY DEF Peer, Agg, Leader, Helper

\* The prepare state that `continued` starts from is one of the aggregator's.
LEMMA HostStateType ==
    ASSUME TypeOK, NEW a \in Agg, HostContinued(a)
    PROVE  host_prep_state(a) \in VdafPrepState(a)
<1>1. CASE phase[a] = "Continued"
  BY <1>1 DEF TypeOK, host_prep_state
<1>2. CASE phase[a] = "Transition"
  <2>1. prep_state[a] \in VdafPrepState(a) /\ prep_msg[a] \in VdafPrepMsg
    BY <1>2 DEF TypeOK
  <2>2. transition_next(a).tag = "Continue"
    BY <1>2 DEF HostContinued
  <2>3. transition_next(a).state \in VdafPrepState(a)
    BY <2>1, <2>2, NextContract DEF transition_next
  <2> QED
    BY <1>2, <2>3 DEF host_prep_state
<1> QED
  BY <1>1, <1>2 DEF HostContinued

\* What the two successful outcomes of `continued` say of the message and of the
\* VDAF's answers, and that every other outcome is an error.
LEMMA ContinuedOutcome ==
    ASSUME TypeOK, NEW a \in Agg, NEW m \in net, HostContinued(a),
           NEW next, next = vdaf_prepare_next(host_prep_state(a), m.prep_msg)
    PROVE  /\ continued(a, m) = "WithMessage" =>
                /\ m.type = "Continue" /\ m.prep_msg \in VdafPrepMsg /\ m.prep_share \in VdafPrepShare
                /\ next.tag = "Continue"
                /\ next.state \in VdafPrepState(a) /\ next.share \in VdafPrepShare
                /\ combine_at(a, m.prep_share, next.share).ok
                /\ combine_at(a, m.prep_share, next.share).msg \in VdafPrepMsg
           /\ continued(a, m) = "FinishedNoMessage" =>
                /\ m.type = "Finish" /\ m.prep_msg \in VdafPrepMsg
                /\ next.tag = "Finish" /\ next.out \in VdafOutShare
           /\ continued(a, m) \notin {"WithMessage", "FinishedNoMessage"} =>
                continued(a, m) \in Errors
<1>1. host_prep_state(a) \in VdafPrepState(a)
  BY HostStateType
<1>2. m \in Message
  BY DEF TypeOK
<1>3. m.type # "Initialize" => m.prep_msg \in VdafPrepMsg
  BY <1>2 DEF Message
<1>4. m.type = "Continue" => m.prep_share \in VdafPrepShare
  BY <1>2 DEF Message
<1>5. m.type \in {"Initialize", "Continue", "Finish"}
  BY <1>2 DEF Message
<1>6. m.type # "Initialize" =>
        /\ next.tag \in {"Continue", "Finish", "Err"}
        /\ next.tag = "Continue" => next.state \in VdafPrepState(a) /\ next.share \in VdafPrepShare
        /\ next.tag = "Finish" => next.out \in VdafOutShare
  BY <1>1, <1>3, NextContract
<1>7. ASSUME m.prep_share \in VdafPrepShare, next.share \in VdafPrepShare,
             combine_at(a, m.prep_share, next.share).ok
      PROVE  combine_at(a, m.prep_share, next.share).msg \in VdafPrepMsg
  BY <1>7, CombineContract DEF combine_at
<1>8. continued(a, m) = "WithMessage" =>
        /\ m.type = "Continue" /\ next.tag = "Continue"
        /\ combine_at(a, m.prep_share, next.share).ok
  BY <1>5, <1>6 DEF continued
<1>9. continued(a, m) = "FinishedNoMessage" => m.type = "Finish" /\ next.tag = "Finish"
  BY <1>5, <1>6 DEF continued
<1>10. continued(a, m) \in Errors \cup {"WithMessage", "FinishedNoMessage"}
  BY DEF continued, Errors
<1> QED
  BY <1>3, <1>4, <1>6, <1>7, <1>8, <1>9, <1>10

\* What `helper_initialized` has checked when it succeeds.
LEMMA HelperInitOutcome ==
    ASSUME TypeOK, NEW m \in net, NEW r, r = vdaf_prepare_init(Helper, report)
    PROVE  /\ helper_init(m) = "ok" =>
                /\ m.type = "Initialize" /\ m.prep_share \in VdafPrepShare
                /\ r.ok /\ r.state \in VdafPrepState(Helper) /\ r.share \in VdafPrepShare
                /\ combine_at(Helper, m.prep_share, r.share).ok
                /\ combine_at(Helper, m.prep_share, r.share).msg \in VdafPrepMsg
           /\ helper_init(m) # "ok" => helper_init(m) \in Errors
<1>1. m \in Message /\ report \in Reports /\ Helper \in Agg
  BY DEF TypeOK, Agg
<1>2. m.type = "Initialize" => m.prep_share \in VdafPrepShare
  BY <1>1 DEF Message
<1>3. r.ok \in BOOLEAN /\ (r.ok => r.state \in VdafPrepState(Helper) /\ r.share \in VdafPrepShare)
  BY <1>1, InitContract
<1>4. ASSUME m.prep_share \in VdafPrepShare, r.share \in VdafPrepShare,
             combine_at(Helper, m.prep_share, r.share).ok
      PROVE  combine_at(Helper, m.prep_share, r.share).msg \in VdafPrepMsg
  BY <1>4, CombineContract DEF combine_at
<1>5. helper_init(m) = "ok" =>
        r.ok /\ m.type = "Initialize" /\ combine_at(Helper, m.prep_share, r.share).ok
  BY DEF helper_init
<1>6. helper_init(m) \in Errors \cup {"ok"}
  BY DEF helper_init, Errors
<1> QED
  BY <1>2, <1>3, <1>4, <1>5, <1>6

-----------------------------------------------------------------------------
\* Every step of the topology preserves the type invariant.
LEMMA TypeStep ==
    ASSUME TypeOK, [Next]_vars
    PROVE  TypeOK'
<1> USE DEF Phases
<1>0. Leader \in Agg /\ Helper \in Agg /\ "none" \in Errors
      /\ "VdafPrepareInit" \in Errors /\ "VdafPrepareNext" \in Errors
  BY DEF Agg, Errors
<1>1. ASSUME NEW a \in Agg, NEW e \in Errors, Reject(a, e)
      PROVE  TypeOK'
  BY <1>1 DEF TypeOK, Reject
<1>2. CASE LeaderInitialized
  <2> DEFINE r == vdaf_prepare_init(Leader, report)
  <2>1. CASE ~r.ok
    BY <1>0, <1>1, <1>2, <2>1 DEF LeaderInitialized
  <2>2. CASE r.ok
    <3>1. r.state \in VdafPrepState(Leader) /\ r.share \in VdafPrepShare
      BY <1>0, <2>2, InitContract DEF TypeOK
    <3>2. Initialize(r.share) \in Message
      BY <3>1 DEF Initialize, Message
    <3>3. /\ phase' = [phase EXCEPT ![Leader] = "Continued"]
          /\ prep_state' = [prep_state EXCEPT ![Leader] = r.state]
          /\ net' = net \cup {Initialize(r.share)}
          /\ shares' = [shares EXCEPT ![Leader] = <<r.share>>]
          /\ UNCHANGED <<report, prep_msg, out_share, error, hist>>
      BY <1>2, <2>2 DEF LeaderInitialized
    <3> HIDE DEF r
    <3>4. <<r.share>> \in Seq(VdafPrepShare)
      BY <3>1
    <3> QED
      BY <1>0, <3>1, <3>2, <3>3, <3>4 DEF TypeOK
  <2> QED
    BY <2>1, <2>2
<1>3. ASSUME NEW m \in net, HelperInitialized(m)
      PROVE  TypeOK'
  <2> DEFINE r == vdaf_prepare_init(Helper, report)
             combined == combine_at(Helper, m.prep_share, r.share)
  <2>1. CASE helper_init(m) # "ok"
    <3>1. helper_init(m) \in Errors
      BY <2>1, HelperInitOutcome
    <3> QED
      BY <1>0, <1>1, <1>3, <2>1, <3>1 DEF HelperInitialized
  <2>2. CASE helper_init(m) = "ok"
    <3>1. r.state \in VdafPrepState(Helper) /\ r.share \in VdafPrepShare /\ combined.msg \in VdafPrepMsg
      BY <2>2, HelperInitOutcome
    <3>2. /\ StoreTransition(Helper, r.state, combined.msg)
          /\ hist' = [hist EXCEPT ![Helper] = <<combined.msg>>]
          /\ shares' = [shares EXCEPT ![Helper] =
                          IF @ = <<>> THEN <<r.share>> ELSE [@ EXCEPT ![1] = r.share]]
      BY <1>3, <2>2 DEF HelperInitialized
    <3> HIDE DEF r, combined
    <3>3. <<combined.msg>> \in Seq(VdafPrepMsg) /\ <<r.share>> \in Seq(VdafPrepShare)
      BY <3>1
    <3>4. ASSUME NEW s \in Seq(VdafPrepShare), s # <<>>
          PROVE  [s EXCEPT ![1] = r.share] \in Seq(VdafPrepShare)
      BY <3>1, <3>4
    <3>5. shares' \in [Agg -> Seq(VdafPrepShare)] /\ hist' \in [Agg -> Seq(VdafPrepMsg)]
      BY <1>0, <3>2, <3>3, <3>4 DEF TypeOK
    <3> QED
      BY <1>0, <3>1, <3>2, <3>5 DEF TypeOK, StoreTransition
  <2> QED
    BY <2>1, <2>2
<1>4. ASSUME NEW a \in Agg, Evaluate(a)
      PROVE  TypeOK'
  <2> DEFINE next == transition_next(a)
  <2>1. /\ prep_state[a] \in VdafPrepState(a) /\ prep_msg[a] \in VdafPrepMsg
        /\ hist[a] \in Seq(VdafPrepMsg) /\ shares[a] \in Seq(VdafPrepShare)
    BY <1>4 DEF Evaluate, TypeOK
  <2>2. next.tag = "Continue" => next.share \in VdafPrepShare
    BY <2>1, NextContract DEF transition_next
  <2>3. Len(hist[a]) \in Nat
    BY <2>1
  <2> HIDE DEF next
  <2>4. CASE next.tag = "Continue"
    <3>1. Continue(a, Len(hist[a]), prep_msg[a], next.share) \in Message
      BY <2>1, <2>2, <2>3, <2>4 DEF Continue, Message
    <3>2. Append(shares[a], next.share) \in Seq(VdafPrepShare)
      BY <2>1, <2>2, <2>4
    <3> QED
      BY <1>4, <2>4, <3>1, <3>2 DEF Evaluate, TypeOK, next
  <2>5. CASE next.tag = "Finish"
    <3>1. Finish(a, Len(hist[a]), prep_msg[a]) \in Message
      BY <2>1, <2>3 DEF Finish, Message
    <3> QED
      BY <1>4, <2>5, <3>1 DEF Evaluate, TypeOK, next
  <2>6. CASE next.tag = "Err"
    BY <1>0, <1>1, <1>4, <2>6 DEF Evaluate, next
  <2> QED
    BY <1>4, <2>4, <2>5, <2>6 DEF Evaluate, next
<1>5. ASSUME NEW a \in Agg, NEW m \in net, Continued(a, m)
      PROVE  TypeOK'
  <2> DEFINE next == vdaf_prepare_next(host_prep_state(a), m.prep_msg)
             combined == combine_at(a, m.prep_share, next.share)
  <2>1. HostContinued(a)
    BY <1>5 DEF Continued
  <2>2. CASE continued(a, m) = "WithMessage"
    <3>1. /\ m.prep_msg \in VdafPrepMsg /\ combined.msg \in VdafPrepMsg
          /\ next.state \in VdafPrepState(a) /\ next.share \in VdafPrepShare
      BY <2>1, <2>2, ContinuedOutcome
    <3>2. /\ StoreTransition(a, next.state, combined.msg)
          /\ hist' = [hist EXCEPT ![a] = @ \o <<m.prep_msg, combined.msg>>]
          /\ shares' = [shares EXCEPT ![a] = Append(@, next.share)]
      BY <1>5, <2>2 DEF Continued
    <3> HIDE DEF next, combined
    <3>3. hist[a] \o <<m.prep_msg, combined.msg>> \in Seq(VdafPrepMsg)
      BY <3>1 DEF TypeOK
    <3>4. Append(shares[a], next.share) \in Seq(VdafPrepShare)
      BY <3>1 DEF TypeOK
    <3> QED
      BY <3>1, <3>2, <3>3, <3>4 DEF TypeOK, StoreTransition
  <2>3. CASE continued(a, m) = "FinishedNoMessage"
    <3>1. m.prep_msg \in VdafPrepMsg /\ next.out \in VdafOutShare
      BY <2>1, <2>3, ContinuedOutcome
    <3>2. Append(hist[a], m.prep_msg) \in Seq(VdafPrepMsg)
      BY <3>1 DEF TypeOK
    <3>3. /\ phase' = [phase EXCEPT ![a] = "FinishedNoMessage"]
          /\ prep_state' = [prep_state EXCEPT ![a] = NoState]
          /\ prep_msg' = [prep_msg EXCEPT ![a] = NoMsg]
          /\ out_share' = [out_share EXCEPT ![a] = next.out]
          /\ hist' = [hist EXCEPT ![a] = Append(@, m.prep_msg)]
          /\ UNCHANGED <<report, error, net, shares>>
      BY <1>5, <2>3 DEF Continued
    <3> HIDE DEF next
    <3> QED
      BY <3>1, <3>2, <3>3 DEF TypeOK
  <2>4. CASE continued(a, m) \notin {"WithMessage", "FinishedNoMessage"}
    <3>1. continued(a, m) \in Errors
      BY <2>1, <2>4, ContinuedOutcome
    <3> QED
      BY <1>1, <1>5, <2>4, <3>1 DEF Continued
  <2> QED
    BY <2>2, <2>3, <2>4
<1>6. ASSUME NEW a \in Agg, NEW m \in net, LateMessage(a, m)
      PROVE  TypeOK'
  <2>1. ~HostContinued(a)
    BY <1>6 DEF LateMessage, HostFinished, HostContinued
  <2>2. continued(a, m) \in Errors
    BY <2>1 DEF continued, Errors
  <2> QED
    BY <1>6, <2>2 DEF LateMessage, TypeOK
<1>7. ASSUME NEW a \in Agg, Restart(a)
      PROVE  TypeOK'
  <2>1. vdaf_decode_state(a, vdaf_encode_state(prep_state[a])) \in VdafPrepState(a)
    BY <1>7, CodecContract DEF Restart, TypeOK
  <2> QED
    BY <1>7, <2>1 DEF Restart, TypeOK
<1>8. ASSUME NEW m \in net, Lose(m)
      PROVE  TypeOK'
  BY <1>8 DEF Lose, TypeOK
<1>9. CASE UNCHANGED vars
  BY <1>9 DEF vars, TypeOK
<1> QED
  BY <1>2, <1>3, <1>4, <1>5, <1>6, <1>7, <1>8, <1>9 DEF Next

\* Type correctness: whatever the VDAF answers, the handlers of ping_pong.rs store
\* a prepare state with every Continued state and with every transition, and put
\* only well-formed messages on the wire.
THEOREM TypeCorrect == Spec => []TypeOK
<1>1. Init => TypeOK
  BY DEF Init, TypeOK, Phases, Errors, Agg
<1>2. TypeOK /\ [Next]_vars => TypeOK'
  BY TypeStep
<1> QED
  BY <1>1, <1>2, PTL DEF Spec

-----------------------------------------------------------------------------
(***************************************************************************)
(* The inductive invariant behind Lockstep, CombinesBothShares,            *)
(* NoEquivocation and FinishAgreement, when the deployment hands a message *)
(* over only in the round after the receiver's.  Those four say nothing of *)
(* what is stored; Stored ties it to the history.                          *)
(***************************************************************************)
\* The first prepare share of an aggregator is the one vdaf_prepare_init gives it.
FirstShares ==
    \A a \in Agg : shares[a] # <<>> =>
        vdaf_prepare_init(a, report).ok /\ shares[a][1] = vdaf_prepare_init(a, report).share

\* What an aggregator stores in a phase, and how far its history is.
Stored(a) ==
    /\ phase[a] = "Start" => hist[a] = <<>> /\ shares[a] = <<>>
    /\ phase[a] = "Continued" => a = Leader /\ hist[a] = <<>> /\ Len(shares[a]) = 1
    /\ phase[a] = "Transition" =>
        /\ Len(hist[a]) >= (IF a = Leader THEN 2 ELSE 1)
        /\ Len(shares[a]) \in {Len(hist[a]), Len(hist[a]) + 1}
        /\ prep_msg[a] = hist[a][Len(hist[a])]
        /\ Len(shares[a]) = Len(hist[a]) + 1 =>
            /\ transition_next(a).tag = "Continue"
            /\ transition_next(a).share = shares[a][Len(hist[a]) + 1]
    /\ phase[a] = "FinishedNoMessage" => hist[a] = hist[Peer(a)]

\* A retried helper_initialized computes again what the helper stores.
HelperRetry ==
    /\ hist[Helper] # <<>> => vdaf_decodes_share(vdaf_prepare_init(Helper, report).state, shares[Leader][1])
    /\ phase[Helper] = "Transition" /\ Len(hist[Helper]) = 1 =>
        prep_state[Helper] = vdaf_prepare_init(Helper, report).state

\* Who has sent Finish has finished, in the transition it stores.
FinishSent ==
    /\ \A m \in net : m.type = "Finish" =>
        /\ phase[m.from] = "Transition" /\ transition_next(m.from).tag = "Finish"
        /\ m.step = Len(hist[m.from])
    /\ \A a \in Agg : phase[a] = "FinishedNoMessage" =>
        phase[Peer(a)] = "Transition" /\ transition_next(Peer(a)).tag = "Finish"

\* Two stored transitions are never of the same round.
Alternation ==
    phase[Leader] = "Transition" /\ phase[Helper] = "Transition" =>
        Len(hist[Leader]) # Len(hist[Helper])

IInv ==
    /\ TypeOK
    /\ Lockstep
    /\ CombinesBothShares
    /\ NoEquivocation
    /\ FirstShares
    /\ \A a \in Agg : Stored(a)
    /\ HelperRetry
    /\ FinishSent
    /\ Alternation

\* A transition is read from what its aggregator stores.
LEMMA TransitionFrame ==
    ASSUME NEW a \in Agg, prep_state'[a] = prep_state[a], prep_msg'[a] = prep_msg[a]
    PROVE  transition_next(a)' = transition_next(a)
BY DEF transition_next

\* An aggregator that a step leaves alone keeps what Stored says of it.
LEMMA StoredFrame ==
    ASSUME NEW a \in Agg, Stored(a),
           phase'[a] = phase[a], prep_state'[a] = prep_state[a], prep_msg'[a] = prep_msg[a],
           hist'[a] = hist[a], shares'[a] = shares[a],
           phase[a] = "FinishedNoMessage" => hist'[Peer(a)] = hist[Peer(a)]
    PROVE  Stored(a)'
<1>1. transition_next(a)' = transition_next(a)
  BY DEF transition_next
<1> QED
  BY <1>1 DEF Stored, Peer

\* Rejecting a report that is not finished.
LEMMA RejectStep ==
    ASSUME IInv, TypeOK', NEW a \in Agg, NEW e, Reject(a, e),
           ~HostFinished(a)
    PROVE  IInv'
<1> USE PeerFacts DEF HostFinished
<1>1. /\ phase' = [phase EXCEPT ![a] = "Rejected"]
      /\ report' = report /\ net' = net /\ hist' = hist /\ shares' = shares
  BY DEF Reject
<1>2. phase \in [Agg -> Phases] /\ DOMAIN prep_state = Agg /\ DOMAIN prep_msg = Agg
      /\ net \subseteq Message
  BY DEF IInv, TypeOK
<1>3. \A b \in Agg : b # a =>
        /\ phase'[b] = phase[b] /\ prep_state'[b] = prep_state[b] /\ prep_msg'[b] = prep_msg[b]
        /\ transition_next(b)' = transition_next(b)
  BY <1>1, <1>2 DEF Reject, transition_next
<1>4. phase'[a] = "Rejected"
  BY <1>1, <1>2
<1>5. Lockstep' /\ CombinesBothShares' /\ NoEquivocation' /\ FirstShares'
  BY <1>1 DEF IInv, Lockstep, CombinesBothShares, NoEquivocation, FirstShares
<1>6. \A b \in Agg : Stored(b)'
  <2>1. Stored(a)'
    BY <1>4 DEF Stored
  <2>2. ASSUME NEW b \in Agg, b # a
        PROVE  Stored(b)'
    BY <1>1, <1>3, <2>2, StoredFrame DEF IInv
  <2> QED
    BY <2>1, <2>2
<1>7. HelperRetry'
  BY <1>1, <1>3, <1>4 DEF IInv, HelperRetry, Agg
<1>8. FinishSent'
  <2>1. \A m \in net : m.from \in Agg
    BY <1>2 DEF Message, Agg
  <2> QED
    BY <1>1, <1>3, <1>4, <2>1 DEF IInv, FinishSent
<1>9. Alternation'
  BY <1>1, <1>3, <1>4 DEF IInv, Alternation, Agg
<1> QED
  BY <1>5, <1>6, <1>7, <1>8, <1>9 DEF IInv

\* leader_initialized, first or repeated, computes the same prepare share.
LEMMA LeaderInitializedStep ==
    ASSUME IInv, TypeOK', LeaderInitialized
    PROVE  IInv'
<1> DEFINE r == vdaf_prepare_init(Leader, report)
<1>0. Leader \in Agg /\ Helper \in Agg /\ Leader # Helper
      /\ \A b \in Agg : b = Leader \/ b = Helper
  BY DEF Agg, Leader, Helper
<1>1. phase[Leader] \in {"Start", "Continued"}
  BY DEF LeaderInitialized
<1>2. CASE ~r.ok
  <2>1. ~HostFinished(Leader)
    BY <1>1 DEF HostFinished
  <2> QED
    BY <1>0, <1>2, <2>1, RejectStep DEF LeaderInitialized
<1>3. CASE r.ok
  <2>1. /\ phase' = [phase EXCEPT ![Leader] = "Continued"]
        /\ prep_state' = [prep_state EXCEPT ![Leader] = r.state]
        /\ net' = net \cup {Initialize(r.share)}
        /\ shares' = [shares EXCEPT ![Leader] = <<r.share>>]
        /\ report' = report /\ prep_msg' = prep_msg /\ hist' = hist
    BY <1>3 DEF LeaderInitialized
  <2>2. /\ phase \in [Agg -> Phases] /\ DOMAIN prep_state = Agg /\ net \subseteq Message
        /\ shares \in [Agg -> Seq(VdafPrepShare)] /\ hist \in [Agg -> Seq(VdafPrepMsg)]
    BY DEF IInv, TypeOK
  <2>3. /\ phase'[Leader] = "Continued" /\ phase'[Helper] = phase[Helper]
        /\ prep_state'[Helper] = prep_state[Helper]
        /\ shares'[Leader] = <<r.share>> /\ shares'[Helper] = shares[Helper]
    BY <1>0, <2>1, <2>2
  <2>4. transition_next(Helper)' = transition_next(Helper)
    BY <1>0, <2>1, <2>3, TransitionFrame
  <2>5. hist[Leader] = <<>> /\ (shares[Leader] = <<>> \/ shares[Leader] = <<r.share>>)
    <3>1. CASE phase[Leader] = "Start"
      BY <1>0, <3>1 DEF IInv, Stored
    <3>2. CASE phase[Leader] = "Continued"
      <4>1. Len(shares[Leader]) = 1 /\ hist[Leader] = <<>>
        BY <1>0, <3>2 DEF IInv, Stored
      <4>2. shares[Leader] \in Seq(VdafPrepShare)
        BY <1>0, <2>2
      <4>3. shares[Leader] # <<>>
        BY <4>1, EmptySeq
      <4>4. shares[Leader][1] = r.share
        BY <1>0, <4>3 DEF IInv, FirstShares
      <4> QED
        BY <4>1, <4>2, <4>4
    <3> QED
      BY <1>1, <3>1, <3>2
  <2> HIDE DEF r
  <2>6. \A b \in Agg : \A i \in DOMAIN shares[b] :
            i \in DOMAIN shares'[b] /\ shares'[b][i] = shares[b][i]
    BY <1>0, <2>3, <2>5
  <2>7. Lockstep'
    BY <2>1 DEF IInv, Lockstep
  <2>8. CombinesBothShares'
    BY <1>0, <2>1, <2>6 DEF IInv, CombinesBothShares
  <2>9. NoEquivocation'
    <3>1. \A m \in net : m.from \in Agg
      BY <2>2 DEF Message, Agg
    <3>2. \A m \in net :
            /\ m.type # "Initialize" =>
                m.step \in DOMAIN hist'[m.from] /\ m.prep_msg = hist'[m.from][m.step]
            /\ m.type # "Finish" =>
                m.step + 1 \in DOMAIN shares'[m.from]
                /\ m.prep_share = shares'[m.from][m.step + 1]
      BY <2>1, <2>6, <3>1 DEF IInv, NoEquivocation
    <3>3. /\ Initialize(r.share).type = "Initialize" /\ Initialize(r.share).step + 1 = 1
          /\ Initialize(r.share).from = Leader /\ Initialize(r.share).prep_share = r.share
      BY DEF Initialize
    <3> QED
      BY <2>1, <2>3, <3>2, <3>3 DEF NoEquivocation
  <2>10. FirstShares'
    <3>1. vdaf_prepare_init(Leader, report').ok /\ shares'[Leader][1] = vdaf_prepare_init(Leader, report').share
      BY <1>3, <2>1, <2>3 DEF r
    <3>2. shares'[Helper] # <<>> =>
            /\ vdaf_prepare_init(Helper, report').ok
            /\ shares'[Helper][1] = vdaf_prepare_init(Helper, report').share
      BY <1>0, <2>1, <2>3 DEF IInv, FirstShares
    <3> QED
      BY <1>0, <3>1, <3>2 DEF FirstShares
  <2>11. \A b \in Agg : Stored(b)'
    <3>1. Stored(Leader)'
      BY <2>1, <2>3, <2>5 DEF Stored
    <3>2. Stored(Helper)'
      <4>1. Stored(Helper) /\ hist'[Peer(Helper)] = hist[Peer(Helper)]
        BY <1>0, <2>1 DEF IInv
      <4> QED
        BY <1>0, <2>1, <2>3, <4>1, StoredFrame
    <3> QED
      BY <1>0, <3>1, <3>2
  <2>12. HelperRetry'
    <3>1. hist[Helper] # <<>> => shares'[Leader][1] = shares[Leader][1]
      <4>1. ASSUME hist[Helper] # <<>>
            PROVE  1 \in DOMAIN hist[Helper]
        BY <1>0, <2>2, <4>1, EmptySeq
      <4> QED
        BY <1>0, <2>6, <4>1 DEF IInv, CombinesBothShares
    <3> QED
      BY <2>1, <2>3, <3>1 DEF IInv, HelperRetry
  <2>13. FinishSent'
    <3>1. \A m \in net : m.from \in Agg
      BY <2>2 DEF Message, Agg
    <3>2. \A m \in net : m.type = "Finish" => m.from = Helper
      BY <1>0, <1>1, <3>1 DEF IInv, FinishSent
    <3>3. Initialize(r.share).type # "Finish"
      BY DEF Initialize
    <3>4. \A m \in net' : m.type = "Finish" => m \in net
      BY <2>1, <3>3
    <3>5. phase[Helper] # "FinishedNoMessage"
      BY <1>0, <1>1 DEF IInv, FinishSent, Peer, Leader, Helper
    <3> QED
      BY <1>0, <2>1, <2>3, <2>4, <3>2, <3>4, <3>5 DEF IInv, FinishSent
  <2>14. Alternation'
    BY <2>3 DEF Alternation
  <2> QED
    BY <2>7, <2>8, <2>9, <2>10, <2>11, <2>12, <2>13, <2>14 DEF IInv
<1> QED
  BY <1>2, <1>3

\* What a Restart, a late message, a lost message and a stuttering step have in
\* common: the report, what is stored and the history stay, and net does not grow.
LEMMA QuietStep ==
    ASSUME IInv, TypeOK', phase' = phase, report' = report,
           hist' = hist, shares' = shares, net' \subseteq net,
           \A a \in Agg : prep_state'[a] = prep_state[a] /\ prep_msg'[a] = prep_msg[a]
    PROVE  IInv'
<1>1. \A a \in Agg : transition_next(a)' = transition_next(a)
  BY TransitionFrame
<1>2. Lockstep' /\ CombinesBothShares' /\ NoEquivocation' /\ FirstShares'
  BY DEF IInv, Lockstep, CombinesBothShares, NoEquivocation, FirstShares
<1>3. \A a \in Agg : Stored(a)'
  BY StoredFrame DEF IInv
<1>4. HelperRetry'
  BY DEF IInv, HelperRetry, Agg
<1>5. FinishSent'
  <2>1. \A m \in net : m.from \in Agg
    BY DEF IInv, TypeOK, Message, Agg
  <2> QED
    BY <1>1, <2>1, PeerFacts DEF IInv, FinishSent
<1>6. Alternation'
  BY DEF IInv, Alternation
<1> QED
  BY <1>2, <1>3, <1>4, <1>5, <1>6 DEF IInv

\* Evaluating a transition, for the first time or again.
LEMMA EvaluateStep ==
    ASSUME IInv, TypeOK', NEW a \in Agg, Evaluate(a)
    PROVE  IInv'
<1> DEFINE next == transition_next(a)
           n == Len(hist[a])
<1>1. phase[a] = "Transition"
  BY DEF Evaluate
<1>2. /\ net \subseteq Message /\ shares \in [Agg -> Seq(VdafPrepShare)]
      /\ hist \in [Agg -> Seq(VdafPrepMsg)]
      /\ prep_state[a] \in VdafPrepState(a) /\ prep_msg[a] \in VdafPrepMsg
  BY <1>1 DEF IInv, TypeOK
<1>3. hist[a] \in Seq(VdafPrepMsg) /\ shares[a] \in Seq(VdafPrepShare)
      /\ n \in Nat /\ Len(shares[a]) \in Nat
  BY <1>2
<1>4. /\ n >= 1 /\ Len(shares[a]) \in {n, n + 1} /\ prep_msg[a] = hist[a][n]
      /\ Len(shares[a]) = n + 1 => next.tag = "Continue" /\ next.share = shares[a][n + 1]
  BY <1>1, <1>3 DEF IInv, Stored
<1>5. n \in DOMAIN hist[a]
  BY <1>3, <1>4
<1>6. \A m \in net : m.from \in Agg
  BY <1>2 DEF Message, Agg
<1>7. CASE next.tag = "Continue"
  <2>1. /\ net' = net \cup {Continue(a, n, prep_msg[a], next.share)}
        /\ shares' = IF Len(shares[a]) = n
                     THEN [shares EXCEPT ![a] = Append(@, next.share)]
                     ELSE shares
        /\ report' = report /\ phase' = phase /\ prep_state' = prep_state
        /\ prep_msg' = prep_msg /\ hist' = hist
    BY <1>7 DEF Evaluate
  <2>2. next.share \in VdafPrepShare
    BY <1>2, <1>7, NextContract DEF transition_next
  <2>3. \A b \in Agg : transition_next(b)' = transition_next(b)
    BY <2>1 DEF transition_next
  <2> HIDE DEF next, n
  <2>4. /\ shares'[a] \in Seq(VdafPrepShare) /\ Len(shares'[a]) = n + 1
        /\ shares'[a][n + 1] = next.share
        /\ \A i \in 1..Len(shares[a]) : i \in DOMAIN shares'[a] /\ shares'[a][i] = shares[a][i]
    <3>1. CASE Len(shares[a]) = n
      <4>1. shares'[a] = Append(shares[a], next.share)
        BY <1>2, <2>1, <3>1
      <4> QED
        BY <1>3, <2>2, <3>1, <4>1, AppendProperties
    <3>2. CASE Len(shares[a]) = n + 1
      BY <1>3, <1>4, <2>1, <3>2
    <3> QED
      BY <1>4, <3>1, <3>2
  <2>5. \A b \in Agg : b # a => shares'[b] = shares[b]
    BY <1>2, <2>1
  <2>6. \A b \in Agg : \A i \in DOMAIN shares[b] :
            i \in DOMAIN shares'[b] /\ shares'[b][i] = shares[b][i]
    BY <1>3, <2>4, <2>5
  <2>7. Lockstep' /\ CombinesBothShares'
    <3>1. Lockstep'
      BY <2>1 DEF IInv, Lockstep
    <3>2. CombinesBothShares'
      BY <2>1, <2>6 DEF IInv, CombinesBothShares, Agg
    <3> QED
      BY <3>1, <3>2
  <2>8. NoEquivocation'
    <3> DEFINE c == Continue(a, n, prep_msg[a], next.share)
    <3>1. \A m \in net :
            /\ m.type # "Initialize" =>
                m.step \in DOMAIN hist'[m.from] /\ m.prep_msg = hist'[m.from][m.step]
            /\ m.type # "Finish" =>
                m.step + 1 \in DOMAIN shares'[m.from]
                /\ m.prep_share = shares'[m.from][m.step + 1]
      BY <1>6, <2>1, <2>6 DEF IInv, NoEquivocation
    <3>2. /\ c.from = a /\ c.step = n /\ c.prep_msg = prep_msg[a]
          /\ c.prep_share = next.share
      BY DEF Continue
    <3>3. n + 1 \in DOMAIN shares'[a]
      BY <1>3, <2>4 DEF n
    <3> HIDE DEF c
    <3>4. net' = net \cup {c}
      BY <2>1 DEF c
    <3> QED
      BY <1>4, <1>5, <2>1, <2>4, <3>1, <3>2, <3>3, <3>4 DEF NoEquivocation, n
  <2>9. FirstShares'
    <3>1. \A b \in Agg : (shares[b] # <<>> /\ shares'[b][1] = shares[b][1]) \/ shares'[b] = shares[b]
      <4>1. shares[a] # <<>> /\ 1 \in 1..Len(shares[a])
        BY <1>3, <1>4, EmptySeq DEF n
      <4> QED
        BY <2>4, <2>5, <4>1
    <3> QED
      BY <2>1, <3>1 DEF IInv, FirstShares
  <2>10. \A b \in Agg : Stored(b)'
    <3>1. Stored(a)'
      BY <1>1, <1>4, <1>7, <2>1, <2>3, <2>4 DEF IInv, Stored, n, next
    <3>2. ASSUME NEW b \in Agg, b # a
          PROVE  Stored(b)'
      BY <2>1, <2>5, <3>2, StoredFrame DEF IInv
    <3> QED
      BY <3>1, <3>2
  <2>11. HelperRetry'
    <3>1. hist[Helper] # <<>> => shares'[Leader][1] = shares[Leader][1]
      <4>1. ASSUME hist[Helper] # <<>>
            PROVE  1 \in DOMAIN hist[Helper] /\ Helper \in Agg /\ Leader \in Agg
        <5>1. hist[Helper] \in Seq(VdafPrepMsg)
          BY <1>2 DEF Agg
        <5> QED
          BY <4>1, <5>1, EmptySeq DEF Agg
      <4> QED
        BY <2>6, <4>1 DEF IInv, CombinesBothShares
    <3> QED
      BY <2>1, <3>1 DEF IInv, HelperRetry
  <2>12. FinishSent'
    <3>1. Continue(a, n, prep_msg[a], next.share).type # "Finish"
      BY DEF Continue
    <3>2. \A m \in net' : m.type = "Finish" => m \in net
      BY <2>1, <3>1
    <3> QED
      BY <1>6, <2>1, <2>3, <3>2, PeerFacts DEF IInv, FinishSent
  <2>13. Alternation'
    BY <2>1 DEF IInv, Alternation
  <2> QED
    BY <2>7, <2>8, <2>9, <2>10, <2>11, <2>12, <2>13 DEF IInv
<1>8. CASE next.tag = "Finish"
  <2>1. /\ net' = net \cup {Finish(a, n, prep_msg[a])}
        /\ report' = report /\ phase' = phase /\ prep_state' = prep_state
        /\ prep_msg' = prep_msg /\ hist' = hist /\ shares' = shares
    BY <1>8 DEF Evaluate
  <2>2. \A b \in Agg : transition_next(b)' = transition_next(b)
    BY <2>1 DEF transition_next
  <2> DEFINE f == Finish(a, n, prep_msg[a])
  <2>3. f.type = "Finish" /\ f.from = a /\ f.step = n /\ f.prep_msg = prep_msg[a]
    BY DEF Finish
  <2> HIDE DEF f
  <2>4. net' = net \cup {f}
    BY <2>1 DEF f
  <2>5. Lockstep' /\ CombinesBothShares' /\ FirstShares' /\ HelperRetry' /\ Alternation'
    BY <2>1 DEF IInv, Lockstep, CombinesBothShares, FirstShares, HelperRetry, Alternation
  <2>6. NoEquivocation'
    BY <1>4, <1>5, <2>1, <2>3, <2>4 DEF IInv, NoEquivocation
  <2>7. \A b \in Agg : Stored(b)'
    BY <2>1, StoredFrame DEF IInv
  <2>8. FinishSent'
    BY <1>1, <1>6, <1>8, <2>1, <2>2, <2>3, <2>4, PeerFacts DEF IInv, FinishSent
  <2> QED
    BY <2>5, <2>6, <2>7, <2>8 DEF IInv
<1>9. CASE next.tag = "Err"
  <2>1. ~HostFinished(a)
    BY <1>1, <1>9 DEF HostFinished
  <2> QED
    BY <1>9, <2>1, RejectStep DEF Evaluate
<1> QED
  BY <1>7, <1>8, <1>9 DEF Evaluate

\* A message of step 0 is the leader's Initialize, and carries its first share.
LEMMA StepZero ==
    ASSUME IInv, NEW m \in net, m.step = 0
    PROVE  /\ m.type = "Initialize" /\ m.prep_share = shares[Leader][1]
           /\ 1 \in DOMAIN shares[Leader]
<1>1. m \in Message /\ hist \in [Agg -> Seq(VdafPrepMsg)]
  BY DEF IInv, TypeOK
<1>2. m.from \in Agg /\ m.type \in {"Initialize", "Continue", "Finish"}
      /\ (m.type = "Initialize" => m.from = Leader)
  BY <1>1 DEF Message, Agg
<1>3. m.type = "Initialize"
  BY <1>1, <1>2 DEF IInv, NoEquivocation
<1> QED
  BY <1>2, <1>3 DEF IInv, NoEquivocation

\* helper_initialized run again stores what is already there.
LEMMA RetryStep ==
    ASSUME IInv, CallerChecksStep, NEW m \in net, HelperInitialized(m),
           phase[Helper] = "Transition"
    PROVE  /\ phase' = phase /\ report' = report /\ net' = net /\ out_share' = out_share
           /\ hist' = hist /\ shares' = shares
           /\ \A b \in Agg : prep_state'[b] = prep_state[b] /\ prep_msg'[b] = prep_msg[b]
<1> DEFINE r == vdaf_prepare_init(Helper, report)
           combined == combine_at(Helper, m.prep_share, r.share)
<1>0. Leader \in Agg /\ Helper \in Agg /\ Leader # Helper /\ Peer(Helper) = Leader
      /\ Peer(Leader) = Helper /\ \A b \in Agg : b = Leader \/ b = Helper
  BY DEF Agg, Leader, Helper, Peer
<1>1. /\ m.type = "Initialize" /\ m.prep_share = shares[Leader][1]
      /\ 1 \in DOMAIN shares[Leader]
  BY StepZero DEF HelperInitialized
<1>2. TypeOK
  BY DEF IInv
<1>3. /\ phase \in [Agg -> Phases] /\ DOMAIN prep_state = Agg /\ DOMAIN prep_msg = Agg
      /\ net \subseteq Message
      /\ shares \in [Agg -> Seq(VdafPrepShare)] /\ hist \in [Agg -> Seq(VdafPrepMsg)]
  BY <1>2 DEF TypeOK
<1>4. helper_init(m) = "ok" =>
        /\ r.ok /\ combined.ok /\ combined.msg \in VdafPrepMsg /\ r.share \in VdafPrepShare
        /\ combined = vdaf_combine(shares[Leader][1], r.share)
        /\ StoreTransition(Helper, r.state, combined.msg)
        /\ hist' = [hist EXCEPT ![Helper] = <<combined.msg>>]
        /\ shares' = [shares EXCEPT ![Helper] =
                        IF @ = <<>> THEN <<r.share>> ELSE [@ EXCEPT ![1] = r.share]]
  <2>1. helper_init(m) = "ok" =>
          r.ok /\ combined.ok /\ combined.msg \in VdafPrepMsg /\ r.share \in VdafPrepShare
    BY <1>2, HelperInitOutcome
  <2>2. combined = vdaf_combine(shares[Leader][1], r.share)
    BY <1>0, <1>1 DEF combine_at
  <2> QED
    BY <2>1, <2>2 DEF HelperInitialized
<1>5. phase[Helper] = "Transition" /\ Len(hist[Helper]) = 1
  BY DEF HelperInitialized
<1>6. hist[Helper] \in Seq(VdafPrepMsg) /\ shares[Helper] \in Seq(VdafPrepShare)
  BY <1>0, <1>3
<1>7. hist[Helper] # <<>> /\ 1 \in DOMAIN hist[Helper]
  BY <1>5, <1>6, EmptySeq
<1>8. /\ 1 \in DOMAIN shares[Helper]
      /\ vdaf_combine(shares[Leader][1], shares[Helper][1]).ok
      /\ vdaf_combine(shares[Leader][1], shares[Helper][1]).msg
           = hist[Helper][1]
  BY <1>0, <1>7 DEF IInv, CombinesBothShares
<1>9. shares[Helper] # <<>>
  BY <1>6, <1>8
<1>10. r.ok /\ shares[Helper][1] = r.share
  BY <1>0, <1>9 DEF IInv, FirstShares
<1>11. /\ vdaf_decodes_share(r.state, m.prep_share) /\ prep_state[Helper] = r.state
      /\ prep_msg[Helper] = hist[Helper][1]
  BY <1>0, <1>1, <1>5, <1>7 DEF IInv, HelperRetry, Stored
<1>12. combined.ok /\ combined.msg = hist[Helper][1]
  BY <1>0, <1>1, <1>8, <1>10 DEF combine_at
<1>13. helper_init(m) = "ok"
  BY <1>1, <1>10, <1>11, <1>12 DEF helper_init
<1>14. <<combined.msg>> = hist[Helper]
  BY <1>5, <1>6, <1>12
<1>15. [shares[Helper] EXCEPT ![1] = r.share] = shares[Helper]
  BY <1>6, <1>10
<1> HIDE DEF r, combined
<1>16. hist' = hist /\ shares' = shares
  <2>1. hist' = [hist EXCEPT ![Helper] = hist[Helper]]
    BY <1>4, <1>13, <1>14, Zenon
  <2>2. shares' = [shares EXCEPT ![Helper] = [shares[Helper] EXCEPT ![1] = r.share]]
    BY <1>4, <1>9, <1>13
  <2>3. shares' = [shares EXCEPT ![Helper] = shares[Helper]]
    BY <1>15, <2>2, Zenon
  <2> QED
    BY <1>0, <1>3, <2>1, <2>3
<1>17. /\ phase' = phase /\ report' = report /\ net' = net /\ out_share' = out_share
       /\ prep_state' = [prep_state EXCEPT ![Helper] = r.state]
       /\ prep_msg' = [prep_msg EXCEPT ![Helper] = combined.msg]
  <2>1. StoreTransition(Helper, r.state, combined.msg)
    BY <1>4, <1>13
  <2>2. phase' = [phase EXCEPT ![Helper] = phase[Helper]]
    BY <1>5, <2>1 DEF StoreTransition
  <2>3. phase' = phase
    BY <1>0, <1>3, <2>2
  <2> QED
    BY <2>1, <2>3 DEF StoreTransition
<1>18. \A b \in Agg : prep_state'[b] = prep_state[b] /\ prep_msg'[b] = prep_msg[b]
  BY <1>3, <1>11, <1>12, <1>17
<1> QED
  BY <1>16, <1>17, <1>18

\* helper_initialized: the first call starts the helper's history, and a retry
\* stores again what is already there.
LEMMA HelperInitializedStep ==
    ASSUME IInv, TypeOK', CallerChecksStep, NEW m \in net, HelperInitialized(m)
    PROVE  IInv'
<1> DEFINE r == vdaf_prepare_init(Helper, report)
           combined == combine_at(Helper, m.prep_share, r.share)
<1>0. Leader \in Agg /\ Helper \in Agg /\ Leader # Helper /\ Peer(Helper) = Leader
      /\ Peer(Leader) = Helper /\ \A b \in Agg : b = Leader \/ b = Helper
  BY DEF Agg, Leader, Helper, Peer
<1>1. /\ m.type = "Initialize" /\ m.prep_share = shares[Leader][1]
      /\ 1 \in DOMAIN shares[Leader]
  BY StepZero DEF HelperInitialized
<1>2. TypeOK
  BY DEF IInv
<1>3. /\ phase \in [Agg -> Phases] /\ DOMAIN prep_state = Agg /\ DOMAIN prep_msg = Agg
      /\ net \subseteq Message
      /\ shares \in [Agg -> Seq(VdafPrepShare)] /\ hist \in [Agg -> Seq(VdafPrepMsg)]
  BY <1>2 DEF TypeOK
<1>4. helper_init(m) = "ok" =>
        /\ r.ok /\ combined.ok /\ combined.msg \in VdafPrepMsg /\ r.share \in VdafPrepShare
        /\ combined = vdaf_combine(shares[Leader][1], r.share)
        /\ StoreTransition(Helper, r.state, combined.msg)
        /\ hist' = [hist EXCEPT ![Helper] = <<combined.msg>>]
        /\ shares' = [shares EXCEPT ![Helper] =
                        IF @ = <<>> THEN <<r.share>> ELSE [@ EXCEPT ![1] = r.share]]
  <2>1. helper_init(m) = "ok" =>
          r.ok /\ combined.ok /\ combined.msg \in VdafPrepMsg /\ r.share \in VdafPrepShare
    BY <1>2, HelperInitOutcome
  <2>2. combined = vdaf_combine(shares[Leader][1], r.share)
    BY <1>0, <1>1 DEF combine_at
  <2> QED
    BY <2>1, <2>2 DEF HelperInitialized
<1>5. CASE phase[Helper] = "Start"
  <2>1. hist[Helper] = <<>> /\ shares[Helper] = <<>>
    BY <1>0, <1>5 DEF IInv, Stored
  <2>2. CASE helper_init(m) # "ok"
    <3>1. ~HostFinished(Helper)
      BY <1>5 DEF HostFinished
    <3> QED
      BY <1>0, <2>2, <3>1, RejectStep DEF HelperInitialized
  <2>3. CASE helper_init(m) = "ok"
    <3>1. vdaf_decodes_share(r.state, shares[Leader][1])
      BY <1>1, <2>3 DEF helper_init
    <3>2. /\ hist'[Helper] = <<combined.msg>> /\ shares'[Helper] = <<r.share>>
          /\ hist'[Leader] = hist[Leader] /\ shares'[Leader] = shares[Leader]
          /\ report' = report /\ net' = net
      BY <1>0, <1>3, <1>4, <2>1, <2>3 DEF StoreTransition
    <3>3. /\ phase'[Helper] = "Transition" /\ prep_state'[Helper] = r.state
          /\ prep_msg'[Helper] = combined.msg
          /\ phase'[Leader] = phase[Leader] /\ prep_state'[Leader] = prep_state[Leader]
          /\ prep_msg'[Leader] = prep_msg[Leader]
      BY <1>0, <1>3, <1>4, <2>3 DEF StoreTransition
    <3>4. hist[Leader] = <<>>
      <4>1. \A i \in DOMAIN hist[Leader] : i \in DOMAIN shares[Helper]
        BY <1>0 DEF IInv, CombinesBothShares
      <4>2. DOMAIN hist[Leader] = {}
        BY <2>1, <4>1
      <4>3. hist[Leader] \in Seq(VdafPrepMsg)
        BY <1>0, <1>3
      <4>4. hist[Leader] # <<>> => Len(hist[Leader]) \in Nat \ {0}
        BY <4>3, EmptySeq
      <4>5. hist[Leader] # <<>> => 1 \in DOMAIN hist[Leader]
        BY <4>3, <4>4
      <4> QED
        BY <4>2, <4>5
    <3> HIDE DEF r, combined
    <3>5. Len(<<combined.msg>>) = 1 /\ Len(<<r.share>>) = 1 /\ Len(hist[Leader]) = 0
          /\ DOMAIN <<combined.msg>> = {1} /\ DOMAIN <<r.share>> = {1}
          /\ DOMAIN hist[Leader] = {}
      BY <3>4
    <3>6. Lockstep'
      <4>1. Len(hist'[Leader]) = 0 /\ Len(hist'[Helper]) = 1 /\ DOMAIN hist'[Leader] = {}
        BY <3>2, <3>5
      <4>2. /\ Len(hist'[Leader]) <= Len(hist'[Helper]) + 1
            /\ Len(hist'[Helper]) <= Len(hist'[Leader]) + 1
        BY <4>1
      <4>3. \A b \in Agg : Len(hist'[b]) <= Len(hist'[Peer(b)]) + 1
        BY <1>0, <4>2, Zenon
      <4> QED
        BY <4>1, <4>3 DEF Lockstep, Peer
    <3>7. CombinesBothShares'
      BY <1>0, <1>1, <1>4, <2>3, <3>2, <3>5 DEF CombinesBothShares
    <3>8. \A k \in net : k.from \in Agg /\ k.from = Leader
      <4>1. \A k \in net : k.from \in Agg /\ k.type \in {"Initialize", "Continue", "Finish"}
        BY <1>3 DEF Message, Agg
      <4>2. DOMAIN hist[Helper] = {} /\ DOMAIN shares[Helper] = {}
        BY <2>1
      <4> QED
        BY <1>0, <4>1, <4>2 DEF IInv, NoEquivocation
    <3>9. NoEquivocation'
      BY <3>2, <3>8 DEF IInv, NoEquivocation
    <3>10. FirstShares'
      BY <1>0, <1>4, <2>3, <3>2 DEF IInv, FirstShares, r
    <3>11. transition_next(Leader)' = transition_next(Leader)
      BY <1>0, <3>3, TransitionFrame
    <3>12. phase[Leader] \notin {"Transition", "FinishedNoMessage"}
      <4>1. phase[Leader] # "Transition"
        BY <1>0, <3>5 DEF IInv, Stored
      <4>2. phase[Leader] # "FinishedNoMessage"
        BY <1>0, <1>5 DEF IInv, FinishSent
      <4> QED
        BY <4>1, <4>2
    <3>13. \A b \in Agg : Stored(b)'
      <4>1. Stored(Helper)'
        BY <1>0, <3>2, <3>3, <3>5 DEF Stored
      <4>2. Stored(Leader)'
        BY <1>0, <3>2, <3>3, <3>12, StoredFrame DEF IInv
      <4> QED
        BY <1>0, <4>1, <4>2
    <3>14. HelperRetry'
      BY <3>1, <3>2, <3>3 DEF HelperRetry, r
    <3>15. FinishSent'
      BY <1>0, <3>2, <3>3, <3>8, <3>12 DEF IInv, FinishSent
    <3>16. Alternation'
      BY <3>3, <3>12 DEF Alternation
    <3> QED
      BY <3>6, <3>7, <3>9, <3>10, <3>13, <3>14, <3>15, <3>16 DEF IInv
  <2> QED
    BY <2>2, <2>3
<1>6. CASE phase[Helper] = "Transition"
  BY <1>6, RetryStep, QuietStep
<1> QED
  BY <1>5, <1>6 DEF HelperInitialized

\* A message accepted for the round after the receiver's is the sender's latest,
\* and the receiver has produced its share for that round.
LEMMA NextRound ==
    ASSUME IInv, NEW a \in Agg, NEW m \in net, m.from = Peer(a), HostContinued(a),
           m.step = Len(hist[a]) + 1
    PROVE  /\ m.type # "Initialize"
           /\ Len(hist[a]) \in Nat /\ Len(hist[Peer(a)]) = Len(hist[a]) + 1
           /\ m.prep_msg = hist[Peer(a)][Len(hist[a]) + 1]
           /\ Len(shares[a]) = Len(hist[a]) + 1
           /\ m.type = "Continue" =>
                /\ Len(hist[a]) + 2 \in DOMAIN shares[Peer(a)]
                /\ m.prep_share = shares[Peer(a)][Len(hist[a]) + 2]
<1>1. /\ m \in Message /\ Peer(a) \in Agg
      /\ hist \in [Agg -> Seq(VdafPrepMsg)] /\ shares \in [Agg -> Seq(VdafPrepShare)]
  BY PeerFacts DEF IInv, TypeOK
<1>2. /\ hist[a] \in Seq(VdafPrepMsg) /\ hist[Peer(a)] \in Seq(VdafPrepMsg)
      /\ shares[a] \in Seq(VdafPrepShare)
  BY <1>1
<1>3. Len(hist[a]) \in Nat /\ Len(hist[Peer(a)]) \in Nat /\ Len(shares[a]) \in Nat
  BY <1>2
<1>4. m.type # "Initialize" /\ m.type \in {"Initialize", "Continue", "Finish"}
  BY <1>1, <1>3 DEF Message
<1>5. m.step \in DOMAIN hist[Peer(a)] /\ m.prep_msg = hist[Peer(a)][m.step]
  BY <1>4 DEF IInv, NoEquivocation
<1>6. Len(hist[a]) + 1 <= Len(hist[Peer(a)])
  BY <1>2, <1>3, <1>5
<1>7. Len(hist[Peer(a)]) <= Len(hist[a]) + 1
  BY <1>1, PeerFacts DEF IInv, Lockstep
<1>8. Len(hist[Peer(a)]) = Len(hist[a]) + 1
  BY <1>3, <1>6, <1>7
<1>9. Len(shares[a]) = Len(hist[a]) + 1
  <2>1. Len(hist[a]) + 1 \in DOMAIN shares[a]
    BY <1>1, <1>5 DEF IInv, CombinesBothShares, Agg
  <2>2. Len(shares[a]) >= Len(hist[a]) + 1
    BY <1>2, <1>3, <2>1
  <2>3. Len(shares[a]) <= Len(hist[a]) + 1
    <3>1. CASE phase[a] = "Continued"
      <4>1. hist[a] = <<>> /\ Len(shares[a]) = 1
        BY <3>1 DEF IInv, Stored
      <4>2. Len(hist[a]) = 0
        BY <4>1
      <4> QED
        BY <4>1, <4>2
    <3>2. CASE phase[a] = "Transition"
      BY <1>3, <3>2 DEF IInv, Stored
    <3> QED
      BY <3>1, <3>2 DEF HostContinued
  <2> QED
    BY <1>3, <2>2, <2>3
<1>10. m.type = "Continue" =>
        /\ Len(hist[a]) + 2 \in DOMAIN shares[Peer(a)]
        /\ m.prep_share = shares[Peer(a)][Len(hist[a]) + 2]
  <2>1. (Len(hist[a]) + 1) + 1 = Len(hist[a]) + 2
    BY <1>3
  <2> QED
    BY <2>1 DEF IInv, NoEquivocation
<1> QED
  BY <1>3, <1>4, <1>5, <1>8, <1>9, <1>10

\* Appending two elements to a sequence.
LEMMA ConcatTwo ==
    ASSUME NEW S, NEW s \in Seq(S), NEW x \in S, NEW y \in S
    PROVE  /\ s \o <<x, y>> \in Seq(S) /\ Len(s \o <<x, y>>) = Len(s) + 2
           /\ \A i \in 1..Len(s) : (s \o <<x, y>>)[i] = s[i]
           /\ (s \o <<x, y>>)[Len(s) + 1] = x /\ (s \o <<x, y>>)[Len(s) + 2] = y
<1>1. <<x, y>> \in Seq(S) /\ Len(<<x, y>>) = 2 /\ <<x, y>>[1] = x /\ <<x, y>>[2] = y
  OBVIOUS
<1>2. Len(s) \in Nat
  OBVIOUS
<1>3. \A i \in 1..Len(s) + 2 : (s \o <<x, y>>)[i] =
          IF i <= Len(s) THEN s[i] ELSE <<x, y>>[i - Len(s)]
  BY <1>1, ConcatProperties
<1>4. (s \o <<x, y>>)[Len(s) + 1] = x
  BY <1>1, <1>2, <1>3
<1>5. (s \o <<x, y>>)[Len(s) + 2] = y
  BY <1>1, <1>2, <1>3
<1>6. \A i \in 1..Len(s) : (s \o <<x, y>>)[i] = s[i]
  BY <1>2, <1>3
<1> QED
  BY <1>1, <1>4, <1>5, <1>6, ConcatProperties

\* leader_continued and helper_continued.
LEMMA ContinuedStep ==
    ASSUME IInv, TypeOK', CallerChecksStep, NEW a \in Agg, NEW m \in net, Continued(a, m)
    PROVE  IInv'
<1> DEFINE next == vdaf_prepare_next(host_prep_state(a), m.prep_msg)
           combined == combine_at(a, m.prep_share, next.share)
           n == Len(hist[a])
           p == Peer(a)
<1>0. /\ p \in Agg /\ p # a /\ Peer(p) = a /\ Leader \in Agg /\ Helper \in Agg
      /\ \A b \in Agg : b = a \/ b = p
  BY DEF Agg, Leader, Helper, Peer
<1>1. HostContinued(a) /\ m.from = p /\ m.step = n + 1
  BY DEF Continued
<1>2. TypeOK
  BY DEF IInv
<1>3. /\ phase \in [Agg -> Phases] /\ DOMAIN prep_state = Agg /\ DOMAIN prep_msg = Agg
      /\ net \subseteq Message
      /\ shares \in [Agg -> Seq(VdafPrepShare)] /\ hist \in [Agg -> Seq(VdafPrepMsg)]
  BY <1>2 DEF TypeOK
<1>4. /\ hist[a] \in Seq(VdafPrepMsg) /\ hist[p] \in Seq(VdafPrepMsg)
      /\ shares[a] \in Seq(VdafPrepShare) /\ shares[p] \in Seq(VdafPrepShare)
  BY <1>0, <1>3
<1>5. /\ m.type # "Initialize" /\ n \in Nat /\ Len(hist[p]) = n + 1
      /\ m.prep_msg = hist[p][n + 1] /\ Len(shares[a]) = n + 1
      /\ m.type = "Continue" =>
            n + 2 \in DOMAIN shares[p] /\ m.prep_share = shares[p][n + 2]
  BY <1>1, NextRound
<1>6. \A k \in net : k.from \in Agg /\ k.type \in {"Initialize", "Continue", "Finish"}
  BY <1>3 DEF Message, Agg
<1>7. ~HostFinished(a) /\ phase[a] # "FinishedNoMessage"
  BY <1>1 DEF HostFinished, HostContinued
<1>8. phase[p] # "FinishedNoMessage"
  BY <1>0, <1>7 DEF IInv, FinishSent, HostFinished
<1>9. \A k \in net : k.type = "Finish" => k.from = p
  BY <1>0, <1>6, <1>7 DEF IInv, FinishSent, HostFinished
<1>10. CASE continued(a, m) \notin {"WithMessage", "FinishedNoMessage"}
  BY <1>7, <1>10, RejectStep DEF Continued
<1>11. CASE continued(a, m) = "WithMessage"
  <2>1. /\ m.type = "Continue" /\ m.prep_msg \in VdafPrepMsg /\ next.share \in VdafPrepShare
        /\ combined.ok /\ combined.msg \in VdafPrepMsg
    BY <1>1, <1>2, <1>11, ContinuedOutcome
  <2>2. /\ StoreTransition(a, next.state, combined.msg)
        /\ hist' = [hist EXCEPT ![a] = @ \o <<m.prep_msg, combined.msg>>]
        /\ shares' = [shares EXCEPT ![a] = Append(@, next.share)]
    BY <1>11 DEF Continued
  <2>3. combined = IF a = Leader
                   THEN vdaf_combine(next.share, m.prep_share)
                   ELSE vdaf_combine(m.prep_share, next.share)
    BY DEF combine_at
  <2> HIDE DEF next, combined, n
  <2>4. /\ phase'[a] = "Transition" /\ prep_msg'[a] = combined.msg
        /\ phase'[p] = phase[p] /\ prep_state'[p] = prep_state[p] /\ prep_msg'[p] = prep_msg[p]
        /\ report' = report /\ net' = net
    BY <1>0, <1>3, <2>2 DEF StoreTransition
  <2>5. /\ hist'[a] = hist[a] \o <<m.prep_msg, combined.msg>> /\ hist'[p] = hist[p]
        /\ shares'[a] = Append(shares[a], next.share) /\ shares'[p] = shares[p]
    BY <1>0, <1>3, <2>2
  <2>6. /\ hist'[a] \in Seq(VdafPrepMsg) /\ Len(hist'[a]) = n + 2
        /\ \A i \in 1..n : hist'[a][i] = hist[a][i]
        /\ hist'[a][n + 1] = m.prep_msg /\ hist'[a][n + 2] = combined.msg
    BY <1>4, <2>1, <2>5, ConcatTwo DEF n
  <2>7. /\ shares'[a] \in Seq(VdafPrepShare) /\ Len(shares'[a]) = n + 2
        /\ \A i \in 1..n + 1 : shares'[a][i] = shares[a][i]
        /\ shares'[a][n + 2] = next.share
    <3>1. /\ shares'[a] \in Seq(VdafPrepShare) /\ Len(shares'[a]) = Len(shares[a]) + 1
          /\ \A i \in 1..Len(shares[a]) : shares'[a][i] = shares[a][i]
          /\ shares'[a][Len(shares[a]) + 1] = next.share
      BY <1>4, <2>1, <2>5, AppendProperties
    <3>2. (n + 1) + 1 = n + 2
      BY <1>5
    <3> QED
      BY <1>5, <3>1, <3>2
  <2>8. /\ DOMAIN hist[a] = 1..n /\ DOMAIN hist'[a] = 1..n + 2 /\ DOMAIN hist[p] = 1..n + 1
        /\ DOMAIN shares[a] = 1..n + 1 /\ DOMAIN shares'[a] = 1..n + 2
    BY <1>4, <1>5, <2>6, <2>7 DEF n
  <2>9. \A b \in Agg : \A i \in DOMAIN shares[b] :
            i \in DOMAIN shares'[b] /\ shares'[b][i] = shares[b][i]
    <3>1. \A i \in DOMAIN shares[a] : i \in DOMAIN shares'[a] /\ shares'[a][i] = shares[a][i]
      BY <1>5, <2>7, <2>8
    <3> QED
      BY <1>0, <2>5, <3>1, Zenon
  <2>10. \A b \in Agg : \A i \in DOMAIN hist[b] :
            i \in DOMAIN hist'[b] /\ hist'[b][i] = hist[b][i]
    <3>1. \A i \in DOMAIN hist[a] : i \in DOMAIN hist'[a] /\ hist'[a][i] = hist[a][i]
      BY <1>5, <2>6, <2>8
    <3> QED
      BY <1>0, <2>5, <3>1, Zenon
  <2>11. \A i \in 1..n + 1 : hist'[a][i] = hist[p][i]
    <3>1. \A i \in DOMAIN hist[a] \cap DOMAIN hist[p] : hist[a][i] = hist[p][i]
      BY <1>0 DEF IInv, Lockstep, Agg, Peer, Leader, Helper
    <3>2. \A i \in 1..n : hist'[a][i] = hist[p][i]
      <4>1. \A i \in 1..n : i \in 1..n + 1
        BY <1>5
      <4>2. \A i \in 1..n : hist[a][i] = hist[p][i]
        BY <2>8, <3>1, <4>1
      <4>3. \A i \in 1..n : hist'[a][i] = hist[a][i]
        BY <2>6
      <4> QED
        BY <4>2, <4>3
    <3>3. hist'[a][n + 1] = m.prep_msg
      BY <2>6
    <3>4. \A i \in 1..n + 1 : i \in 1..n \/ i = n + 1
      BY <1>5
    <3> QED
      BY <1>5, <3>2, <3>3, <3>4
  <2>12. Lockstep'
    <3>1. /\ Len(hist'[a]) <= Len(hist'[p]) + 1 /\ Len(hist'[p]) <= Len(hist'[a]) + 1
      BY <1>5, <2>5, <2>6
    <3>2. \A b \in Agg : Len(hist'[b]) <= Len(hist'[Peer(b)]) + 1
      BY <1>0, <3>1, Zenon
    <3>3. \A i \in DOMAIN hist'[a] \cap DOMAIN hist'[p] : hist'[a][i] = hist'[p][i]
      BY <2>5, <2>8, <2>11
    <3>4. \A i \in DOMAIN hist'[Leader] \cap DOMAIN hist'[Helper] :
            hist'[Leader][i] = hist'[Helper][i]
      BY <1>0, <3>3 DEF Agg, Leader, Helper, Peer
    <3> QED
      BY <3>2, <3>4 DEF Lockstep, Peer
  <2>13. CombinesBothShares'
    <3> DEFINE good(i, c) ==
            /\ i \in DOMAIN shares'[Leader] \cap DOMAIN shares'[Helper]
            /\ vdaf_combine(shares'[Leader][i], shares'[Helper][i]).ok
            /\ vdaf_combine(shares'[Leader][i], shares'[Helper][i]).msg = c
    <3>1. \A b \in Agg : \A i \in DOMAIN hist[b] : good(i, hist[b][i])
      BY <1>0, <2>9 DEF IInv, CombinesBothShares
    <3>2. \A i \in 1..n + 1 : good(i, hist'[a][i])
      BY <1>0, <2>8, <2>11, <3>1
    <3>3. good(n + 2, hist'[a][n + 2])
      <4>1. n + 2 \in DOMAIN shares'[a] /\ n + 2 \in DOMAIN shares'[p]
            /\ shares'[p][n + 2] = m.prep_share
        BY <1>5, <2>1, <2>5, <2>8
      <4>2. a = Leader => p = Helper
        BY DEF Peer, Leader, Helper
      <4>3. a # Leader => a = Helper /\ p = Leader
        BY DEF Peer, Agg, Leader, Helper
      <4> QED
        BY <2>1, <2>3, <2>6, <2>7, <4>1, <4>2, <4>3
    <3> HIDE DEF good
    <3>4. \A i \in DOMAIN hist'[a] : good(i, hist'[a][i])
      <4>1. \A i \in 1..n + 2 : i \in 1..n + 1 \/ i = n + 2
        BY <1>5
      <4> QED
        BY <2>8, <3>2, <3>3, <4>1
    <3>5. \A i \in DOMAIN hist'[p] : good(i, hist'[p][i])
      BY <1>0, <2>5, <3>1
    <3>6. \A b \in Agg : \A i \in DOMAIN hist'[b] : good(i, hist'[b][i])
      BY <1>0, <3>4, <3>5
    <3> QED
      BY <3>6 DEF CombinesBothShares, good
  <2>14. NoEquivocation'
    BY <1>6, <2>4, <2>9, <2>10 DEF IInv, NoEquivocation
  <2>15. \A b \in Agg : shares[b] # <<>> => shares'[b][1] = shares[b][1]
    <3>1. shares'[a][1] = shares[a][1]
      BY <1>5, <2>7
    <3> QED
      BY <1>0, <2>5, <3>1, Zenon
  <2>16. FirstShares'
    <3>1. shares[a] # <<>>
      BY <1>4, <1>5, EmptySeq
    <3> QED
      BY <1>0, <2>4, <2>5, <2>15, <3>1 DEF IInv, FirstShares
  <2>17. \A b \in Agg : Stored(b)'
    <3>1. Stored(a)'
      BY <1>5, <2>4, <2>6, <2>7 DEF Stored
    <3>2. Stored(p)'
      BY <1>0, <1>8, <2>4, <2>5, StoredFrame DEF IInv
    <3> QED
      BY <1>0, <3>1, <3>2
  <2>18. HelperRetry'
    <3>1. vdaf_prepare_init(Helper, report') = vdaf_prepare_init(Helper, report)
      BY <2>4
    <3>2. hist[Helper] # <<>> /\ 1 \in DOMAIN hist[Helper]
      <4>1. CASE a = Helper
        <5>1. n >= 1
          BY <1>1, <1>4, <1>5, <4>1 DEF IInv, Stored, HostContinued, Leader, Helper, n
        <5> QED
          BY <1>4, <2>8, <4>1, <5>1, EmptySeq DEF n
      <4>2. CASE p = Helper
        BY <1>4, <1>5, <2>8, <4>2, EmptySeq
      <4> QED
        BY <1>0, <4>1, <4>2
    <3>3. shares'[Leader][1] = shares[Leader][1]
      BY <1>0, <2>9, <3>2 DEF IInv, CombinesBothShares
    <3>4. a # Helper \/ Len(hist'[Helper]) # 1
      BY <1>5, <2>6
    <3> QED
      BY <1>0, <2>4, <2>5, <3>1, <3>2, <3>3, <3>4 DEF IInv, HelperRetry
  <2>19. FinishSent'
    <3>1. transition_next(p)' = transition_next(p)
      BY <1>0, <2>4, TransitionFrame
    <3>2. \A k \in net' : k.type = "Finish" =>
            /\ phase'[k.from] = "Transition" /\ transition_next(k.from)'.tag = "Finish"
            /\ k.step = Len(hist'[k.from])
      BY <1>9, <2>4, <2>5, <3>1 DEF IInv, FinishSent
    <3>3. \A b \in Agg : phase'[b] # "FinishedNoMessage"
      BY <1>0, <1>8, <2>4
    <3> QED
      BY <3>2, <3>3 DEF FinishSent
  <2>20. Alternation'
    <3>1. Len(hist'[a]) # Len(hist'[p])
      BY <1>5, <2>5, <2>6
    <3> QED
      BY <1>0, <3>1 DEF Alternation, Agg, Leader, Helper, Peer
  <2> QED
    BY <2>12, <2>13, <2>14, <2>16, <2>17, <2>18, <2>19, <2>20 DEF IInv
<1>12. CASE continued(a, m) = "FinishedNoMessage"
  <2>1. m.type = "Finish" /\ m.prep_msg \in VdafPrepMsg
    BY <1>1, <1>2, <1>12, ContinuedOutcome
  <2>2. /\ phase' = [phase EXCEPT ![a] = "FinishedNoMessage"]
        /\ prep_state' = [prep_state EXCEPT ![a] = NoState]
        /\ prep_msg' = [prep_msg EXCEPT ![a] = NoMsg]
        /\ hist' = [hist EXCEPT ![a] = Append(@, m.prep_msg)]
        /\ report' = report /\ net' = net /\ shares' = shares
    BY <1>12 DEF Continued
  <2> HIDE DEF next, combined, n
  <2>3. /\ phase'[a] = "FinishedNoMessage" /\ phase'[p] = phase[p]
        /\ prep_state'[p] = prep_state[p] /\ prep_msg'[p] = prep_msg[p]
        /\ hist'[a] = Append(hist[a], m.prep_msg) /\ hist'[p] = hist[p]
    BY <1>0, <1>3, <2>2
  <2>4. /\ hist'[a] \in Seq(VdafPrepMsg) /\ Len(hist'[a]) = n + 1
        /\ \A i \in 1..n : hist'[a][i] = hist[a][i]
        /\ hist'[a][n + 1] = m.prep_msg
    BY <1>4, <2>1, <2>3, AppendProperties DEF n
  <2>5. DOMAIN hist[a] = 1..n /\ DOMAIN hist'[a] = 1..n + 1 /\ DOMAIN hist[p] = 1..n + 1
    BY <1>4, <1>5, <2>4 DEF n
  <2>6. hist'[a] = hist[p]
    <3>1. \A i \in DOMAIN hist[a] \cap DOMAIN hist[p] : hist[a][i] = hist[p][i]
      BY <1>0 DEF IInv, Lockstep, Agg, Peer, Leader, Helper
    <3>2. \A i \in 1..n : hist'[a][i] = hist[p][i]
      BY <1>5, <2>4, <2>5, <3>1
    <3>3. \A i \in 1..n + 1 : hist'[a][i] = hist[p][i]
      BY <1>5, <2>4, <3>2
    <3> QED
      BY <1>4, <1>5, <2>4, <3>3, SeqEqual
  <2>7. \A b \in Agg : hist'[b] = hist[p]
    BY <1>0, <2>3, <2>6
  <2>8. Lockstep'
    <3>1. \A b \in Agg : Len(hist'[b]) <= Len(hist'[Peer(b)]) + 1
      BY <1>5, <2>7, PeerFacts
    <3> QED
      BY <1>0, <2>7, <3>1 DEF Lockstep, Peer
  <2>9. CombinesBothShares'
    <3>1. \A i \in DOMAIN hist[p] :
            /\ i \in DOMAIN shares[Leader] \cap DOMAIN shares[Helper]
            /\ vdaf_combine(shares[Leader][i], shares[Helper][i]).ok
            /\ vdaf_combine(shares[Leader][i], shares[Helper][i]).msg
                 = hist[p][i]
      BY <1>0 DEF IInv, CombinesBothShares
    <3> QED
      BY <2>2, <2>7, <3>1 DEF CombinesBothShares
  <2>10. \A b \in Agg : \A i \in DOMAIN hist[b] :
            i \in DOMAIN hist'[b] /\ hist'[b][i] = hist[b][i]
    <3>1. \A i \in DOMAIN hist[a] : i \in DOMAIN hist'[a] /\ hist'[a][i] = hist[a][i]
      BY <1>5, <2>4, <2>5
    <3> QED
      BY <1>0, <2>3, <3>1, Zenon
  <2>11. NoEquivocation'
    BY <1>6, <2>2, <2>10 DEF IInv, NoEquivocation
  <2>12. FirstShares'
    BY <2>2 DEF IInv, FirstShares
  <2>13. \A b \in Agg : Stored(b)'
    <3>1. Stored(a)'
      BY <1>0, <2>3, <2>6 DEF Stored, Peer
    <3>2. Stored(p)'
      BY <1>0, <1>8, <2>2, <2>3, StoredFrame DEF IInv
    <3> QED
      BY <1>0, <3>1, <3>2
  <2>14. HelperRetry'
    <3>1. a = Helper => hist[Helper] # <<>>
      <4>1. ASSUME a = Helper
            PROVE  n >= 1
        BY <1>1, <1>4, <1>5, <4>1 DEF IInv, Stored, HostContinued, Leader, Helper, n
      <4> QED
        BY <1>4, <4>1, EmptySeq DEF n
    <3> QED
      BY <1>0, <2>2, <2>3, <3>1 DEF IInv, HelperRetry
  <2>15. FinishSent'
    <3>1. transition_next(p)' = transition_next(p)
      BY <1>0, <2>3, TransitionFrame
    <3>2. phase[p] = "Transition" /\ transition_next(p).tag = "Finish"
      BY <1>1, <2>1 DEF IInv, FinishSent
    <3>3. \A k \in net' : k.type = "Finish" =>
            /\ phase'[k.from] = "Transition" /\ transition_next(k.from)'.tag = "Finish"
            /\ k.step = Len(hist'[k.from])
      BY <1>9, <2>2, <2>3, <3>1 DEF IInv, FinishSent
    <3>4. \A b \in Agg : phase'[b] = "FinishedNoMessage" => b = a
      BY <1>0, <1>8, <2>3
    <3> QED
      BY <2>3, <3>1, <3>2, <3>3, <3>4 DEF FinishSent, Peer
  <2>16. Alternation'
    BY <1>0, <2>3 DEF Alternation, Agg
  <2> QED
    BY <2>8, <2>9, <2>11, <2>12, <2>13, <2>14, <2>15, <2>16 DEF IInv
<1> QED
  BY <1>10, <1>11, <1>12

-----------------------------------------------------------------------------
\* The inductive invariant holds of the initial states and is preserved.
LEMMA IInvInit == Init => IInv
<1> SUFFICES ASSUME Init
             PROVE  IInv
  OBVIOUS
<1>1. TypeOK
  BY DEF Init, TypeOK, Phases, Errors, Agg
<1>2. \A a \in Agg : hist[a] = <<>> /\ shares[a] = <<>> /\ phase[a] = "Start"
  BY DEF Init
<1>3. net = {} /\ Leader \in Agg /\ Helper \in Agg /\ Len(<<>>) = 0 /\ DOMAIN <<>> = {}
  BY DEF Init, Agg
<1>4. Lockstep
  BY <1>2, <1>3, PeerFacts DEF Lockstep
<1>5. CombinesBothShares /\ NoEquivocation /\ FirstShares
  BY <1>2, <1>3 DEF CombinesBothShares, NoEquivocation, FirstShares
<1>6. (\A a \in Agg : Stored(a)) /\ HelperRetry /\ FinishSent /\ Alternation
  BY <1>2, <1>3 DEF Stored, HelperRetry, FinishSent, Alternation
<1> QED
  BY <1>1, <1>4, <1>5, <1>6 DEF IInv

\* Every step preserves the invariant.
LEMMA IInvStep ==
    ASSUME CallerChecksStep, IInv, [Next]_vars
    PROVE  IInv'
<1>1. TypeOK'
  BY TypeStep DEF IInv
<1>2. CASE LeaderInitialized
  BY <1>1, <1>2, LeaderInitializedStep
<1>3. ASSUME NEW m \in net, HelperInitialized(m)
      PROVE  IInv'
  BY <1>1, <1>3, HelperInitializedStep
<1>4. ASSUME NEW a \in Agg, Evaluate(a)
      PROVE  IInv'
  BY <1>1, <1>4, EvaluateStep
<1>5. ASSUME NEW a \in Agg, NEW m \in net, Continued(a, m)
      PROVE  IInv'
  BY <1>1, <1>5, ContinuedStep
<1>6. ASSUME NEW a \in Agg, NEW m \in net, LateMessage(a, m)
      PROVE  IInv'
  BY <1>1, <1>6, QuietStep DEF LateMessage
<1>7. ASSUME NEW a \in Agg, Restart(a)
      PROVE  IInv'
  <2>1. vdaf_decode_state(a, vdaf_encode_state(prep_state[a])) = prep_state[a] /\ DOMAIN prep_state = Agg
    BY <1>7, CodecContract DEF Restart, IInv, TypeOK
  <2>2. \A b \in Agg : prep_state'[b] = prep_state[b]
    BY <1>7, <2>1 DEF Restart
  <2> QED
    BY <1>1, <1>7, <2>2, QuietStep DEF Restart
<1>8. ASSUME NEW m \in net, Lose(m)
      PROVE  IInv'
  BY <1>1, <1>8, QuietStep DEF Lose
<1>9. CASE UNCHANGED vars
  BY <1>1, <1>9, QuietStep DEF vars
<1> QED
  BY <1>2, <1>3, <1>4, <1>5, <1>6, <1>7, <1>8, <1>9 DEF Next

\* Two finished aggregators never both wait in a transition: the one that is a
\* round ahead got there with a share of the other, which therefore continues.
LEMMA IInvFinish == IInv => FinishAgreement
<1> SUFFICES ASSUME IInv
             PROVE  FinishAgreement
  OBVIOUS
<1>0. Leader \in Agg /\ Helper \in Agg /\ Peer(Leader) = Helper /\ Peer(Helper) = Leader
  BY DEF Agg, Leader, Helper, Peer
<1>1. \A a \in Agg : phase[a] = "FinishedNoMessage" => HostFinished(Peer(a))
  BY DEF IInv, FinishSent, HostFinished
<1>2. ASSUME HostFinished(Leader), HostFinished(Helper)
      PROVE  hist[Leader] = hist[Helper]
  <2>1. CASE phase[Leader] = "FinishedNoMessage" \/ phase[Helper] = "FinishedNoMessage"
    BY <1>0, <2>1 DEF IInv, Stored
  <2>2. CASE phase[Leader] = "Transition" /\ phase[Helper] = "Transition"
    <3>1. /\ hist[Leader] \in Seq(VdafPrepMsg) /\ hist[Helper] \in Seq(VdafPrepMsg)
          /\ shares[Leader] \in Seq(VdafPrepShare) /\ shares[Helper] \in Seq(VdafPrepShare)
      BY <1>0 DEF IInv, TypeOK
    <3>2. ASSUME NEW a \in Agg, phase[a] = "Transition", transition_next(a).tag = "Finish"
          PROVE  ~(Len(hist[Peer(a)]) = Len(hist[a]) + 1)
      <4>1. /\ Peer(a) \in Agg /\ hist[a] \in Seq(VdafPrepMsg) /\ hist[Peer(a)] \in Seq(VdafPrepMsg)
            /\ shares[a] \in Seq(VdafPrepShare)
        BY PeerFacts DEF IInv, TypeOK
      <4>2. Len(hist[a]) \in Nat /\ Len(shares[a]) = Len(hist[a])
        BY <3>2, <4>1 DEF IInv, Stored
      <4>3. SUFFICES ASSUME Len(hist[Peer(a)]) = Len(hist[a]) + 1
                     PROVE  FALSE
        OBVIOUS
      <4>4. Len(hist[a]) + 1 \in DOMAIN hist[Peer(a)]
        BY <4>1, <4>2, <4>3
      <4>5. Len(hist[a]) + 1 \in DOMAIN shares[a]
        BY <4>1, <4>4 DEF IInv, CombinesBothShares, Agg
      <4> QED
        BY <4>1, <4>2, <4>5
    <3>3. Len(hist[Leader]) # Len(hist[Helper])
      BY <2>2 DEF IInv, Alternation
    <3>4. /\ Len(hist[Leader]) <= Len(hist[Helper]) + 1
          /\ Len(hist[Helper]) <= Len(hist[Leader]) + 1
      BY <1>0 DEF IInv, Lockstep
    <3>5. /\ Len(hist[Helper]) # Len(hist[Leader]) + 1
          /\ Len(hist[Leader]) # Len(hist[Helper]) + 1
      BY <1>0, <1>2, <2>2, <3>2 DEF HostFinished
    <3>6. Len(hist[Leader]) \in Nat /\ Len(hist[Helper]) \in Nat
      BY <3>1
    <3> QED
      BY <3>3, <3>4, <3>5, <3>6
  <2> QED
    BY <1>2, <2>1, <2>2 DEF HostFinished
<1> QED
  BY <1>1, <1>2 DEF FinishAgreement

\* When messages reach the round they were sent for, the two aggregators adopt the
\* same prepare messages in lockstep, for every VDAF that keeps its contract, with any
\* number of rounds, retries, crashes, losses and duplicates.
THEOREM RoundsAgree ==
    ASSUME CallerChecksStep
    PROVE  Spec => []Lockstep
<1>1. IInv /\ [Next]_vars => IInv'
  BY IInvStep
<1>2. IInv => Lockstep
  BY DEF IInv
<1> QED
  BY <1>1, <1>2, IInvInit, PTL DEF Spec

\* Under the same condition, every prepare message an aggregator adopts is made of the
\* two shares of its round, the leader's first, and an aggregator never sends two
\* different messages for a step, however often it is restarted and asked again.
THEOREM RoundsKeepFaith ==
    ASSUME CallerChecksStep
    PROVE  Spec => []RoundsAreFaithful
<1>1. IInv /\ [Next]_vars => IInv'
  BY IInvStep
<1>2. IInv => RoundsAreFaithful
  BY DEF IInv, RoundsAreFaithful
<1> QED
  BY <1>1, <1>2, IInvInit, PTL DEF Spec

\* Under the same condition, two aggregators that have finished have finished in the
\* same round on the same prepare messages, and who finishes without a message to
\* send finishes after its peer.
THEOREM FinishesAgree ==
    ASSUME CallerChecksStep
    PROVE  Spec => []FinishAgreement
<1>1. IInv /\ [Next]_vars => IInv'
  BY IInvStep
<1> QED
  BY <1>1, IInvInit, IInvFinish, PTL DEF Spec

\* What a step may not do to an aggregator's outcome.
Final(a) ==
    /\ HostFinished(a) => HostFinished(a)' /\ OutputOf(a)' = OutputOf(a)
    /\ phase[a] = "Rejected" => phase'[a] = "Rejected"

\* No step does it: retries compute again what is stored, and late messages store nothing.
LEMMA FinalStep ==
    ASSUME CallerChecksStep, IInv, Next, NEW a \in Agg
    PROVE  Final(a)
<1> USE DEF Final, HostFinished, OutputOf, transition_next
<1>0. /\ phase \in [Agg -> Phases] /\ DOMAIN prep_state = Agg /\ DOMAIN prep_msg = Agg
      /\ DOMAIN out_share = Agg
  BY DEF IInv, TypeOK
<1>1. ASSUME NEW b \in Agg, NEW e, Reject(b, e), ~HostFinished(b)
      PROVE  Final(a)
  BY <1>0, <1>1 DEF Reject
<1>2. CASE LeaderInitialized
  <2>1. Leader \in Agg /\ phase[Leader] \in {"Start", "Continued"}
    BY <1>2 DEF LeaderInitialized, Agg
  <2>2. CASE ~vdaf_prepare_init(Leader, report).ok
    BY <1>1, <1>2, <2>1, <2>2 DEF LeaderInitialized
  <2>3. CASE vdaf_prepare_init(Leader, report).ok
    <3>1. /\ phase' = [phase EXCEPT ![Leader] = "Continued"]
          /\ \A b \in Agg : b # Leader => prep_state'[b] = prep_state[b]
          /\ prep_msg' = prep_msg /\ out_share' = out_share
      BY <1>0, <1>2, <2>1, <2>3 DEF LeaderInitialized
    <3> QED
      BY <1>0, <2>1, <3>1
  <2> QED
    BY <2>2, <2>3
<1>3. ASSUME NEW m \in net, HelperInitialized(m)
      PROVE  Final(a)
  <2>0. Helper \in Agg
    BY DEF Agg
  <2>1. CASE phase[Helper] = "Transition"
    BY <1>0, <1>3, <2>1, RetryStep
  <2>2. CASE phase[Helper] = "Start" /\ helper_init(m) # "ok"
    BY <1>1, <1>3, <2>0, <2>2 DEF HelperInitialized
  <2>3. CASE phase[Helper] = "Start" /\ helper_init(m) = "ok"
    <3>1. /\ phase' = [phase EXCEPT ![Helper] = "Transition"]
          /\ \A b \in Agg : b # Helper => prep_state'[b] = prep_state[b] /\ prep_msg'[b] = prep_msg[b]
          /\ out_share' = out_share
      BY <1>0, <1>3, <2>3 DEF HelperInitialized, StoreTransition
    <3> QED
      BY <1>0, <2>0, <2>3, <3>1
  <2> QED
    BY <1>3, <2>1, <2>2, <2>3 DEF HelperInitialized
<1>4. ASSUME NEW b \in Agg, Evaluate(b)
      PROVE  Final(a)
  <2>1. CASE transition_next(b).tag = "Err"
    <3>1. ~HostFinished(b)
      BY <1>4, <2>1 DEF Evaluate
    <3> QED
      BY <1>1, <1>4, <2>1, <3>1 DEF Evaluate
  <2>2. CASE transition_next(b).tag # "Err"
    BY <1>4, <2>2 DEF Evaluate
  <2> QED
    BY <2>1, <2>2
<1>5. ASSUME NEW b \in Agg, NEW m \in net, Continued(b, m)
      PROVE  Final(a)
  <2>1. ~HostFinished(b) /\ phase[b] # "Rejected"
    BY <1>5 DEF Continued, HostContinued
  <2>2. CASE continued(b, m) \notin {"WithMessage", "FinishedNoMessage"}
    BY <1>1, <1>5, <2>1, <2>2 DEF Continued
  <2>3. CASE continued(b, m) \in {"WithMessage", "FinishedNoMessage"}
    <3>1. \A c \in Agg : c # b =>
            /\ phase'[c] = phase[c] /\ prep_state'[c] = prep_state[c]
            /\ prep_msg'[c] = prep_msg[c] /\ out_share'[c] = out_share[c]
      BY <1>0, <1>5, <2>3 DEF Continued, StoreTransition
    <3> QED
      BY <2>1, <3>1
  <2> QED
    BY <2>2, <2>3
<1>6. ASSUME NEW b \in Agg, NEW m \in net, LateMessage(b, m)
      PROVE  Final(a)
  BY <1>6 DEF LateMessage
<1>7. ASSUME NEW b \in Agg, Restart(b)
      PROVE  Final(a)
  <2>1. vdaf_decode_state(b, vdaf_encode_state(prep_state[b])) = prep_state[b]
    BY <1>7, CodecContract DEF Restart, IInv, TypeOK
  <2>2. prep_state'[a] = prep_state[a]
    BY <1>0, <1>7, <2>1 DEF Restart
  <2> QED
    BY <1>7, <2>2 DEF Restart
<1>8. ASSUME NEW m \in net, Lose(m)
      PROVE  Final(a)
  BY <1>8 DEF Lose
<1> QED
  BY <1>2, <1>3, <1>4, <1>5, <1>6, <1>7, <1>8 DEF Next

\* An outcome is final: a finished aggregator keeps its output share through every
\* retry, late message and restart, and a rejected report stays rejected.
THEOREM OutcomesAreFinal ==
    ASSUME CallerChecksStep
    PROVE  Spec => OutcomeIsFinal
<1>1. IInv /\ [Next]_vars =>
        [\A a \in Agg :
            /\ HostFinished(a) => HostFinished(a)' /\ OutputOf(a)' = OutputOf(a)
            /\ phase[a] = "Rejected" => phase'[a] = "Rejected"]_vars
  BY FinalStep DEF Final
<1>2. IInv /\ [Next]_vars => IInv'
  BY IInvStep
<1> QED
  BY <1>1, <1>2, IInvInit, PTL DEF Spec, OutcomeIsFinal

-----------------------------------------------------------------------------
(* The driver's loop.                                                      *)

\* What a turn may begin or end with.
Turning ==
    {t \in [running : {TRUE},
            states : [Agg -> VdafPrepState(Leader) \cup VdafPrepState(Helper)],
            outbound : [Agg -> VdafPrepShare]] :
        \A a \in Agg : t.states[a] \in VdafPrepState(a)}
Over == [running : {FALSE}, outputs : [Agg -> {<<>>} \cup {<<o>> : o \in VdafOutShare}]]

\* States and shares of the aggregators begin a turn.
LEMMA RunningType ==
    ASSUME NEW states, NEW shrs, states = [a \in Agg |-> states[a]], shrs = [a \in Agg |-> shrs[a]],
           \A a \in Agg : states[a] \in VdafPrepState(a) /\ shrs[a] \in VdafPrepShare
    PROVE  running(states, shrs) \in Turning
<1>1. \A a \in Agg : states[a] \in VdafPrepState(Leader) \cup VdafPrepState(Helper)
  BY DEF Agg
<1>2. states \in [Agg -> VdafPrepState(Leader) \cup VdafPrepState(Helper)]
  BY <1>1
<1>3. shrs \in [Agg -> VdafPrepShare]
  OBVIOUS
<1> QED
  BY <1>2, <1>3 DEF running, Turning

\* Output shares, or nothing, end the loop.
LEMMA EndedType ==
    ASSUME NEW outputs \in [Agg -> {<<>>} \cup {<<o>> : o \in VdafOutShare}]
    PROVE  ended(outputs) \in Over
BY DEF ended, Over

\* Both aggregators have numbers.
LEMMA Both == Leader \in Agg /\ Helper \in Agg /\ \A a \in Agg : a = Leader \/ a = Helper
BY DEF Agg

\* The loop is well typed from its first turn on.
LEMMA InitializedType == ASSUME NEW rep \in Reports PROVE initialized(rep) \in Turning \cup Over
<1>1. nobody \in [Agg -> {<<>>} \cup {<<o>> : o \in VdafOutShare}]
  BY DEF nobody
<1>2. CASE \A a \in Agg : vdaf_prepare_init(a, rep).ok
  <2>1. \A a \in Agg : /\ vdaf_prepare_init(a, rep).state \in VdafPrepState(a)
                       /\ vdaf_prepare_init(a, rep).share \in VdafPrepShare
    BY <1>2, InitContract
  <2> DEFINE states == [a \in Agg |-> vdaf_prepare_init(a, rep).state]
             shrs == [a \in Agg |-> vdaf_prepare_init(a, rep).share]
  <2>2. initialized(rep) = running(states, shrs)
    BY <1>2 DEF initialized
  <2>3. \A a \in Agg : states[a] \in VdafPrepState(a) /\ shrs[a] \in VdafPrepShare
    BY <2>1
  <2>4. states = [a \in Agg |-> states[a]] /\ shrs = [a \in Agg |-> shrs[a]]
    OBVIOUS
  <2> HIDE DEF states, shrs
  <2> QED
    BY <2>2, <2>3, <2>4, RunningType
<1>3. CASE ~(\A a \in Agg : vdaf_prepare_init(a, rep).ok)
  BY <1>1, <1>3, EndedType DEF initialized
<1> QED
  BY <1>2, <1>3

\* A turn leads to another one, or ends the loop.
LEMMA TurnType == ASSUME NEW t \in Turning \cup Over PROVE turn(t) \in Turning \cup Over
<1>1. nobody \in [Agg -> {<<>>} \cup {<<o>> : o \in VdafOutShare}]
  BY DEF nobody
<1>2. t \in Turning \/ (t \in Over /\ ~t.running)
  BY DEF Over
<1>3. CASE ~t.running
  BY <1>3 DEF turn
<1>4. CASE t.running /\ (~combines(t) \/ \E a \in Agg : ~vdaf_decodes_msg(t.states[a], inbound(t)))
  BY <1>1, <1>4, EndedType DEF turn
<1>5. CASE t.running /\ combines(t) /\ \A a \in Agg : vdaf_decodes_msg(t.states[a], inbound(t))
  <2>1. /\ \A a \in Agg : t.states[a] \in VdafPrepState(a) /\ t.outbound[a] \in VdafPrepShare
    BY <1>2, <1>5 DEF Turning
  <2>2. inbound(t) \in VdafPrepMsg
    BY <1>5, <2>1, CombineContract, Both DEF combines, inbound
  <2>3. \A a \in Agg :
          /\ advance(t, a).tag = "Continue" =>
                advance(t, a).state \in VdafPrepState(a) /\ advance(t, a).share \in VdafPrepShare
          /\ advance(t, a).tag = "Finish" => advance(t, a).out \in VdafOutShare
    BY <2>1, <2>2, NextContract DEF advance
  <2>4. CASE \E a \in Agg : advance(t, a).tag # "Continue"
    <3> DEFINE outs == [a \in Agg |-> IF advance(t, a).tag = "Finish" THEN <<advance(t, a).out>> ELSE <<>>]
    <3>1. outs \in [Agg -> {<<>>} \cup {<<o>> : o \in VdafOutShare}]
      BY <2>3
    <3>2. turn(t) = ended(outs)
      BY <1>5, <2>4 DEF turn
    <3> HIDE DEF outs
    <3> QED
      BY <3>1, <3>2, EndedType
  <2>5. CASE \A a \in Agg : advance(t, a).tag = "Continue"
    <3> DEFINE states == [a \in Agg |-> advance(t, a).state]
               shrs == [a \in Agg |-> advance(t, a).share]
    <3>1. turn(t) = running(states, shrs)
      BY <1>5, <2>5 DEF turn
    <3>2. \A a \in Agg : states[a] \in VdafPrepState(a) /\ shrs[a] \in VdafPrepShare
      BY <2>3, <2>5
    <3>3. states = [a \in Agg |-> states[a]] /\ shrs = [a \in Agg |-> shrs[a]]
      OBVIOUS
    <3> HIDE DEF states, shrs
    <3> QED
      BY <3>1, <3>2, <3>3, RunningType
  <2> QED
    BY <2>4, <2>5
<1> QED
  BY <1>3, <1>4, <1>5

\* turns(rep) is the loop: it begins with the initialization, and takes turn after turn.
LEMMA Loop ==
    ASSUME NEW rep \in Reports
    PROVE  /\ turns(rep)[0] = initialized(rep)
           /\ \A n \in 0..Rounds : n > 0 => turns(rep)[n] = turn(turns(rep)[n - 1])
<1> DEFINE T == Turning \cup Over
           G == [k \in 1..Rounds |-> [t \in T |-> turn(t)]]
           base == initialized(rep)
<1>1. Rounds \in Nat
  BY RoundContract
<1>2. base \in T /\ G \in [1..Rounds -> [T -> T]] /\ \A k \in 1..Rounds : \A t \in T : G[k][t] = turn(t)
  BY InitializedType, TurnType
<1> HIDE DEF T, G, base
<1>3. PICK g : IsFold(g, Rounds, T, base, G)
  BY <1>1, <1>2, FoldExists
<1> DEFINE f == [n \in 0..Rounds |-> g[1..n]]
<1>4. \A n \in 0..Rounds : 1..n \in SUBSET (1..Rounds)
  BY <1>1
<1>5. f[0] = base
  <2>1. 0 \in 0..Rounds /\ 1..0 = {} /\ {} \in SUBSET (1..Rounds)
    BY <1>1
  <2>2. g[{}] = base
    BY <1>3, <2>1 DEF IsFold
  <2> QED
    BY <2>1, <2>2
<1>6. ASSUME NEW n \in 0..Rounds, n > 0
      PROVE  f[n] = turn(f[n - 1])
  <2>1. n \in Nat /\ n \in 1..Rounds /\ n - 1 \in 0..Rounds
    BY <1>1, <1>6
  <2>2. Max(1..n) = n /\ (1..n) \ {n} = 1..n - 1 /\ 1..n # {}
    BY <1>6, <2>1, MaxOfFirst
  <2>3. g[1..n] = G[n][g[1..n - 1]]
    BY <1>3, <1>4, <2>2 DEF IsFold
  <2>4. g[1..n - 1] \in T
    BY <1>3, <1>4, <2>1 DEF IsFold
  <2> QED
    BY <1>2, <2>1, <2>3, <2>4
<1>7. f = [n \in 0..Rounds |-> IF n = 0 THEN initialized(rep) ELSE turn(f[n - 1])]
  <2>1. \A n \in 0..Rounds : f[n] = IF n = 0 THEN initialized(rep) ELSE turn(f[n - 1])
    <3> HIDE DEF f
    <3>1. \A n \in 0..Rounds : n = 0 \/ n > 0
      BY <1>1
    <3> QED
      BY <1>5, <1>6, <3>1 DEF base
  <2>2. f = [n \in 0..Rounds |-> f[n]]
    OBVIOUS
  <2> HIDE DEF f
  <2> QED
    BY <2>1, <2>2
<1> HIDE DEF f
<1> DEFINE Is(t) == t = [n \in 0..Rounds |-> IF n = 0 THEN initialized(rep) ELSE turn(t[n - 1])]
<1>8. turns(rep) = CHOOSE t : Is(t)
  BY DEF turns
<1>9. Is(turns(rep))
  <2>1. Is(f)
    BY <1>7
  <2> HIDE DEF Is
  <2> QED
    BY <1>8, <2>1
<1>10. \A n \in 0..Rounds : turns(rep)[n] = IF n = 0 THEN initialized(rep) ELSE turn(turns(rep)[n - 1])
  BY <1>9
<1>11. 0 \in 0..Rounds
  BY <1>1
<1> QED
  BY <1>10, <1>11

\* The loop keeps what it has ended with.
LEMMA StaysEnded ==
    ASSUME NEW rep \in Reports, NEW n \in 0..Rounds, ~turns(rep)[n].running
    PROVE  run_vdaf_prepare(rep) = turns(rep)[n].outputs
<1>1. Rounds \in Nat /\ n \in Nat /\ Rounds - n \in Nat
  BY RoundContract
<1> DEFINE S == {k \in 0..Rounds - n : turns(rep)[n + k] = turns(rep)[n]}
<1>2. 0 \in S
  BY <1>1
<1>3. \A k \in 0..(Rounds - n) - 1 : k \in S => k + 1 \in S
  <2> SUFFICES ASSUME NEW k \in 0..(Rounds - n) - 1, turns(rep)[n + k] = turns(rep)[n]
               PROVE  turns(rep)[n + (k + 1)] = turns(rep)[n]
    BY <1>1
  <2>1. n + (k + 1) \in 0..Rounds /\ n + (k + 1) > 0 /\ (n + (k + 1)) - 1 = n + k
    BY <1>1
  <2>2. turns(rep)[n + (k + 1)] = turn(turns(rep)[n + k])
    BY <2>1, Loop
  <2> QED
    BY <2>2 DEF turn
<1>4. 0..Rounds - n \subseteq S
  <2> HIDE DEF S
  <2> QED
    BY <1>1, <1>2, <1>3, IntervalInduction
<1>5. Rounds - n \in S /\ n + (Rounds - n) = Rounds
  BY <1>1, <1>4
<1> QED
  BY <1>5 DEF run_vdaf_prepare

\* The aggregators' shares in turn t can be combined.
Combined(t) == vdaf_combine(t.outbound[Leader], t.outbound[Helper]).ok

\* A turn in which the shares combine: every aggregator can read the message, they do not
\* finish apart, and what they obtain is the next turn's or the driver's.
LEMMA Turned ==
    ASSUME NEW rep \in Reports, NEW n \in 0..Rounds, NEW t, t = turns(rep)[n], t.running, Combined(t)
    PROVE  /\ \A a \in Agg : vdaf_decodes_msg(t.states[a], inbound(t))
           /\ \A a, b \in Agg : ~(advance(t, a).tag = "Continue" /\ advance(t, b).tag = "Finish")
           /\ (\A a \in Agg : advance(t, a).tag = "Continue") =>
                /\ n + 1 \in 0..Rounds /\ turns(rep)[n + 1].running
                /\ \A a \in Agg : /\ turns(rep)[n + 1].states[a] = advance(t, a).state
                                  /\ turns(rep)[n + 1].outbound[a] = advance(t, a).share
           /\ \A a \in Agg : advance(t, a).tag = "Finish" =>
                run_vdaf_prepare(rep)[a] = <<advance(t, a).out>>
           /\ \A a \in Agg : advance(t, a).tag \notin {"Continue", "Finish"} =>
                run_vdaf_prepare(rep)[a] = <<>>
<1>1. Rounds \in Nat /\ n # Rounds
  BY RoundContract
<1>2. n + 1 \in 0..Rounds /\ n + 1 > 0 /\ (n + 1) - 1 = n
  BY <1>1
<1>3. turns(rep)[n + 1] = turn(t)
  BY <1>2, Loop
<1>4. \A a, b \in Agg : vdaf_decodes_share(t.states[a], t.outbound[b])
  BY RoundContract
<1>5. combines(t)
  BY <1>4, Both DEF combines, Combined
<1>6. /\ \A a \in Agg : vdaf_decodes_msg(t.states[a], inbound(t))
      /\ \A a, b \in Agg : ~(advance(t, a).tag = "Continue" /\ advance(t, b).tag = "Finish")
  BY <1>5, RoundContract
<1>7. ASSUME \A a \in Agg : advance(t, a).tag = "Continue"
      PROVE  turn(t) = running([a \in Agg |-> advance(t, a).state], [a \in Agg |-> advance(t, a).share])
  BY <1>5, <1>6, <1>7 DEF turn
<1>8. ASSUME \A a \in Agg : advance(t, a).tag = "Continue"
      PROVE  /\ turn(t).running
             /\ \A a \in Agg : turn(t).states[a] = advance(t, a).state /\ turn(t).outbound[a] = advance(t, a).share
  BY <1>7, <1>8 DEF running
<1>9. ASSUME \E a \in Agg : advance(t, a).tag # "Continue"
      PROVE  run_vdaf_prepare(rep) =
                [a \in Agg |-> IF advance(t, a).tag = "Finish" THEN <<advance(t, a).out>> ELSE <<>>]
  <2>1. turn(t) = ended([a \in Agg |-> IF advance(t, a).tag = "Finish" THEN <<advance(t, a).out>> ELSE <<>>])
    BY <1>5, <1>6, <1>9 DEF turn
  <2> QED
    BY <1>2, <1>3, <2>1, StaysEnded DEF ended
<1> QED
  BY <1>2, <1>3, <1>6, <1>8, <1>9

\* Shares that cannot be combined end the loop for everybody.
LEMMA Uncombined ==
    ASSUME NEW rep \in Reports, NEW n \in 0..Rounds, turns(rep)[n].running, ~Combined(turns(rep)[n])
    PROVE  run_vdaf_prepare(rep) = nobody
<1>1. Rounds \in Nat /\ n # Rounds
  BY RoundContract
<1>2. n + 1 \in 0..Rounds /\ n + 1 > 0 /\ (n + 1) - 1 = n
  BY <1>1
<1>3. turns(rep)[n + 1] = ended(nobody)
  BY <1>2, Loop DEF turn, combines, Combined
<1> QED
  BY <1>2, <1>3, StaysEnded DEF ended

\* So does an aggregator that cannot be initialized.  Otherwise the loop is entered.
LEMMA Entered ==
    ASSUME NEW rep \in Reports
    PROVE  /\ (\E a \in Agg : ~vdaf_prepare_init(a, rep).ok) => run_vdaf_prepare(rep) = nobody
           /\ (\A a \in Agg : vdaf_prepare_init(a, rep).ok) =>
                /\ 0 \in 0..Rounds /\ turns(rep)[0].running
                /\ \A a \in Agg : /\ turns(rep)[0].states[a] = vdaf_prepare_init(a, rep).state
                                  /\ turns(rep)[0].outbound[a] = vdaf_prepare_init(a, rep).share
<1>1. 0 \in 0..Rounds
  BY RoundContract
<1>2. ASSUME \E a \in Agg : ~vdaf_prepare_init(a, rep).ok
      PROVE  run_vdaf_prepare(rep) = nobody
  <2>1. turns(rep)[0] = ended(nobody)
    BY <1>2, Loop DEF initialized
  <2> QED
    BY <1>1, <2>1, StaysEnded DEF ended
<1>3. ASSUME \A a \in Agg : vdaf_prepare_init(a, rep).ok
      PROVE  turns(rep)[0] = running([a \in Agg |-> vdaf_prepare_init(a, rep).state],
                                     [a \in Agg |-> vdaf_prepare_init(a, rep).share])
  BY <1>3, Loop DEF initialized
<1> QED
  BY <1>1, <1>2, <1>3 DEF running

-----------------------------------------------------------------------------
(***************************************************************************)
(* The topology follows the driver.  IInv ties what is stored and sent to  *)
(* the histories; Tracked ties the histories to the driver's turns.  Round *)
(* r of the topology is the driver's turn r - 1.                           *)
(***************************************************************************)
\* Aggregator a has obtained this share for round r > 1 from the turn before.
Yields(rep, a, r, share) ==
    LET t == turns(rep)[r - 2]
    IN  /\ r - 2 \in 0..Rounds /\ t.running /\ Combined(t)
        /\ advance(t, a).tag = "Continue" /\ share = advance(t, a).share

Tracked(a) ==
    /\ \A r \in DOMAIN shares[a] : r > 1 => Yields(report, a, r, shares[a][r])
    /\ phase[a] = "Continued" => prep_state[a] = vdaf_prepare_init(a, report).state
    /\ phase[a] = "Transition" => prep_state[a] = turns(report)[Len(hist[a]) - 1].states[a]
    /\ phase[a] = "FinishedNoMessage" => run_vdaf_prepare(report)[a] = <<out_share[a]>>
    /\ phase[a] = "Rejected" => \E b \in Agg : run_vdaf_prepare(report)[b] = <<>>

Tracks == \A a \in Agg : Tracked(a)

\* What the topology knows of a round that one of the aggregators has adopted the message of.
Adopted(r, msg) ==
    LET t == turns(report)[r - 1]
    IN  /\ r \in Nat /\ r - 1 \in 0..Rounds /\ t.running /\ Combined(t) /\ inbound(t) = msg
        /\ r = 1 => \A a \in Agg : t.states[a] = vdaf_prepare_init(a, report).state
        /\ r > 1 => /\ r - 2 \in 0..Rounds
                    /\ \A a \in Agg : t.states[a] = advance(turns(report)[r - 2], a).state

\* Both aggregators have a share of round r: the driver reaches the turn that combines them.
LEMMA Reached ==
    ASSUME IInv, Tracks, NEW r, \A a \in Agg : r \in DOMAIN shares[a]
    PROVE  LET t == turns(report)[r - 1]
           IN  /\ r \in Nat /\ r > 0 /\ r - 1 \in 0..Rounds /\ t.running
               /\ \A a \in Agg : t.outbound[a] = shares[a][r]
               /\ r = 1 => \A a \in Agg : t.states[a] = vdaf_prepare_init(a, report).state
               /\ r > 1 => /\ r - 2 \in 0..Rounds
                           /\ \A a \in Agg : t.states[a] = advance(turns(report)[r - 2], a).state
<1>1. report \in Reports /\ shares \in [Agg -> Seq(VdafPrepShare)]
  BY DEF IInv, TypeOK
<1>2. \A a \in Agg : shares[a] \in Seq(VdafPrepShare) /\ r \in 1..Len(shares[a]) /\ shares[a] # <<>>
  BY <1>1
<1>3. r \in Nat /\ r > 0
  BY <1>2, Both
<1>4. CASE r = 1
  <2>1. \A a \in Agg : vdaf_prepare_init(a, report).ok /\ shares[a][1] = vdaf_prepare_init(a, report).share
    BY <1>2 DEF IInv, FirstShares
  <2> QED
    BY <1>1, <1>3, <1>4, <2>1, Entered
<1>5. CASE r > 1
  <2> DEFINE t == turns(report)[r - 2]
  <2>1. \A a \in Agg : Yields(report, a, r, shares[a][r])
    BY <1>5 DEF Tracks, Tracked
  <2>2. /\ r - 2 \in 0..Rounds /\ t.running /\ Combined(t)
        /\ \A a \in Agg : advance(t, a).tag = "Continue" /\ shares[a][r] = advance(t, a).share
    BY <2>1, Both DEF Yields
  <2>3. (r - 2) + 1 = r - 1
    BY <1>3
  <2>4. /\ (r - 2) + 1 \in 0..Rounds /\ turns(report)[(r - 2) + 1].running
        /\ \A a \in Agg : /\ turns(report)[(r - 2) + 1].states[a] = advance(t, a).state
                          /\ turns(report)[(r - 2) + 1].outbound[a] = advance(t, a).share
    BY <1>1, <2>2, Turned
  <2> QED
    BY <1>3, <1>5, <2>2, <2>3, <2>4
<1> QED
  BY <1>3, <1>4, <1>5

\* A message that an aggregator adopts is the driver's.
LEMMA InRound ==
    ASSUME IInv, Tracks, NEW a \in Agg, NEW r \in DOMAIN hist[a]
    PROVE  Adopted(r, hist[a][r])
<1>1. /\ \A b \in Agg : r \in DOMAIN shares[b]
      /\ vdaf_combine(shares[Leader][r], shares[Helper][r]).ok
      /\ vdaf_combine(shares[Leader][r], shares[Helper][r]).msg = hist[a][r]
  BY Both DEF IInv, CombinesBothShares
<1> QED
  BY <1>1, Reached, Both DEF Adopted, Combined, inbound

\* Evaluating a stored transition is the aggregator's part of a turn.
LEMMA TransitionIs ==
    ASSUME IInv, Tracks, NEW a \in Agg, phase[a] = "Transition"
    PROVE  LET t == turns(report)[Len(hist[a]) - 1]
           IN  /\ Len(hist[a]) \in DOMAIN hist[a] /\ Len(hist[a]) - 1 \in 0..Rounds
               /\ t.running /\ Combined(t)
               /\ prep_state[a] = t.states[a] /\ prep_msg[a] = inbound(t)
               /\ transition_next(a) = advance(t, a)
<1>1. hist[a] \in Seq(VdafPrepMsg)
  BY DEF IInv, TypeOK
<1>2. Len(hist[a]) >= 1 /\ prep_msg[a] = hist[a][Len(hist[a])]
  BY <1>1 DEF IInv, Stored
<1>3. Len(hist[a]) \in DOMAIN hist[a]
  BY <1>1, <1>2
<1>4. Adopted(Len(hist[a]), hist[a][Len(hist[a])])
  BY <1>3, InRound
<1>5. prep_state[a] = turns(report)[Len(hist[a]) - 1].states[a]
  BY DEF Tracks, Tracked
<1> QED
  BY <1>2, <1>3, <1>4, <1>5 DEF Adopted, transition_next, advance

\* An aggregator that is handed the next round's message is in the driver's state for it.
LEMMA HostIs ==
    ASSUME IInv, Tracks, NEW a \in Agg, HostContinued(a), NEW n, n = Len(hist[a]), NEW msg, Adopted(n + 1, msg)
    PROVE  host_prep_state(a) = turns(report)[n].states[a]
<1>1. hist[a] \in Seq(VdafPrepMsg) /\ n \in Nat
  BY DEF IInv, TypeOK
<1>2. (n + 1) - 1 = n /\ (n + 1) - 2 = n - 1
  BY <1>1
<1>3. CASE phase[a] = "Continued"
  <2>1. n = 0
    BY <1>3 DEF IInv, Stored
  <2> QED
    BY <1>2, <1>3, <2>1 DEF host_prep_state, Adopted, Tracks, Tracked
<1>4. CASE phase[a] = "Transition"
  <2>1. transition_next(a) = advance(turns(report)[n - 1], a) /\ n \in DOMAIN hist[a]
    BY <1>4, TransitionIs
  <2>2. n + 1 > 1
    BY <1>1, <2>1
  <2> QED
    BY <1>2, <1>4, <2>1, <2>2 DEF host_prep_state, Adopted
<1> QED
  BY <1>3, <1>4 DEF HostContinued

\* A preparation that the driver does not complete.
Fails(rep) == \E b \in Agg : run_vdaf_prepare(rep)[b] = <<>>

\* The errors that are the VDAF's, and not of the exchange of messages.
VdafErrors == {"VdafPrepareInit", "VdafPrepareNext", "VdafPrepareSharesToPrepareMessage"}

\* Nobody is handed anything when the driver's loop ends for everybody.
LEMMA NobodyFails == ASSUME NEW rep, run_vdaf_prepare(rep) = nobody PROVE Fails(rep)
BY Both DEF Fails, nobody

\* What the host computes in `continued` is its part of the driver's turn, and the peer's
\* message says what the peer obtained from the same turn.
LEMMA SameTurn ==
    ASSUME IInv, Tracks, NEW a \in Agg, NEW m \in net, m.from = Peer(a), HostContinued(a),
           NEW n, n = Len(hist[a]), m.step = n + 1
    PROVE  LET t == turns(report)[n]
           IN  /\ n \in 0..Rounds /\ t.running /\ Combined(t)
               /\ host_prep_state(a) = t.states[a] /\ m.prep_msg = inbound(t)
               /\ m.type \in {"Continue", "Finish"}
               /\ m.type = "Continue" => /\ advance(t, Peer(a)).tag = "Continue"
                                         /\ m.prep_share = advance(t, Peer(a)).share
               /\ m.type = "Finish" => advance(t, Peer(a)).tag = "Finish"
<1> DEFINE p == Peer(a)
<1>0. p \in Agg
  BY PeerFacts
<1>1. /\ m.type # "Initialize" /\ n \in Nat /\ Len(hist[p]) = n + 1
      /\ m.prep_msg = hist[p][n + 1]
      /\ m.type = "Continue" => n + 2 \in DOMAIN shares[p] /\ m.prep_share = shares[p][n + 2]
  BY NextRound
<1>2. hist[p] \in Seq(VdafPrepMsg) /\ m \in Message
  BY <1>0 DEF IInv, TypeOK
<1>3. n + 1 \in DOMAIN hist[p] /\ m.type \in {"Continue", "Finish"}
  BY <1>1, <1>2 DEF Message
<1>4. Adopted(n + 1, m.prep_msg)
  BY <1>0, <1>1, <1>3, InRound
<1>5. host_prep_state(a) = turns(report)[n].states[a]
  BY <1>4, HostIs
<1>6. (n + 1) - 1 = n /\ (n + 2) - 2 = n /\ n + 2 > 1
  BY <1>1
<1>7. ASSUME m.type = "Continue"
      PROVE  /\ advance(turns(report)[n], p).tag = "Continue"
             /\ m.prep_share = advance(turns(report)[n], p).share
  <2>1. Yields(report, p, n + 2, shares[p][n + 2])
    BY <1>0, <1>1, <1>6, <1>7 DEF Tracks, Tracked
  <2> QED
    BY <1>1, <1>6, <1>7, <2>1 DEF Yields
<1>8. ASSUME m.type = "Finish"
      PROVE  advance(turns(report)[n], p).tag = "Finish"
  <2>1. phase[p] = "Transition" /\ transition_next(p).tag = "Finish"
    BY <1>8 DEF IInv, FinishSent
  <2> QED
    BY <1>0, <1>1, <1>6, <2>1, TransitionIs
<1> QED
  BY <1>3, <1>4, <1>5, <1>6, <1>7, <1>8 DEF Adopted

\* `continued` succeeds, or it fails where the driver does.
LEMMA ContinuedFollows ==
    ASSUME IInv, Tracks, NEW a \in Agg, NEW m \in net, m.from = Peer(a), HostContinued(a),
           NEW n, n = Len(hist[a]), m.step = n + 1,
           continued(a, m) \notin {"WithMessage", "FinishedNoMessage"}
    PROVE  continued(a, m) \in VdafErrors /\ Fails(report)
<1> DEFINE t == turns(report)[n]
           p == Peer(a)
           u == turns(report)[n + 1]
<1>0. p \in Agg /\ report \in Reports /\ (a = Leader <=> p = Helper) /\ (a = Leader \/ a = Helper) /\ (a = Helper => p = Leader)
  BY DEF Peer, Agg, Leader, Helper, IInv, TypeOK
<1>1. /\ n \in 0..Rounds /\ t.running /\ Combined(t)
      /\ host_prep_state(a) = t.states[a] /\ m.prep_msg = inbound(t)
      /\ m.type \in {"Continue", "Finish"}
      /\ m.type = "Continue" => advance(t, p).tag = "Continue" /\ m.prep_share = advance(t, p).share
      /\ m.type = "Finish" => advance(t, p).tag = "Finish"
  BY SameTurn
<1>2. /\ vdaf_decodes_msg(t.states[a], inbound(t))
      /\ ~(advance(t, a).tag = "Continue" /\ advance(t, p).tag = "Finish")
      /\ ~(advance(t, p).tag = "Continue" /\ advance(t, a).tag = "Finish")
      /\ advance(t, a).tag \notin {"Continue", "Finish"} => run_vdaf_prepare(report)[a] = <<>>
  BY <1>0, <1>1, Turned
<1>3. (\A b \in Agg : advance(t, b).tag = "Continue") =>
          /\ n + 1 \in 0..Rounds /\ u.running
          /\ \A b \in Agg : u.states[b] = advance(t, b).state /\ u.outbound[b] = advance(t, b).share
  BY <1>0, <1>1, Turned
<1> DEFINE next == vdaf_prepare_next(host_prep_state(a), m.prep_msg)
           combined == combine_at(a, m.prep_share, next.share)
<1>4. next = advance(t, a)
  BY <1>1 DEF advance
<1>5. continued(a, m) =
        IF next.tag = "Err" THEN "VdafPrepareNext"
        ELSE IF (next.tag = "Continue") # (m.type = "Continue") THEN "PeerMessageMismatch"
        ELSE IF next.tag = "Finish" THEN "FinishedNoMessage"
        ELSE IF ~vdaf_decodes_share(next.state, m.prep_share) THEN "CodecPrepShare"
        ELSE IF ~combined.ok THEN "VdafPrepareSharesToPrepareMessage"
        ELSE "WithMessage"
  BY <1>1, <1>2 DEF continued
<1>6. next.tag \in {"Continue", "Finish", "Err"}
  <2>1. m \in Message
    BY DEF IInv, TypeOK
  <2>2. m.prep_msg \in VdafPrepMsg
    BY <1>1, <2>1 DEF Message
  <2> QED
    BY <2>2, HostStateType, NextContract DEF IInv
<1> HIDE DEF t, p, u, next, combined
<1>7. CASE next.tag = "Err"
  BY <1>2, <1>4, <1>5, <1>7 DEF VdafErrors, Fails
<1>8. CASE next.tag = "Finish"
  BY <1>1, <1>2, <1>4, <1>5, <1>8
<1>9. CASE next.tag = "Continue"
  <2>1. m.type = "Continue" /\ \A b \in Agg : advance(t, b).tag = "Continue"
    BY <1>0, <1>1, <1>2, <1>4, <1>9, Both
  <2>2. /\ n + 1 \in 0..Rounds /\ u.running
        /\ \A b \in Agg : u.states[b] = advance(t, b).state /\ u.outbound[b] = advance(t, b).share
    BY <1>3, <2>1
  <2>3. vdaf_decodes_share(next.state, m.prep_share)
    <3>1. vdaf_decodes_share(u.states[a], u.outbound[p])
      BY <1>0, <2>2, RoundContract DEF u
    <3> QED
      BY <1>0, <1>1, <1>4, <2>1, <2>2, <3>1
  <2>4. combined = vdaf_combine(u.outbound[Leader], u.outbound[Helper])
    BY <1>0, <1>1, <1>4, <2>1, <2>2, Both DEF combined, combine_at, Leader, Helper
  <2>5. continued(a, m) = "VdafPrepareSharesToPrepareMessage" /\ ~combined.ok
    BY <1>5, <1>9, <2>1, <2>3
  <2>6. ~Combined(u)
    BY <2>4, <2>5 DEF Combined
  <2> QED
    BY <1>0, <2>2, <2>5, <2>6, Uncombined, NobodyFails DEF VdafErrors, u
<1> QED
  BY <1>6, <1>7, <1>8, <1>9

-----------------------------------------------------------------------------
DInv == IInv /\ Tracks /\ InSync

\* An aggregator that a step leaves alone stays on the driver's track.
LEMMA TrackedFrame ==
    ASSUME NEW a \in Agg, Tracked(a), report' = report, phase'[a] = phase[a],
           prep_state'[a] = prep_state[a], out_share'[a] = out_share[a],
           hist'[a] = hist[a], shares'[a] = shares[a]
    PROVE  Tracked(a)'
BY DEF Tracked

\* A report that the driver fails on may be rejected, for an error of the VDAF.
LEMMA RejectTracks ==
    ASSUME DInv, NEW a \in Agg, NEW e \in VdafErrors, Reject(a, e), Fails(report)
    PROVE  Tracks' /\ InSync'
<1>1. /\ phase \in [Agg -> Phases] /\ DOMAIN prep_state = Agg /\ error \in [Agg -> Errors]
  BY DEF DInv, IInv, TypeOK
<1>2. /\ phase'[a] = "Rejected" /\ report' = report /\ out_share' = out_share /\ hist' = hist /\ shares' = shares
      /\ \A b \in Agg : b # a => phase'[b] = phase[b] /\ prep_state'[b] = prep_state[b]
  BY <1>1 DEF Reject
<1>3. Tracked(a)'
  BY <1>2 DEF DInv, Tracks, Tracked, Fails
<1>4. \A b \in Agg : b # a => Tracked(b)'
  BY <1>2, TrackedFrame DEF DInv, Tracks
<1>5. InSync'
  <2>1. error'[a] = e /\ \A b \in Agg : b # a => error'[b] = error[b]
    BY <1>1 DEF Reject
  <2> QED
    BY <2>1 DEF DInv, InSync, VdafErrors
<1> QED
  BY <1>3, <1>4, <1>5 DEF Tracks

\* A step that leaves the histories, the stored values and the errors alone.
LEMMA QuietTracks ==
    ASSUME DInv, phase' = phase, report' = report, out_share' = out_share, error' = error,
           hist' = hist, shares' = shares, \A a \in Agg : prep_state'[a] = prep_state[a]
    PROVE  Tracks' /\ InSync'
<1>1. \A a \in Agg : Tracked(a)'
  BY TrackedFrame DEF DInv, Tracks
<1> QED
  BY <1>1 DEF Tracks, DInv, InSync

\* leader_initialized begins where the driver does.
LEMMA LeaderInitializedTracks ==
    ASSUME DInv, LeaderInitialized
    PROVE  Tracks' /\ InSync'
<1> DEFINE r == vdaf_prepare_init(Leader, report)
<1>1. /\ phase \in [Agg -> Phases] /\ DOMAIN prep_state = Agg /\ report \in Reports
      /\ shares \in [Agg -> Seq(VdafPrepShare)]
  BY DEF DInv, IInv, TypeOK
<1>2. CASE ~r.ok
  <2>1. Reject(Leader, "VdafPrepareInit")
    BY <1>2 DEF LeaderInitialized
  <2>2. Fails(report)
    BY <1>1, <1>2, Both, Entered, NobodyFails
  <2> QED
    BY <2>1, <2>2, Both, RejectTracks DEF VdafErrors
<1>3. CASE r.ok
  <2>1. /\ phase'[Leader] = "Continued" /\ prep_state'[Leader] = r.state
        /\ shares'[Leader] = <<r.share>> /\ report' = report /\ out_share' = out_share /\ hist' = hist
        /\ error' = error
        /\ \A b \in Agg : b # Leader => /\ phase'[b] = phase[b] /\ prep_state'[b] = prep_state[b]
                                        /\ shares'[b] = shares[b]
    BY <1>1, <1>3, Both DEF LeaderInitialized
  <2>2. \A k \in DOMAIN <<r.share>> : ~(k > 1)
    OBVIOUS
  <2>3. Tracked(Leader)'
    <3> HIDE DEF r
    <3> QED
      BY <2>1, <2>2 DEF Tracked, r
  <2>4. \A b \in Agg : b # Leader => Tracked(b)'
    BY <2>1, TrackedFrame DEF DInv, Tracks
  <2> QED
    BY <2>1, <2>3, <2>4 DEF DInv, Tracks, InSync
<1> QED
  BY <1>2, <1>3

\* helper_initialized takes part in the driver's first turn.
LEMMA HelperInitializedTracks ==
    ASSUME DInv, CallerChecksStep, NEW m \in net, HelperInitialized(m)
    PROVE  Tracks' /\ InSync'
<1> DEFINE r == vdaf_prepare_init(Helper, report)
           combined == combine_at(Helper, m.prep_share, r.share)
           t == turns(report)[0]
<1>1. /\ phase \in [Agg -> Phases] /\ DOMAIN prep_state = Agg /\ DOMAIN prep_msg = Agg /\ report \in Reports
      /\ shares \in [Agg -> Seq(VdafPrepShare)] /\ hist \in [Agg -> Seq(VdafPrepMsg)]
  BY DEF DInv, IInv, TypeOK
<1>2. CASE phase[Helper] = "Transition"
  <2>1. /\ phase' = phase /\ report' = report /\ net' = net /\ out_share' = out_share
        /\ hist' = hist /\ shares' = shares
        /\ \A b \in Agg : prep_state'[b] = prep_state[b] /\ prep_msg'[b] = prep_msg[b]
    BY <1>2, RetryStep DEF DInv
  <2>2. ~Reject(Helper, helper_init(m))
    BY <1>1, <1>2, <2>1, Both DEF Reject
  <2>3. error' = error
    BY <2>2 DEF HelperInitialized, StoreTransition
  <2> QED
    BY <2>1, <2>3, QuietTracks
<1>3. CASE phase[Helper] = "Start"
  <2>1. /\ m.type = "Initialize" /\ m.prep_share = shares[Leader][1]
        /\ 1 \in DOMAIN shares[Leader]
    BY StepZero DEF HelperInitialized, DInv
  <2>2. /\ vdaf_prepare_init(Leader, report).ok
        /\ m.prep_share = vdaf_prepare_init(Leader, report).share
    <3>1. shares[Leader] # <<>>
      BY <2>1
    <3> QED
      BY <2>1, <3>1, Both DEF DInv, IInv, FirstShares
  <2>3. CASE ~r.ok
    <3>1. helper_init(m) = "VdafPrepareInit"
      BY <2>3 DEF helper_init
    <3>2. Reject(Helper, "VdafPrepareInit")
      BY <3>1 DEF HelperInitialized
    <3>3. Fails(report)
      BY <1>1, <2>3, Both, Entered, NobodyFails
    <3> QED
      BY <3>2, <3>3, Both, RejectTracks DEF VdafErrors
  <2>4. CASE r.ok
    <3>1. /\ 0 \in 0..Rounds /\ t.running
          /\ \A a \in Agg : /\ t.states[a] = vdaf_prepare_init(a, report).state
                            /\ t.outbound[a] = vdaf_prepare_init(a, report).share
      BY <1>1, <2>2, <2>4, Both, Entered
    <3>2. vdaf_decodes_share(r.state, m.prep_share)
      <4>1. vdaf_decodes_share(t.states[Helper], t.outbound[Leader])
        BY <1>1, <3>1, Both, RoundContract
      <4> QED
        BY <2>2, <3>1, <4>1, Both
    <3>3. combined = vdaf_combine(t.outbound[Leader], t.outbound[Helper])
      BY <2>2, <3>1, Both DEF combine_at, Leader, Helper
    <3>4. helper_init(m) = IF combined.ok THEN "ok" ELSE "VdafPrepareSharesToPrepareMessage"
      BY <2>1, <2>4, <3>2 DEF helper_init
    <3>5. CASE ~combined.ok
      <4>1. Reject(Helper, "VdafPrepareSharesToPrepareMessage")
        BY <3>4, <3>5 DEF HelperInitialized
      <4>2. Fails(report)
        BY <1>1, <3>1, <3>3, <3>5, Uncombined, NobodyFails DEF Combined
      <4> QED
        BY <4>1, <4>2, Both, RejectTracks DEF VdafErrors
    <3>6. CASE combined.ok
      <4>1. shares[Helper] = <<>>
        BY <1>3, Both DEF DInv, IInv, Stored
      <4>2. /\ StoreTransition(Helper, r.state, combined.msg)
            /\ hist' = [hist EXCEPT ![Helper] = <<combined.msg>>]
            /\ shares' = [shares EXCEPT ![Helper] = <<r.share>>]
        BY <1>1, <3>4, <3>6, <4>1, Both DEF HelperInitialized
      <4> HIDE DEF r, combined, t
      <4>3. /\ phase'[Helper] = "Transition" /\ prep_state'[Helper] = r.state /\ report' = report
            /\ hist'[Helper] = <<combined.msg>> /\ shares'[Helper] = <<r.share>>
            /\ out_share' = out_share /\ error' = error
            /\ \A b \in Agg : b # Helper => /\ phase'[b] = phase[b] /\ prep_state'[b] = prep_state[b]
                                            /\ hist'[b] = hist[b] /\ shares'[b] = shares[b]
        BY <1>1, <4>2, Both DEF StoreTransition
      <4>4. \A k \in DOMAIN <<r.share>> : ~(k > 1)
        OBVIOUS
      <4>5. Len(<<combined.msg>>) - 1 = 0
        OBVIOUS
      <4>6. prep_state'[Helper] = turns(report)[0].states[Helper]
        BY <3>1, <4>3, Both DEF r, t
      <4>7. Tracked(Helper)'
        BY <4>3, <4>4, <4>5, <4>6 DEF Tracked
      <4>8. \A b \in Agg : b # Helper => Tracked(b)'
        BY <4>3, TrackedFrame DEF DInv, Tracks
      <4> QED
        BY <4>3, <4>7, <4>8 DEF DInv, Tracks, InSync
    <3> QED
      BY <3>5, <3>6
  <2> QED
    BY <2>3, <2>4
<1> QED
  BY <1>2, <1>3 DEF HelperInitialized

\* Evaluating a stored transition yields the share that the driver's turn yields.
LEMMA EvaluateTracks ==
    ASSUME DInv, NEW a \in Agg, Evaluate(a)
    PROVE  Tracks' /\ InSync'
<1> DEFINE n == Len(hist[a])
           t == turns(report)[n - 1]
           next == transition_next(a)
<1>1. /\ phase \in [Agg -> Phases] /\ DOMAIN prep_state = Agg /\ report \in Reports
      /\ shares \in [Agg -> Seq(VdafPrepShare)] /\ hist[a] \in Seq(VdafPrepMsg)
      /\ phase[a] = "Transition"
  BY DEF DInv, IInv, TypeOK, Evaluate
<1>2. /\ n \in DOMAIN hist[a] /\ n - 1 \in 0..Rounds /\ t.running /\ Combined(t)
      /\ prep_state[a] = t.states[a] /\ prep_msg[a] = inbound(t) /\ next = advance(t, a)
  BY <1>1, TransitionIs DEF DInv
<1>3. n \in Nat /\ n >= 1
  BY <1>1, <1>2
<1> HIDE DEF next, t
<1>4. CASE next.tag = "Err"
  <2>1. Reject(a, "VdafPrepareNext")
    BY <1>4 DEF Evaluate, next
  <2>2. run_vdaf_prepare(report)[a] = <<>>
    BY <1>1, <1>2, <1>4, Turned DEF t
  <2>3. Fails(report)
    BY <2>2 DEF Fails
  <2> QED
    BY <2>1, <2>3, RejectTracks DEF VdafErrors
<1>5. CASE next.tag # "Err" /\ shares' = shares
  BY <1>4, <1>5, QuietTracks DEF Evaluate, next
<1>6. CASE next.tag = "Continue" /\ Len(shares[a]) = n
  <2>1. /\ shares' = [shares EXCEPT ![a] = Append(@, next.share)]
        /\ report' = report /\ phase' = phase /\ prep_state' = prep_state /\ out_share' = out_share
        /\ error' = error /\ hist' = hist
    BY <1>6 DEF Evaluate, next
  <2>2. /\ shares'[a] = Append(shares[a], next.share)
        /\ \A b \in Agg : b # a => shares'[b] = shares[b]
    BY <1>1, <2>1
  <2>3. next.share \in VdafPrepShare
    BY <1>1, <1>6, NextContract DEF next, transition_next, DInv, IInv, TypeOK
  <2>4. /\ DOMAIN shares'[a] = 1..n + 1 /\ DOMAIN shares[a] = 1..n
        /\ \A r \in 1..n : shares'[a][r] = shares[a][r]
        /\ shares'[a][n + 1] = next.share
    BY <1>1, <1>6, <2>2, <2>3, AppendProperties
  <2>5. Yields(report, a, n + 1, next.share)
    <3>1. (n + 1) - 2 = n - 1
      BY <1>3
    <3> QED
      BY <1>2, <1>6, <3>1 DEF Yields, t
  <2>6. \A r \in DOMAIN shares'[a] : r > 1 => Yields(report, a, r, shares'[a][r])
    <3> HIDE DEF n
    <3>1. \A r \in 1..n + 1 : r \in 1..n \/ r = n + 1
      BY <1>3
    <3>2. \A r \in 1..n : r > 1 => Yields(report, a, r, shares[a][r])
      BY <2>4 DEF DInv, Tracks, Tracked
    <3> QED
      BY <2>4, <2>5, <3>1, <3>2
  <2>7. Tracked(a)'
    BY <2>1, <2>6 DEF DInv, Tracks, Tracked
  <2>8. \A b \in Agg : b # a => Tracked(b)'
    BY <2>1, <2>2, TrackedFrame DEF DInv, Tracks
  <2> QED
    BY <2>1, <2>7, <2>8 DEF DInv, Tracks, InSync
<1> QED
  BY <1>4, <1>5, <1>6 DEF Evaluate, next

\* leader_continued and helper_continued take part in two turns of the driver: they adopt the
\* message of one, and make the message of the next.
LEMMA ContinuedTracks ==
    ASSUME DInv, CallerChecksStep, NEW a \in Agg, NEW m \in net, Continued(a, m)
    PROVE  Tracks' /\ InSync'
<1> DEFINE n == Len(hist[a])
           p == Peer(a)
           t == turns(report)[n]
           u == turns(report)[n + 1]
           next == vdaf_prepare_next(host_prep_state(a), m.prep_msg)
           combined == combine_at(a, m.prep_share, next.share)
<1>0. p \in Agg /\ \A b \in Agg : b = a \/ b = p
  BY DEF Peer, Agg, Leader, Helper
<1>1. /\ phase \in [Agg -> Phases] /\ DOMAIN prep_state = Agg /\ DOMAIN out_share = Agg /\ report \in Reports
      /\ shares \in [Agg -> Seq(VdafPrepShare)] /\ hist \in [Agg -> Seq(VdafPrepMsg)] /\ TypeOK
  BY DEF DInv, IInv, TypeOK
<1>2. m.from = p /\ HostContinued(a) /\ m.step = n + 1
  BY DEF Continued
<1>3. /\ n \in 0..Rounds /\ t.running /\ Combined(t)
      /\ host_prep_state(a) = t.states[a] /\ m.prep_msg = inbound(t)
      /\ m.type = "Continue" => advance(t, p).tag = "Continue"
  BY <1>2, SameTurn DEF DInv
<1>4. next = advance(t, a)
  BY <1>3 DEF advance
<1>5. Len(shares[a]) = n + 1 /\ n \in Nat /\ hist[a] \in Seq(VdafPrepMsg) /\ shares[a] \in Seq(VdafPrepShare)
  BY <1>1, <1>2, NextRound DEF DInv
<1>6. CASE continued(a, m) \notin {"WithMessage", "FinishedNoMessage"}
  <2>1. continued(a, m) \in VdafErrors /\ Fails(report)
    BY <1>2, <1>6, ContinuedFollows DEF DInv
  <2>2. Reject(a, continued(a, m))
    BY <1>6 DEF Continued
  <2> QED
    BY <2>1, <2>2, RejectTracks
<1>7. CASE continued(a, m) = "WithMessage"
  <2>1. /\ m.type = "Continue" /\ next.tag = "Continue" /\ next.share \in VdafPrepShare
        /\ m.prep_msg \in VdafPrepMsg /\ combined.msg \in VdafPrepMsg
    BY <1>1, <1>2, <1>7, ContinuedOutcome
  <2>2. /\ StoreTransition(a, next.state, combined.msg)
        /\ hist' = [hist EXCEPT ![a] = @ \o <<m.prep_msg, combined.msg>>]
        /\ shares' = [shares EXCEPT ![a] = Append(@, next.share)]
    BY <1>7 DEF Continued
  <2> HIDE DEF next, combined, t, u
  <2>3. n + 1 \in 0..Rounds /\ u.running /\ u.states[a] = next.state
    <3>1. \A b \in Agg : advance(t, b).tag = "Continue"
      BY <1>0, <1>3, <1>4, <2>1
    <3>2. n + 1 \in 0..Rounds /\ u.running /\ \A b \in Agg : u.states[b] = advance(t, b).state
      BY <1>1, <1>3, <3>1, Turned DEF t, u
    <3> QED
      BY <1>4, <3>2
  <2>4. /\ phase'[a] = "Transition" /\ prep_state'[a] = next.state /\ report' = report
        /\ hist'[a] = hist[a] \o <<m.prep_msg, combined.msg>>
        /\ shares'[a] = Append(shares[a], next.share)
        /\ out_share' = out_share /\ error' = error
        /\ \A b \in Agg : b # a => /\ phase'[b] = phase[b] /\ prep_state'[b] = prep_state[b]
                                   /\ hist'[b] = hist[b] /\ shares'[b] = shares[b]
    BY <1>1, <2>2 DEF StoreTransition
  <2>5. Len(hist'[a]) = n + 2
    BY <1>5, <2>1, <2>4, ConcatTwo
  <2>6. /\ DOMAIN shares'[a] = 1..n + 2 /\ DOMAIN shares[a] = 1..n + 1
        /\ \A r \in 1..n + 1 : shares'[a][r] = shares[a][r]
        /\ shares'[a][n + 2] = next.share
    <3>1. /\ shares'[a] \in Seq(VdafPrepShare) /\ Len(shares'[a]) = Len(shares[a]) + 1
          /\ \A i \in 1..Len(shares[a]) : shares'[a][i] = shares[a][i]
          /\ shares'[a][Len(shares[a]) + 1] = next.share
      BY <1>5, <2>1, <2>4, AppendProperties
    <3>2. (n + 1) + 1 = n + 2
      BY <1>5
    <3> QED
      BY <1>5, <3>1, <3>2
  <2> HIDE DEF n
  <2>7. Yields(report, a, n + 2, next.share)
    <3>1. (n + 2) - 2 = n
      BY <1>5
    <3> QED
      BY <1>3, <1>4, <2>1, <3>1 DEF Yields, t
  <2>8. \A r \in DOMAIN shares'[a] : r > 1 => Yields(report, a, r, shares'[a][r])
    <3>1. \A r \in 1..n + 2 : r \in 1..n + 1 \/ r = n + 2
      BY <1>5
    <3>2. \A r \in 1..n + 1 : r > 1 => Yields(report, a, r, shares[a][r])
      BY <2>6 DEF DInv, Tracks, Tracked
    <3> QED
      BY <2>6, <2>7, <3>1, <3>2
  <2>9. prep_state'[a] = turns(report)[Len(hist'[a]) - 1].states[a]
    <3>1. (n + 2) - 1 = n + 1
      BY <1>5
    <3> QED
      BY <2>3, <2>4, <2>5, <3>1 DEF u
  <2>10. Tracked(a)'
    BY <2>4, <2>8, <2>9 DEF Tracked
  <2>11. \A b \in Agg : b # a => Tracked(b)'
    BY <2>4, TrackedFrame DEF DInv, Tracks
  <2> QED
    BY <2>4, <2>10, <2>11 DEF DInv, Tracks, InSync
<1>8. CASE continued(a, m) = "FinishedNoMessage"
  <2>1. next.tag = "Finish"
    BY <1>1, <1>2, <1>8, ContinuedOutcome
  <2>2. /\ phase' = [phase EXCEPT ![a] = "FinishedNoMessage"]
        /\ prep_state' = [prep_state EXCEPT ![a] = NoState]
        /\ out_share' = [out_share EXCEPT ![a] = next.out]
        /\ hist' = [hist EXCEPT ![a] = Append(@, m.prep_msg)]
        /\ report' = report /\ error' = error /\ shares' = shares
    BY <1>8 DEF Continued
  <2>3. run_vdaf_prepare(report)[a] = <<next.out>>
    BY <1>1, <1>3, <1>4, <2>1, Turned
  <2> HIDE DEF next
  <2>4. /\ phase'[a] = "FinishedNoMessage" /\ out_share'[a] = next.out
        /\ \A b \in Agg : b # a => /\ phase'[b] = phase[b] /\ prep_state'[b] = prep_state[b]
                                   /\ out_share'[b] = out_share[b] /\ hist'[b] = hist[b]
    BY <1>1, <2>2
  <2>5. Tracked(a)'
    BY <2>2, <2>3, <2>4 DEF DInv, Tracks, Tracked
  <2>6. \A b \in Agg : b # a => Tracked(b)'
    BY <2>2, <2>4, TrackedFrame DEF DInv, Tracks
  <2> QED
    BY <2>2, <2>5, <2>6 DEF DInv, Tracks, InSync
<1> QED
  BY <1>6, <1>7, <1>8

\* An aggregator that has finished is ahead of every message its peer sends: there is none
\* for the round after its own.
LEMMA NothingLate ==
    ASSUME IInv, NEW a \in Agg, NEW m \in net, m.from = Peer(a), HostFinished(a),
           m.step = Len(hist[a]) + 1
    PROVE  FALSE
<1>1. /\ m \in Message /\ Peer(a) \in Agg
      /\ hist[a] \in Seq(VdafPrepMsg) /\ hist[Peer(a)] \in Seq(VdafPrepMsg)
      /\ shares[a] \in Seq(VdafPrepShare)
  BY PeerFacts DEF IInv, TypeOK
<1>2. Len(hist[a]) \in Nat /\ Len(shares[a]) \in Nat
  BY <1>1
<1>3. m.type # "Initialize"
  BY <1>1, <1>2 DEF Message
<1>4. Len(hist[a]) + 1 \in DOMAIN hist[Peer(a)]
  BY <1>3 DEF IInv, NoEquivocation
<1>5. CASE phase[a] = "FinishedNoMessage"
  <2>1. hist[a] = hist[Peer(a)]
    BY <1>5 DEF IInv, Stored
  <2> QED
    BY <1>1, <1>2, <1>4, <2>1
<1>6. CASE phase[a] = "Transition"
  <2>1. Len(hist[a]) + 1 \in DOMAIN shares[a]
    BY <1>1, <1>4, Both DEF IInv, CombinesBothShares
  <2>2. Len(shares[a]) = Len(hist[a]) + 1
    BY <1>1, <1>2, <1>6, <2>1 DEF IInv, Stored
  <2>3. transition_next(a).tag = "Continue"
    BY <1>6, <2>2 DEF IInv, Stored
  <2> QED
    BY <1>6, <2>3 DEF HostFinished
<1> QED
  BY <1>5, <1>6 DEF HostFinished

\* The topology starts on the driver's track, and every step stays on it.
LEMMA DInvInit == Init => DInv
<1> SUFFICES ASSUME Init
             PROVE  DInv
  OBVIOUS
<1>1. \A a \in Agg : shares[a] = <<>> /\ phase[a] = "Start" /\ error[a] = "none" /\ DOMAIN <<>> = {}
  BY DEF Init
<1>2. Tracks
  BY <1>1 DEF Tracks, Tracked
<1>3. InSync
  BY <1>1 DEF InSync
<1> QED
  BY <1>2, <1>3, IInvInit DEF DInv

\* One lemma per action.
LEMMA DInvStep ==
    ASSUME CallerChecksStep, DInv, [Next]_vars
    PROVE  DInv'
<1>1. IInv'
  BY IInvStep DEF DInv
<1>2. CASE LeaderInitialized
  BY <1>1, <1>2, LeaderInitializedTracks DEF DInv
<1>3. ASSUME NEW m \in net, HelperInitialized(m)
      PROVE  DInv'
  BY <1>1, <1>3, HelperInitializedTracks DEF DInv
<1>4. ASSUME NEW a \in Agg, Evaluate(a)
      PROVE  DInv'
  BY <1>1, <1>4, EvaluateTracks DEF DInv
<1>5. ASSUME NEW a \in Agg, NEW m \in net, Continued(a, m)
      PROVE  DInv'
  BY <1>1, <1>5, ContinuedTracks DEF DInv
<1>6. ASSUME NEW a \in Agg, NEW m \in net, LateMessage(a, m)
      PROVE  DInv'
  BY <1>6, NothingLate DEF LateMessage, DInv
<1>7. ASSUME NEW a \in Agg, Restart(a)
      PROVE  DInv'
  <2>1. vdaf_decode_state(a, vdaf_encode_state(prep_state[a])) = prep_state[a] /\ DOMAIN prep_state = Agg
    BY <1>7, CodecContract DEF Restart, DInv, IInv, TypeOK
  <2>2. \A b \in Agg : prep_state'[b] = prep_state[b]
    BY <1>7, <2>1 DEF Restart
  <2>3. Tracks' /\ InSync'
    BY <1>7, <2>2, QuietTracks DEF Restart
  <2> QED
    BY <1>1, <2>3 DEF DInv
<1>8. ASSUME NEW m \in net, Lose(m)
      PROVE  DInv'
  <2>1. Tracks' /\ InSync'
    BY <1>8, QuietTracks DEF Lose
  <2> QED
    BY <1>1, <2>1 DEF DInv
<1>9. CASE UNCHANGED vars
  <2>1. Tracks' /\ InSync'
    BY <1>9, QuietTracks DEF vars
  <2> QED
    BY <1>1, <2>1 DEF DInv
<1> QED
  BY <1>2, <1>3, <1>4, <1>5, <1>6, <1>7, <1>8, <1>9 DEF Next

\* For every VDAF with which the driver does not panic, when messages reach the round they
\* were sent for: the handlers never meet a message of the wrong kind, and never bytes that do
\* not parse.  A report is only ever rejected by the VDAF (PingPongError of ping_pong.rs).
THEOREM StaysInSync ==
    ASSUME CallerChecksStep
    PROVE  Spec => []InSync
<1>1. DInv /\ [Next]_vars => DInv'
  BY DInvStep
<1>2. DInv => InSync
  BY DEF DInv
<1> QED
  BY <1>1, <1>2, DInvInit, PTL DEF Spec

\* Under the same conditions a transition that was stored before a crash can be read back after
\* it: its message parses under its state (PingPongTransition::decode_with_param).
THEOREM TransitionsAreReadable ==
    ASSUME CallerChecksStep
    PROVE  Spec => []TransitionReadable
<1>1. DInv /\ [Next]_vars => DInv'
  BY DInvStep
<1>2. ASSUME DInv, NEW a \in Agg, phase[a] = "Transition"
      PROVE  vdaf_decodes_msg(prep_state[a], prep_msg[a])
  <2> DEFINE t == turns(report)[Len(hist[a]) - 1]
  <2>1. report \in Reports
    BY <1>2 DEF DInv, IInv, TypeOK
  <2>2. /\ Len(hist[a]) - 1 \in 0..Rounds /\ t.running /\ Combined(t)
        /\ prep_state[a] = t.states[a] /\ prep_msg[a] = inbound(t)
    BY <1>2, TransitionIs DEF DInv
  <2> QED
    BY <2>1, <2>2, Turned
<1>3. DInv => TransitionReadable
  BY <1>2 DEF TransitionReadable
<1> QED
  BY <1>1, <1>3, DInvInit, PTL DEF Spec

-----------------------------------------------------------------------------
(* The refinement.                                                         *)

\* Every outcome is the driver's.
Right ==
    \A a \in Agg :
        /\ HostFinished(a) => run_vdaf_prepare(report)[a] = <<OutputOf(a)>>
        /\ phase[a] = "Rejected" => Fails(report)

\* It is: a stored transition that finishes does so in a turn of the driver.
LEMMA OutcomesAreRight == DInv => Right
<1> SUFFICES ASSUME DInv, NEW a \in Agg
             PROVE  /\ HostFinished(a) => run_vdaf_prepare(report)[a] = <<OutputOf(a)>>
                    /\ phase[a] = "Rejected" => Fails(report)
  BY DEF Right
<1>1. phase[a] = "Rejected" => Fails(report)
  BY DEF DInv, Tracks, Tracked, Fails
<1>2. CASE phase[a] = "FinishedNoMessage"
  BY <1>1, <1>2 DEF DInv, Tracks, Tracked, OutputOf
<1>3. CASE phase[a] = "Transition" /\ transition_next(a).tag = "Finish"
  <2> DEFINE t == turns(report)[Len(hist[a]) - 1]
  <2>1. report \in Reports
    BY DEF DInv, IInv, TypeOK
  <2>2. /\ Len(hist[a]) - 1 \in 0..Rounds /\ t.running /\ Combined(t)
        /\ transition_next(a) = advance(t, a)
    BY <1>3, TransitionIs DEF DInv
  <2>3. run_vdaf_prepare(report)[a] = <<advance(t, a).out>>
    BY <1>3, <2>1, <2>2, Turned
  <2> QED
    BY <1>1, <1>3, <2>2, <2>3 DEF OutputOf
<1> QED
  BY <1>1, <1>2, <1>3 DEF HostFinished

\* A step is one aggregator's.
LEMMA OneMoves ==
    ASSUME TypeOK, Next
    PROVE  /\ report' = report
           /\ \E a \in Agg : \A b \in Agg : b # a =>
                /\ phase'[b] = phase[b] /\ prep_state'[b] = prep_state[b]
                /\ prep_msg'[b] = prep_msg[b] /\ out_share'[b] = out_share[b]
<1> DEFINE Moves(a) == /\ report' = report
                       /\ \A b \in Agg : b # a =>
                            /\ phase'[b] = phase[b] /\ prep_state'[b] = prep_state[b]
                            /\ prep_msg'[b] = prep_msg[b] /\ out_share'[b] = out_share[b]
<1>0. /\ phase \in [Agg -> Phases] /\ DOMAIN prep_state = Agg /\ DOMAIN prep_msg = Agg
      /\ DOMAIN out_share = Agg
  BY DEF TypeOK
<1>1. ASSUME NEW a \in Agg, NEW e, Reject(a, e)
      PROVE  Moves(a)
  BY <1>0, <1>1 DEF Reject
<1>2. ASSUME NEW a \in Agg, NEW s, NEW msg, StoreTransition(a, s, msg)
      PROVE  Moves(a)
  BY <1>0, <1>2 DEF StoreTransition
<1>3. ASSUME LeaderInitialized
      PROVE  Moves(Leader)
  <2>1. CASE Reject(Leader, "VdafPrepareInit")
    BY <1>1, <2>1, Both
  <2>2. CASE ~Reject(Leader, "VdafPrepareInit")
    BY <1>0, <1>3, <2>2, Both DEF LeaderInitialized
  <2> QED
    BY <2>1, <2>2
<1>4. ASSUME NEW m \in net, HelperInitialized(m)
      PROVE  Moves(Helper)
  <2> HIDE DEF Moves
  <2> QED
    BY <1>1, <1>2, <1>4, Both DEF HelperInitialized
<1>5. ASSUME NEW a \in Agg, Evaluate(a)
      PROVE  Moves(a)
  <2>1. CASE Reject(a, "VdafPrepareNext")
    BY <1>1, <2>1
  <2>2. CASE ~Reject(a, "VdafPrepareNext")
    BY <1>5, <2>2 DEF Evaluate
  <2> QED
    BY <2>1, <2>2
<1>6. ASSUME NEW a \in Agg, NEW m \in net, Continued(a, m)
      PROVE  Moves(a)
  <2>1. CASE continued(a, m) = "FinishedNoMessage"
    BY <1>0, <1>6, <2>1 DEF Continued
  <2>2. CASE continued(a, m) # "FinishedNoMessage"
    <3> HIDE DEF Moves
    <3> QED
      BY <1>1, <1>2, <1>6, <2>2 DEF Continued
  <2> QED
    BY <2>1, <2>2
<1>7. ASSUME NEW a \in Agg, NEW m \in net, LateMessage(a, m)
      PROVE  Moves(a)
  BY <1>7 DEF LateMessage
<1>8. ASSUME NEW a \in Agg, Restart(a)
      PROVE  Moves(a)
  BY <1>0, <1>8 DEF Restart
<1>9. ASSUME NEW m \in net, Lose(m)
      PROVE  Moves(Leader)
  BY <1>9 DEF Lose
<1>10. \E a \in Agg : Moves(a)
  <2> HIDE DEF Moves
  <2> QED
    BY <1>3, <1>4, <1>5, <1>6, <1>7, <1>8, <1>9, Both DEF Next
<1> QED
  BY <1>10

\* A step of the topology is a decision of the abstract specification, or none.
LEMMA RefinementStep ==
    ASSUME CallerChecksStep, DInv, Right', [Next]_vars
    PROVE  [Sequential!Next]_<<report, Verdicts, Outputs>>
<1>1. CASE UNCHANGED vars
  BY <1>1 DEF vars, Verdicts, Outputs, HostFinished, OutputOf, transition_next
<1>2. CASE Next
  <2>1. /\ report' = report
        /\ \A a \in Agg : Final(a)
    BY <1>2, OneMoves, FinalStep DEF DInv, IInv
  <2>2. PICK a \in Agg : \A b \in Agg : b # a =>
          /\ phase'[b] = phase[b] /\ prep_state'[b] = prep_state[b]
          /\ prep_msg'[b] = prep_msg[b] /\ out_share'[b] = out_share[b]
    BY <1>2, OneMoves DEF DInv, IInv
  <2>3. \A b \in Agg : b # a => Verdicts'[b] = Verdicts[b] /\ Outputs'[b] = Outputs[b]
    BY <2>2 DEF Verdicts, Outputs, HostFinished, OutputOf, transition_next
  <2>4. /\ Verdicts = [b \in Agg |-> Verdicts[b]] /\ Outputs = [b \in Agg |-> Outputs[b]]
        /\ Verdicts' = [b \in Agg |-> Verdicts'[b]] /\ Outputs' = [b \in Agg |-> Outputs'[b]]
    BY DEF Verdicts, Outputs
  <2>5. ASSUME NEW b \in Agg
        PROVE  /\ HostFinished(b) => Verdicts[b] = "finished" /\ Outputs[b] = <<OutputOf(b)>>
               /\ phase[b] = "Rejected" => Verdicts[b] = "rejected" /\ Outputs[b] = <<>>
               /\ ~HostFinished(b) /\ phase[b] # "Rejected" => Verdicts[b] = "undecided" /\ Outputs[b] = <<>>
    BY DEF Verdicts, Outputs, HostFinished
  <2>6. ASSUME NEW b \in Agg
        PROVE  /\ HostFinished(b)' => Verdicts'[b] = "finished" /\ Outputs'[b] = <<OutputOf(b)'>>
               /\ phase'[b] = "Rejected" => Verdicts'[b] = "rejected" /\ Outputs'[b] = <<>>
               /\ ~HostFinished(b)' /\ phase'[b] # "Rejected" =>
                    Verdicts'[b] = "undecided" /\ Outputs'[b] = <<>>
    BY DEF Verdicts, Outputs, HostFinished
  <2>7. CASE Verdicts'[a] = Verdicts[a] /\ Outputs'[a] = Outputs[a]
    <3>1. \A b \in Agg : Verdicts'[b] = Verdicts[b] /\ Outputs'[b] = Outputs[b]
      BY <2>3, <2>7
    <3>2. Verdicts' = Verdicts /\ Outputs' = Outputs
      BY <2>4, <3>1
    <3> QED
      BY <2>1, <3>2
  <2>8. CASE ~HostFinished(a) /\ phase[a] # "Rejected" /\ HostFinished(a)'
    <3>1. run_vdaf_prepare(report)[a] = <<OutputOf(a)'>>
      BY <2>1, <2>8 DEF Right
    <3>2. /\ Verdicts[a] = "undecided" /\ Verdicts'[a] = "finished"
          /\ Outputs'[a] = run_vdaf_prepare(report)[a] /\ run_vdaf_prepare(report)[a] # <<>>
      BY <2>5, <2>6, <2>8, <3>1
    <3>3. Verdicts' = [Verdicts EXCEPT ![a] = "finished"]
      BY <2>3, <2>4, <3>2
    <3>4. Outputs' = [Outputs EXCEPT ![a] = run_vdaf_prepare(report)[a]]
      BY <2>3, <2>4, <3>2
    <3>5. Sequential!Accept(a)
      BY <2>1, <3>2, <3>3, <3>4 DEF Sequential!Accept
    <3> QED
      BY <3>5 DEF Sequential!Next
  <2>9. CASE ~HostFinished(a) /\ phase[a] # "Rejected" /\ phase'[a] = "Rejected"
    <3>1. Fails(report)
      BY <2>1, <2>9 DEF Right
    <3>2. ~Sequential!Succeeds
      BY <3>1 DEF Fails, Sequential!Succeeds
    <3>3. /\ Verdicts[a] = "undecided" /\ Verdicts'[a] = "rejected" /\ Outputs'[a] = Outputs[a]
      BY <2>5, <2>6, <2>9
    <3>4. Verdicts' = [Verdicts EXCEPT ![a] = "rejected"]
      BY <2>3, <2>4, <3>3
    <3>5. Outputs' = Outputs
      BY <2>3, <2>4, <3>3
    <3>6. Sequential!Reject(a)
      BY <2>1, <3>2, <3>3, <3>4, <3>5 DEF Sequential!Reject
    <3> QED
      BY <3>6 DEF Sequential!Next
  <2>10. CASE HostFinished(a)
    <3>1. HostFinished(a)' /\ OutputOf(a)' = OutputOf(a)
      BY <2>1, <2>10 DEF Final
    <3> QED
      BY <2>5, <2>6, <2>7, <2>10, <3>1
  <2>11. CASE phase[a] = "Rejected"
    <3>1. phase'[a] = "Rejected"
      BY <2>1, <2>11 DEF Final
    <3> QED
      BY <2>5, <2>6, <2>7, <2>11, <3>1
  <2>12. CASE ~HostFinished(a) /\ phase[a] # "Rejected" /\ ~HostFinished(a)' /\ phase'[a] # "Rejected"
    BY <2>5, <2>6, <2>7, <2>12
  <2> QED
    BY <2>8, <2>9, <2>10, <2>11, <2>12
<1> QED
  BY <1>1, <1>2

\* The topology implements the sequential driver of vdaf.rs, for every VDAF with which that
\* driver does not panic, over any losses, repetitions and crashes, when messages reach the
\* round they were sent for: an aggregator finishes only with the output share that the driver
\* obtains for it, rejects a report only if the driver fails on it, and decides once.
THEOREM TopologyImplementsDriver ==
    ASSUME CallerChecksStep
    PROVE  Spec => Sequential!DecidesRightly
<1>1. Init => Sequential!Init
  <2>1. ASSUME Init
        PROVE  \A a \in Agg : ~HostFinished(a) /\ phase[a] # "Rejected"
    BY <2>1 DEF Init, HostFinished
  <2> QED
    BY <2>1 DEF Sequential!Init, Verdicts, Outputs
<1>2. DInv /\ [Next]_vars => DInv'
  BY DInvStep
<1>3. DInv /\ Right' /\ [Next]_vars => [Sequential!Next]_<<report, Verdicts, Outputs>>
  BY RefinementStep
<1>4. DInv => Right
  BY OutcomesAreRight
<1> QED
  BY <1>1, <1>2, <1>3, <1>4, DInvInit, PTL DEF Spec, Sequential!DecidesRightly

-----------------------------------------------------------------------------
(***************************************************************************)
(* What Poplar1 decides.  Sums in the field are linear, so that the sketch *)
(* of the values is the sum of the sketches of their shares.               *)
(***************************************************************************)
\* The modulus, and the elements of the field, are integers.
LEMMA Modulus == P \in Nat /\ P > 0 /\ P \in Int /\ 0 \in F /\ F \subseteq Int
BY ModulusAssumption DEF F

\* A remainder is in the field and congruent to the number.
LEMMA Reduced == ASSUME NEW x \in Int PROVE x % P \in F /\ x % P \in Int /\ Cong(P, x % P, x) /\ Cong(P, x, x % P)
BY Modulus, CongRemainder DEF F

\* Vectors are added element by element.
LEMMA MergeVectorIs ==
  ASSUME NEW n \in Nat, NEW x \in [1..n -> Int], NEW y \in [1..n -> Int]
  PROVE  merge_vector(x, y) = [i \in 1..n |-> (x[i] + y[i]) % P] /\ merge_vector(x, y) \in [1..n -> F]
<1> DEFINE f == [i \in 1..n |-> (x[i] + y[i]) % P]
<1>1. f \in [1..n -> F]
  <2>1. ASSUME NEW i \in 1..n
        PROVE  (x[i] + y[i]) % P \in F
    <3>1. x[i] + y[i] \in Int
      OBVIOUS
    <3> QED
      BY <3>1, Reduced
  <2> QED
    BY <2>1
<1>2. merge_vector(x, y) = f \o <<>>
  BY DEF merge_vector, Evaluated
<1>3. f \in Seq(F)
  <2> HIDE DEF f
  <2> QED
    BY <1>1
<1> HIDE DEF f
<1>4. f \o <<>> = f
  BY <1>3, ConcatEmptySeq
<1> QED
  BY <1>1, <1>2, <1>4 DEF f

\* Vectors over the field.
LEMMA MergedElements ==
  ASSUME NEW n \in Nat, NEW x \in [1..n -> F], NEW y \in [1..n -> F]
  PROVE  merge_vector(x, y) \in [1..n -> F] /\ \A i \in 1..n : merge_vector(x, y)[i] = (x[i] + y[i]) % P
<1>1. x \in [1..n -> Int] /\ y \in [1..n -> Int]
  BY Modulus
<1> DEFINE m == merge_vector(x, y)
<1>2. m = [i \in 1..n |-> (x[i] + y[i]) % P] /\ m \in [1..n -> F]
  BY <1>1, MergeVectorIs
<1> HIDE DEF m
<1> QED
  BY <1>2 DEF m

\* The totals of the first elements of a vector.
AreTotals(w, v, n) ==
    w \in [0..n -> F] /\ w[0] = 0 /\ \A k \in 1..n : w[k] = (w[k - 1] + v[k]) % P

\* total ends with the last of them.
LEMMA TotalIs ==
  ASSUME NEW n \in Nat, NEW v \in [1..n -> Int]
  PROVE  \E w : AreTotals(w, v, n) /\ total(v) = w[n]
<1> DEFINE step(x, acc) == (acc + x) % P
           G == [k \in 1..n |-> [acc \in F |-> step(v[k], acc)]]
           Folds(it) == it = [u \in SUBSET (1..n) |->
                                IF u = {} THEN 0 ELSE step(v[Max(u)], it[u \ {Max(u)}])]
           iter == CHOOSE it : Folds(it)
<1>1. DOMAIN v = 1..n
  OBVIOUS
<1>2. total(v) = iter[1..n]
  BY <1>1 DEF total, FoldLeft, MapThenFoldSet
<1>3. 0 \in F
  BY Modulus
<1>4. ASSUME NEW k \in 1..n, NEW acc \in F
      PROVE  step(v[k], acc) \in F
  <2>1. acc + v[k] \in Int
    BY Modulus
  <2> QED
    BY <2>1, Reduced
<1>5. G \in [1..n -> [F -> F]]
  <2> HIDE DEF step
  <2> QED
    BY <1>4
<1>6. \E it : Folds(it)
  <2> HIDE DEF G, step
  <2>1. PICK it : IsFold(it, n, F, 0, G)
    BY <1>3, <1>5, FoldExists
  <2>2. /\ it \in [SUBSET (1..n) -> F]
        /\ \A u \in SUBSET (1..n) :
              it[u] = IF u = {} THEN 0 ELSE G[Max(u)][it[u \ {Max(u)}]]
    BY <2>1 DEF IsFold
  <2>3. ASSUME NEW u \in SUBSET (1..n)
        PROVE  it[u] = IF u = {} THEN 0 ELSE step(v[Max(u)], it[u \ {Max(u)}])
    <3>1. CASE u = {}
      BY <2>2, <3>1
    <3>2. CASE u # {}
      <4>1. Max(u) \in 1..n
        BY <3>2, MaxOfPositions
      <4>2. it[u \ {Max(u)}] \in F
        BY <2>2, <4>1
      <4>3. G[Max(u)][it[u \ {Max(u)}]] = step(v[Max(u)], it[u \ {Max(u)}])
        BY <4>1, <4>2 DEF G
      <4> QED
        BY <2>2, <3>2, <4>3
    <3> QED
      BY <3>1, <3>2
  <2>4. it = [u \in SUBSET (1..n) |->
                IF u = {} THEN 0 ELSE step(v[Max(u)], it[u \ {Max(u)}])]
    BY <2>2, <2>3
  <2> QED
    BY <2>4
<1>7. Folds(iter)
  <2> HIDE DEF Folds
  <2> QED
    BY <1>6
<1> HIDE DEF iter
<1> DEFINE w == [k \in 0..n |-> iter[1..k]]
<1>8. w[0] = 0
  BY <1>7
<1>9. ASSUME NEW k \in 1..n
      PROVE  w[k] = step(v[k], w[k - 1])
  <2>1. k \in Nat /\ k > 0 /\ 1..k \in SUBSET (1..n) /\ k \in 0..n /\ k - 1 \in 0..n
    OBVIOUS
  <2>2. Max(1..k) = k /\ (1..k) \ {k} = 1..k - 1 /\ 1..k # {}
    BY <2>1, MaxOfFirst
  <2>3. iter[1..k] = IF 1..k = {} THEN 0
                     ELSE step(v[Max(1..k)], iter[(1..k) \ {Max(1..k)}])
    <3> HIDE DEF step
    <3> QED
      BY <1>7, <2>1
  <2> HIDE DEF step
  <2> QED
    BY <2>1, <2>2, <2>3
<1> HIDE DEF Folds
<1> DEFINE S == {k \in 0..n : w[k] \in F}
<1>10. 0 \in S
  BY <1>3, <1>8
<1>11. ASSUME NEW k \in 0..n - 1, k \in S
       PROVE  k + 1 \in S
  <2>1. k + 1 \in 1..n /\ k + 1 \in 0..n /\ (k + 1) - 1 = k
    OBVIOUS
  <2>2. w[k + 1] = step(v[k + 1], w[k])
    BY <1>9, <2>1
  <2> HIDE DEF w, step
  <2> QED
    BY <1>4, <1>11, <2>1, <2>2
<1>12. 0..n \subseteq S
  <2> HIDE DEF S
  <2> QED
    BY <1>10, <1>11, IntervalInduction
<1>13. w \in [0..n -> F]
  BY <1>12
<1>14. w[n] = iter[1..n]
  OBVIOUS
<1> HIDE DEF w
<1>15. AreTotals(w, v, n)
  BY <1>8, <1>9, <1>13 DEF AreTotals
<1> QED
  BY <1>2, <1>14, <1>15

\* A total is in the field.
LEMMA TotalType == ASSUME NEW n \in Nat, NEW v \in [1..n -> Int] PROVE total(v) \in F /\ total(v) \in Int
<1>1. PICK w : AreTotals(w, v, n) /\ total(v) = w[n]
  BY TotalIs
<1>2. n \in 0..n
  OBVIOUS
<1> QED
  BY <1>1, <1>2, Modulus DEF AreTotals

\* The total of the sum of two vectors is the sum of their totals.
LEMMA TotalAdds ==
  ASSUME NEW n \in Nat, NEW u \in [1..n -> Int], NEW v \in [1..n -> Int], NEW t \in [1..n -> Int],
         \A i \in 1..n : Cong(P, u[i] + v[i], t[i])
  PROVE  Cong(P, total(u) + total(v), total(t))
<1>1. PICK x : AreTotals(x, u, n) /\ total(u) = x[n]
  BY TotalIs
<1>2. PICK y : AreTotals(y, v, n) /\ total(v) = y[n]
  BY TotalIs
<1>3. PICK z : AreTotals(z, t, n) /\ total(t) = z[n]
  BY TotalIs
<1>4. \A k \in 0..n : x[k] \in Int /\ y[k] \in Int /\ z[k] \in Int
  BY <1>1, <1>2, <1>3, Modulus DEF AreTotals
<1> DEFINE S == {k \in 0..n : Cong(P, x[k] + y[k], z[k])}
<1>5. 0 \in S
  <2>1. x[0] = 0 /\ y[0] = 0 /\ z[0] = 0 /\ 0 + 0 = 0 /\ 0 \in 0..n
    BY <1>1, <1>2, <1>3 DEF AreTotals
  <2>2. Cong(P, 0, 0)
    BY Modulus, CongRefl
  <2> QED
    BY <2>1, <2>2
<1>6. ASSUME NEW k \in 0..n - 1, k \in S
      PROVE  k + 1 \in S
  <2> DEFINE j == k + 1
             a == x[k]
             b == y[k]
             c == z[k]
             d == u[j]
             e == v[j]
             f == t[j]
  <2>1. j \in 1..n /\ j \in 0..n /\ j - 1 = k /\ k \in 0..n
    OBVIOUS
  <2>2. x[j] = (a + d) % P /\ y[j] = (b + e) % P /\ z[j] = (c + f) % P
    BY <1>1, <1>2, <1>3, <2>1 DEF AreTotals
  <2>3. a \in Int /\ b \in Int /\ c \in Int /\ d \in Int /\ e \in Int /\ f \in Int
    BY <1>4, <2>1
  <2>4. Cong(P, a + b, c) /\ Cong(P, d + e, f)
    BY <1>6, <2>1
  <2> HIDE DEF j, a, b, c, d, e, f
  <2>5. Cong(P, (a + b) + (d + e), c + f)
    BY <2>3, <2>4, Modulus, CongSum
  <2>6. Cong(P, (a + d) % P, a + d) /\ Cong(P, (b + e) % P, b + e) /\ Cong(P, c + f, (c + f) % P)
        /\ (a + d) % P \in Int /\ (b + e) % P \in Int /\ (c + f) % P \in Int
    BY <2>3, Reduced
  <2> DEFINE l == (a + d) % P
             r == (b + e) % P
             s == (c + f) % P
  <2> HIDE DEF l, r, s
  <2>7. l \in Int /\ r \in Int /\ s \in Int /\ Cong(P, l, a + d) /\ Cong(P, r, b + e) /\ Cong(P, c + f, s)
    BY <2>6 DEF l, r, s
  <2>8. Cong(P, l + r, (a + d) + (b + e))
    BY <2>3, <2>7, Modulus, CongSum
  <2>9. (a + d) + (b + e) = (a + b) + (d + e)
    BY <2>3
  <2>10. Cong(P, l + r, c + f)
    BY <2>3, <2>5, <2>7, <2>8, <2>9, Modulus, CongTrans
  <2>11. Cong(P, l + r, s)
    BY <2>3, <2>7, <2>10, Modulus, CongTrans
  <2> QED
    BY <2>1, <2>2, <2>11 DEF l, r, s, j
<1>7. 0..n \subseteq S
  <2> HIDE DEF S
  <2> QED
    BY <1>5, <1>6, IntervalInduction
<1>8. n \in 0..n
  OBVIOUS
<1> QED
  BY <1>1, <1>2, <1>3, <1>7, <1>8

\* The total of a vector with at most one element that is not zero.
LEMMA TotalOfOne ==
  ASSUME NEW n \in Nat, NEW v \in [1..n -> Int], NEW j \in Int, \A i \in 1..n : i # j => v[i] = 0
  PROVE  total(v) = IF j \in 1..n THEN v[j] % P ELSE 0
<1>1. PICK w : AreTotals(w, v, n) /\ total(v) = w[n]
  BY TotalIs
<1>2. \A k \in 0..n : w[k] \in Int
  BY <1>1, Modulus DEF AreTotals
<1>3. 0 % P = 0
  BY Modulus, DivisionIs
<1> DEFINE so_far(k) == IF j \in 1..k THEN v[j] % P ELSE 0
           S == {k \in 0..n : w[k] = so_far(k)}
<1>4. 0 \in S
  <2>1. w[0] = 0 /\ 0 \in 0..n /\ j \notin 1..0
    BY <1>1 DEF AreTotals
  <2> QED
    BY <2>1
<1>5. ASSUME NEW k \in 0..n - 1, k \in S
      PROVE  k + 1 \in S
  <2> SUFFICES w[k + 1] = so_far(k + 1)
    OBVIOUS
  <2>1. k + 1 \in 1..n /\ k + 1 \in 0..n /\ (k + 1) - 1 = k /\ k \in 0..n
    OBVIOUS
  <2>2. w[k + 1] = (w[k] + v[k + 1]) % P
    BY <1>1, <2>1 DEF AreTotals
  <2>3. w[k] = so_far(k)
    BY <1>5
  <2>4. CASE k + 1 = j
    <3>1. j \notin 1..k /\ j \in 1..k + 1 /\ v[j] \in Int
      BY <2>1, <2>4
    <3>2. w[k] = 0 /\ so_far(k + 1) = v[j] % P /\ 0 + v[j] = v[j]
      BY <2>3, <3>1
    <3> QED
      BY <2>2, <2>4, <3>2
  <2>5. CASE k + 1 # j
    <3>1. v[k + 1] = 0 /\ (j \in 1..k + 1 <=> j \in 1..k) /\ w[k] \in Int
      BY <1>2, <2>1, <2>5
    <3>2. w[k + 1] = w[k] % P /\ so_far(k + 1) = so_far(k)
      BY <2>2, <3>1
    <3>3. w[k] \in 0..P - 1
      BY <1>1, <2>1 DEF AreTotals, F
    <3>4. w[k] % P = w[k]
      <4>1. w[k] = P * 0 + w[k]
        BY <3>1, Modulus
      <4> QED
        BY <3>1, <3>3, <4>1, Modulus, DivisionIs
    <3> QED
      BY <2>3, <3>2, <3>4
  <2> QED
    BY <2>4, <2>5
<1>6. 0..n \subseteq S
  <2> HIDE DEF S
  <2> QED
    BY <1>4, <1>5, IntervalInduction
<1>7. n \in 0..n
  OBVIOUS
<1> QED
  BY <1>1, <1>6, <1>7

-----------------------------------------------------------------------------
(* The sketch.                                                             *)

Values(n) == [1..n -> [1..2 -> Int]]
Firsts(x, r, n) == [i \in 1..n |-> x[i][1] * r[i]]
Squares(x, r, n) == [i \in 1..n |-> x[i][1] * r[i] * r[i]]
Seconds(x, r, n) == [i \in 1..n |-> x[i][2] * r[i]]

\* A sketch has three elements.
LEMMA SketchType ==
  ASSUME NEW n \in Nat, NEW x \in Values(n), NEW r \in [1..n -> Int]
  PROVE  /\ sketch_of(x, r) \in [1..3 -> F]
         /\ sketch_of(x, r)[1] = total(Firsts(x, r, n)) /\ Firsts(x, r, n) \in [1..n -> Int]
         /\ sketch_of(x, r)[2] = total(Squares(x, r, n)) /\ Squares(x, r, n) \in [1..n -> Int]
         /\ sketch_of(x, r)[3] = total(Seconds(x, r, n)) /\ Seconds(x, r, n) \in [1..n -> Int]
<1> DEFINE f == Firsts(x, r, n)
           g == Squares(x, r, n)
           h == Seconds(x, r, n)
<1>1. \A i \in 1..n : x[i][1] \in Int /\ x[i][2] \in Int /\ r[i] \in Int
  BY DEF Values
<1>2. f \in [1..n -> Int] /\ g \in [1..n -> Int] /\ h \in [1..n -> Int]
  BY <1>1 DEF Firsts, Squares, Seconds
<1>3. DOMAIN x = 1..n
  BY DEF Values
<1>4. sketch_of(x, r) = <<total(f), total(g), total(h)>>
  BY <1>3 DEF sketch_of, Firsts, Squares, Seconds
<1> HIDE DEF f, g, h
<1>5. total(f) \in F /\ total(g) \in F /\ total(h) \in F
  BY <1>2, TotalType
<1>6. sketch_of(x, r) \in [1..3 -> F]
  BY <1>4, <1>5
<1> QED
  BY <1>2, <1>4, <1>6 DEF f, g, h

\* Products of a sum.
LEMMA CongScaled ==
  ASSUME NEW a \in Int, NEW b \in Int, NEW c \in Int, NEW r \in Int, Cong(P, a + b, c)
  PROVE  Cong(P, a * r + b * r, c * r) /\ Cong(P, a * r * r + b * r * r, c * r * r)
<1>1. a + b \in Int /\ r * r \in Int /\ P \in Int
  BY Modulus
<1>2. Cong(P, (a + b) * r, c * r)
  BY <1>1, CongTimes
<1>3. Cong(P, (a + b) * (r * r), c * (r * r))
  BY <1>1, CongTimes
<1>4. (a + b) * r = a * r + b * r
  OBVIOUS
<1>5. (a + b) * (r * r) = a * r * r + b * r * r /\ c * (r * r) = c * r * r
  OBVIOUS
<1> QED
  BY <1>2, <1>3, <1>4, <1>5

\* The sketches of shares add up to the sketch of what is shared.
LEMMA SketchAdds ==
  ASSUME NEW n \in Nat, NEW x \in Values(n), NEW y \in Values(n), NEW z \in Values(n), NEW r \in [1..n -> Int],
         \A i \in 1..n : \A c \in 1..2 : Cong(P, x[i][c] + y[i][c], z[i][c])
  PROVE  \A c \in 1..3 : Cong(P, sketch_of(x, r)[c] + sketch_of(y, r)[c], sketch_of(z, r)[c])
<1>1. \A i \in 1..n : /\ x[i][1] \in Int /\ x[i][2] \in Int /\ y[i][1] \in Int /\ y[i][2] \in Int
                      /\ z[i][1] \in Int /\ z[i][2] \in Int /\ r[i] \in Int
                      /\ Cong(P, x[i][1] + y[i][1], z[i][1]) /\ Cong(P, x[i][2] + y[i][2], z[i][2])
  BY DEF Values
<1> DEFINE f(u) == Firsts(u, r, n)
           g(u) == Squares(u, r, n)
           h(u) == Seconds(u, r, n)
<1>2. /\ \A i \in 1..n : Cong(P, f(x)[i] + f(y)[i], f(z)[i])
      /\ \A i \in 1..n : Cong(P, g(x)[i] + g(y)[i], g(z)[i])
      /\ \A i \in 1..n : Cong(P, h(x)[i] + h(y)[i], h(z)[i])
  BY <1>1, CongScaled DEF Firsts, Squares, Seconds
<1>3. ASSUME NEW u \in Values(n)
      PROVE  /\ f(u) \in [1..n -> Int] /\ g(u) \in [1..n -> Int] /\ h(u) \in [1..n -> Int]
             /\ sketch_of(u, r)[1] = total(f(u)) /\ sketch_of(u, r)[2] = total(g(u))
             /\ sketch_of(u, r)[3] = total(h(u))
  BY SketchType
<1> HIDE DEF f, g, h
<1>4. /\ Cong(P, total(f(x)) + total(f(y)), total(f(z)))
      /\ Cong(P, total(g(x)) + total(g(y)), total(g(z)))
      /\ Cong(P, total(h(x)) + total(h(y)), total(h(z)))
  BY <1>2, <1>3, TotalAdds
<1>5. \A c \in 1..3 : c = 1 \/ c = 2 \/ c = 3
  OBVIOUS
<1> QED
  BY <1>3, <1>4, <1>5

\* The linear and the quadratic part: the offsets a, b and c cancel against A and B.
LEMMA Cancels ==
  ASSUME NEW abc \in [1..3 -> Int], NEW S \in [1..3 -> Int], NEW sum \in [1..3 -> Int], NEW k \in Int,
         NEW c0 \in [1..2 -> Int], NEW c1 \in [1..2 -> Int],
         Cong(P, c0[1] + c1[1], k - 2 * abc[1]),
         Cong(P, c0[2] + c1[2], abc[1] * abc[1] + abc[2] - abc[1] * k + abc[3]),
         \A i \in 1..3 : Cong(P, sum[i], abc[i] + S[i])
  PROVE  Cong(P, (c0[1] * sum[1] + c0[2]) + (c1[1] * sum[1] + c1[2] + sum[1] * sum[1] - sum[2] - sum[3]),
              S[1] * S[1] - S[2] + k * S[1] - S[3])
<1> DEFINE z == sum[1]
           w == sum[2]
           q == sum[3]
           a == abc[1]
           b == abc[2]
           c == abc[3]
           Z == S[1]
           W == S[2]
           Q == S[3]
           A0 == c0[1]
           B0 == c0[2]
           A1 == c1[1]
           B1 == c1[2]
<1>1. /\ z \in Int /\ w \in Int /\ q \in Int /\ a \in Int /\ b \in Int /\ c \in Int
      /\ Z \in Int /\ W \in Int /\ Q \in Int /\ A0 \in Int /\ B0 \in Int /\ A1 \in Int /\ B1 \in Int
  OBVIOUS
<1>2. Cong(P, z, a + Z) /\ Cong(P, w, b + W) /\ Cong(P, q, c + Q)
  OBVIOUS
<1>3. Cong(P, A0 + A1, k - 2 * a) /\ Cong(P, B0 + B1, a * a + b - a * k + c)
  OBVIOUS
<1> SUFFICES Cong(P, (A0 * z + B0) + (A1 * z + B1 + z * z - w - q), Z * Z - W + k * Z - Q)
  OBVIOUS
<1> HIDE DEF z, w, q, a, b, c, Z, W, Q, A0, B0, A1, B1
<1>4. P \in Int
  BY Modulus
<1> DEFINE s == A0 + A1
           t == k - 2 * a
           y == a + Z
           u == B0 + B1
           v == a * a + b - a * k + c
           m == b + W
           n == c + Q
<1>5. /\ s \in Int /\ t \in Int /\ y \in Int /\ u \in Int /\ v \in Int /\ m \in Int /\ n \in Int
      /\ Cong(P, s, t) /\ Cong(P, u, v) /\ Cong(P, z, y) /\ Cong(P, w, m) /\ Cong(P, q, n)
  BY <1>1, <1>2, <1>3
<1>6. (A0 * z + B0) + (A1 * z + B1 + z * z - w - q) = (((s * z + u) + z * z) - w) - q
  <2>1. (A0 + A1) * z = A0 * z + A1 * z
    BY <1>1
  <2> DEFINE e == A0 * z
             f == A1 * z
             g == z * z
  <2>2. e \in Int /\ f \in Int /\ g \in Int
    BY <1>1
  <2> HIDE DEF e, f, g
  <2>3. (e + B0) + (f + B1 + g - w - q) = ((((e + f) + (B0 + B1)) + g) - w) - q
    BY <1>1, <2>2
  <2> QED
    BY <2>1, <2>3 DEF e, f, g
<1>7. (((t * y + v) + y * y) - m) - n = Z * Z - W + k * Z - Q
  <2> DEFINE aa == a * a
             aZ == a * Z
             ak == a * k
             kZ == k * Z
             ZZ == Z * Z
  <2>1. aa \in Int /\ aZ \in Int /\ ak \in Int /\ kZ \in Int /\ ZZ \in Int
    BY <1>1
  <2>2. (k - 2 * a) * (a + Z) = ak + kZ - 2 * aa - 2 * aZ
    BY <1>1
  <2>3. (a + Z) * (a + Z) = aa + 2 * aZ + ZZ
    BY <1>1
  <2>4. v = aa + b - ak + c
    BY <1>1
  <2> HIDE DEF aa, aZ, ak, kZ, ZZ
  <2>5. ((((ak + kZ - 2 * aa - 2 * aZ) + (aa + b - ak + c)) + (aa + 2 * aZ + ZZ)) - (b + W)) - (c + Q)
          = ZZ - W + kZ - Q
    BY <1>1, <2>1
  <2> QED
    BY <2>2, <2>3, <2>4, <2>5 DEF kZ, ZZ
<1> HIDE DEF s, t, y, u, v, m, n
<1>8. Cong(P, s * z, t * y) /\ Cong(P, z * z, y * y)
  BY <1>1, <1>4, <1>5, CongProduct
<1> DEFINE sz == s * z
           ty == t * y
           zz == z * z
           yy == y * y
<1>9. sz \in Int /\ ty \in Int /\ zz \in Int /\ yy \in Int /\ Cong(P, sz, ty) /\ Cong(P, zz, yy)
  BY <1>1, <1>5, <1>8
<1> HIDE DEF sz, ty, zz, yy
<1>10. Cong(P, sz + u, ty + v)
  BY <1>4, <1>5, <1>9, CongSum
<1>11. Cong(P, (sz + u) + zz, (ty + v) + yy)
  BY <1>4, <1>5, <1>9, <1>10, CongSum
<1>12. Cong(P, ((sz + u) + zz) - w, ((ty + v) + yy) - m)
  BY <1>1, <1>4, <1>5, <1>9, <1>11, CongSum
<1>13. Cong(P, (((sz + u) + zz) - w) - q, (((ty + v) + yy) - m) - n)
  BY <1>1, <1>4, <1>5, <1>9, <1>12, CongSum
<1> QED
  BY <1>6, <1>7, <1>13 DEF sz, ty, zz, yy

-----------------------------------------------------------------------------
(* The shares of a job.                                                    *)

\* A job that the IDPF can be evaluated for, in a deployment that does not wrap.
Prepares(job) == StreamsOfTheField /\ NoWrap /\ IsJob(job) /\ LevelOf(job) < Bits

ValuesAt(job) == [i \in 1..Len(job.prefixes) |-> job.upload.values[job.prefixes[i]]]
KeyAt(job) == auth(job.upload.seeds, LevelOf(job))

\* The level of a job is one of the tree's.
LEMMA LevelType ==
  ASSUME NEW job, Prepares(job)
  PROVE  /\ LevelOf(job) \in 0..Bits - 1 /\ Len(job.prefixes) \in Nat /\ Len(job.prefixes) > 0
         /\ \A i \in 1..Len(job.prefixes) : job.prefixes[i] \in Prefix
<1> DEFINE ps == job.prefixes
           n == Len(ps)
           p == ps[1]
           top == 2^LevelWidth
<1>1. ps \in Seq(Seq({0, 1})) /\ ps # <<>> /\ \A i \in DOMAIN ps : Len(ps[i]) = Len(ps[1])
  BY DEF Prepares, IsJob, try_from_prefixes
<1>2. Len(p) \in 1..top
  BY DEF Prepares, IsJob, try_from_prefixes
<1> HIDE DEF top
<1> HIDE DEF ps
<1>3. n \in Nat /\ n > 0 /\ DOMAIN ps = 1..n /\ 1 \in 1..n
  BY <1>1
<1>4. \A i \in 1..n : ps[i] \in Seq({0, 1}) /\ Len(ps[i]) = Len(p)
  BY <1>1, <1>3
<1>5. Len(p) \in Nat /\ Len(p) >= 1
  BY <1>2, <1>3, <1>4
<1>6. LevelOf(job) = Len(p) - 1 /\ LevelOf(job) < Bits /\ Bits \in Nat
  BY ParameterAssumption DEF LevelOf, Level, ps, Prepares
<1>7. Len(p) \in 1..Bits /\ LevelOf(job) \in 0..Bits - 1
  BY <1>5, <1>6
<1>8. ASSUME NEW i \in 1..n
      PROVE  ps[i] \in Prefix
  <2>1. ps[i] \in [1..Len(p) -> {0, 1}]
    BY <1>4
  <2> QED
    BY <1>7, <2>1 DEF Prefix
<1> QED
  BY <1>3, <1>7, <1>8 DEF ps

\* The sketch is blinded with the offsets that the correlated randomness was made from.
LEMMA OffsetsAgree ==
  ASSUME NEW job, Prepares(job), NEW a \in {0, 1}
  PROVE  /\ sketch_offsets(a, job) = corr_offsets(a, job.upload.seeds, LevelOf(job))
         /\ sketch_offsets(a, job) \in [1..3 -> F]
<1>1. LevelOf(job) \in 0..Bits - 1 /\ Bits \in Nat
  BY LevelType, ParameterAssumption
<1>2. CASE LevelOf(job) < Bits - 1
  <2>1. LevelOf(job) \in 0..Bits - 2
    BY <1>1, <1>2
  <2>2. fast_forward(LevelOf(job)) = 3 * LevelOf(job)
    BY <2>1 DEF Prepares, NoWrap
  <2> QED
    BY <1>2, <2>2 DEF sketch_offsets, corr_offsets, Prepares, StreamsOfTheField
<1>3. CASE ~(LevelOf(job) < Bits - 1)
  BY <1>3 DEF sketch_offsets, corr_offsets, Prepares, StreamsOfTheField
<1> QED
  BY <1>2, <1>3

\* The shares of the values are field elements, and add up to the values.
LEMMA EvalsAddUp ==
  ASSUME NEW job, Prepares(job), NEW n, n = Len(job.prefixes)
  PROVE  /\ eval_at(0, job) \in [1..n -> [1..2 -> F]] /\ eval_at(1, job) \in [1..n -> [1..2 -> F]]
         /\ ValuesAt(job) \in [1..n -> [1..2 -> F]]
         /\ \A i \in 1..n : \A c \in 1..2 :
                Cong(P, eval_at(0, job)[i][c] + eval_at(1, job)[i][c], ValuesAt(job)[i][c])
<1>1. n \in Nat /\ \A i \in 1..n : job.prefixes[i] \in Prefix
  BY LevelType
<1>2. \A p \in Prefix : job.upload.values[p] \in [1..2 -> F]
  BY DEF Prepares, IsJob
<1>3. ValuesAt(job) \in [1..n -> [1..2 -> F]]
  BY <1>1, <1>2 DEF ValuesAt
<1>4. ASSUME NEW i \in 1..n
      PROVE  /\ eval_at(0, job)[i] \in [1..2 -> F] /\ eval_at(1, job)[i] \in [1..2 -> F]
             /\ \A c \in 1..2 : Cong(P, eval_at(0, job)[i][c] + eval_at(1, job)[i][c], ValuesAt(job)[i][c])
  <2> DEFINE p == job.prefixes[i]
             v == job.upload.values[p]
             mask == [c \in 1..2 |-> Xof(job.upload.seeds.idpf, <<"idpf">> \o p, c)]
             rest == [c \in 1..2 |-> (v[c] - mask[c]) % P]
  <2>1. eval_at(0, job)[i] = mask /\ eval_at(1, job)[i] = rest /\ ValuesAt(job)[i] = v
    <3>1. eval_at(0, job)[i] = mask
      BY DEF eval_at, idpf_eval
    <3>2. eval_at(1, job)[i] = rest
      <4>1. eval_at(1, job)[i] = idpf_eval(1, job.upload, p)
        BY DEF eval_at
      <4>2. idpf_eval(1, job.upload, p) = rest
        BY DEF idpf_eval
      <4> QED
        BY <4>1, <4>2
    <3>3. ValuesAt(job)[i] = v
      BY DEF ValuesAt
    <3> QED
      BY <3>1, <3>2, <3>3
  <2>2. v \in [1..2 -> F]
    BY <1>1, <1>2
  <2>3. mask \in [1..2 -> F]
    BY DEF Prepares, StreamsOfTheField
  <2> HIDE DEF v, mask
  <2>4. ASSUME NEW c \in 1..2
        PROVE  rest[c] \in F /\ Cong(P, mask[c] + rest[c], v[c])
    <3> DEFINE x == v[c]
               y == mask[c]
               z == (x - y) % P
    <3>1. x \in Int /\ y \in Int /\ x - y \in Int
      <4>1. x \in F /\ y \in F
        BY <2>2, <2>3
      <4> HIDE DEF x, y
      <4> QED
        BY <4>1, Modulus
    <3>2. z \in F /\ z \in Int /\ Cong(P, z, x - y)
      BY <3>1, Reduced
    <3>3. rest[c] = z
      OBVIOUS
    <3> HIDE DEF x, y, z
    <3>4. Cong(P, y, y)
      BY <3>1, Modulus, CongRefl
    <3>5. Cong(P, y + z, y + (x - y))
      BY <3>1, <3>2, <3>4, Modulus, CongSum
    <3>6. y + (x - y) = x
      BY <3>1
    <3> QED
      BY <3>2, <3>3, <3>5, <3>6 DEF x, y
  <2>5. rest \in [1..2 -> F]
    BY <2>4
  <2> QED
    BY <2>1, <2>3, <2>4, <2>5
<1>5. eval_at(0, job) \in [1..n -> [1..2 -> F]] /\ eval_at(1, job) \in [1..n -> [1..2 -> F]]
  <2>1. /\ eval_at(0, job) = [i \in 1..n |-> eval_at(0, job)[i]]
        /\ eval_at(1, job) = [i \in 1..n |-> eval_at(1, job)[i]]
    BY DEF eval_at
  <2> QED
    BY <1>4, <2>1
<1> QED
  BY <1>3, <1>4, <1>5

\* The sum of the sketch shares is the sketch of the values, blinded by the offsets.
LEMMA SketchIsBlinded ==
  ASSUME NEW job, Prepares(job), NEW abc, NEW S, NEW e0, NEW e1,
         abc = merge_vector(corr_offsets(0, job.upload.seeds, LevelOf(job)),
                            corr_offsets(1, job.upload.seeds, LevelOf(job))),
         S = sketch_of(ValuesAt(job), verify_rand(job)),
         e0 = eval_and_sketch(0, job).sketch, e1 = eval_and_sketch(1, job).sketch
  PROVE  /\ abc \in [1..3 -> F] /\ S \in [1..3 -> F] /\ e0 \in [1..3 -> F] /\ e1 \in [1..3 -> F]
         /\ \A c \in 1..3 : Cong(P, (e0[c] + e1[c]) % P, abc[c] + S[c])
<1> DEFINE n == Len(job.prefixes)
           r == verify_rand(job)
           x == eval_at(0, job)
           y == eval_at(1, job)
           z == ValuesAt(job)
           o == sketch_offsets(0, job)
           q == sketch_offsets(1, job)
           s == sketch_of(x, r)
           t == sketch_of(y, r)
<1>1. n \in Nat
  BY LevelType
<1>2. r \in [1..n -> Int]
  BY Modulus DEF verify_rand, Prepares, StreamsOfTheField
<1>3. /\ x \in [1..n -> [1..2 -> F]] /\ y \in [1..n -> [1..2 -> F]] /\ z \in [1..n -> [1..2 -> F]]
      /\ \A i \in 1..n : \A c \in 1..2 : Cong(P, x[i][c] + y[i][c], z[i][c])
  BY EvalsAddUp
<1>4. o \in [1..3 -> F] /\ q \in [1..3 -> F] /\ abc = merge_vector(o, q)
  BY OffsetsAgree
<1>5. e0 = merge_vector(o, s) /\ e1 = merge_vector(q, t)
  BY DEF eval_and_sketch
<1> HIDE DEF n, r, x, y, z, o, q
<1>6. x \in Values(n) /\ y \in Values(n) /\ z \in Values(n)
  BY <1>3, Modulus DEF Values
<1>7. S = sketch_of(z, r)
  BY DEF z, r
<1>8. s \in [1..3 -> F] /\ t \in [1..3 -> F] /\ S \in [1..3 -> F]
  BY <1>1, <1>2, <1>6, <1>7, SketchType
<1>9. \A c \in 1..3 : Cong(P, s[c] + t[c], S[c])
  BY <1>1, <1>2, <1>3, <1>6, <1>7, SketchAdds
<1> HIDE DEF s, t
<1>10. \A u \in [1..3 -> F] : u \in [1..3 -> Int]
  BY Modulus
<1>11. /\ abc \in [1..3 -> F] /\ e0 \in [1..3 -> F] /\ e1 \in [1..3 -> F]
       /\ \A c \in 1..3 : /\ abc[c] = (o[c] + q[c]) % P
                           /\ e0[c] = (o[c] + s[c]) % P
                           /\ e1[c] = (q[c] + t[c]) % P
  <2>1. ASSUME NEW u \in [1..3 -> F], NEW v \in [1..3 -> F]
        PROVE  /\ merge_vector(u, v) \in [1..3 -> F]
               /\ \A c \in 1..3 : merge_vector(u, v)[c] = (u[c] + v[c]) % P
    <3>1. 3 \in Nat
      OBVIOUS
    <3> QED
      BY <3>1, MergedElements
  <2>2. abc \in [1..3 -> F] /\ \A c \in 1..3 : abc[c] = (o[c] + q[c]) % P
    BY <1>4, <2>1
  <2>3. e0 \in [1..3 -> F] /\ \A c \in 1..3 : e0[c] = (o[c] + s[c]) % P
    BY <1>4, <1>5, <1>8, <2>1
  <2>4. e1 \in [1..3 -> F] /\ \A c \in 1..3 : e1[c] = (q[c] + t[c]) % P
    BY <1>4, <1>5, <1>8, <2>1
  <2> QED
    BY <2>2, <2>3, <2>4
<1>12. ASSUME NEW c \in 1..3
       PROVE  Cong(P, (e0[c] + e1[c]) % P, abc[c] + S[c])
  <2> DEFINE a == o[c]
             b == q[c]
             d == s[c]
             f == t[c]
             g == S[c]
             h == (a + d) % P
             k == (b + f) % P
             l == (a + b) % P
  <2>1. a \in Int /\ b \in Int /\ d \in Int /\ f \in Int /\ g \in Int
    BY <1>4, <1>8, <1>10
  <2>2. e0[c] = h /\ e1[c] = k /\ abc[c] = l /\ Cong(P, d + f, g)
    BY <1>9, <1>11
  <2> HIDE DEF a, b, d, f, g
  <2>3. /\ h \in Int /\ k \in Int /\ l \in Int /\ Cong(P, h, a + d) /\ Cong(P, k, b + f)
        /\ Cong(P, a + b, l)
    BY <2>1, Reduced
  <2> HIDE DEF h, k, l
  <2>4. (h + k) % P \in Int /\ Cong(P, (h + k) % P, h + k)
    BY <2>3, Reduced
  <2> DEFINE m == (h + k) % P
  <2> HIDE DEF m
  <2>5. m \in Int /\ Cong(P, m, h + k)
    BY <2>4 DEF m
  <2>6. Cong(P, h + k, (a + d) + (b + f))
    BY <2>1, <2>3, Modulus, CongSum
  <2>7. Cong(P, (a + b) + (d + f), l + g)
    BY <2>1, <2>2, <2>3, Modulus, CongSum
  <2>8. (a + d) + (b + f) = (a + b) + (d + f)
    BY <2>1
  <2>9. Cong(P, h + k, l + g)
    BY <2>1, <2>3, <2>6, <2>7, <2>8, Modulus, CongTrans
  <2>10. Cong(P, m, l + g)
    BY <2>1, <2>3, <2>5, <2>9, Modulus, CongTrans
  <2> QED
    BY <2>2, <2>10 DEF m, g
<1> QED
  BY <1>8, <1>11, <1>12

\* The correlated randomness of a job is shares of A and B.
LEMMA CorrAddsUp ==
  ASSUME NEW job, Prepares(job), NEW abc, NEW corr,
         abc = merge_vector(corr_offsets(0, job.upload.seeds, LevelOf(job)),
                            corr_offsets(1, job.upload.seeds, LevelOf(job))),
         abc \in [1..3 -> F], corr = job.upload.corr[LevelOf(job)]
  PROVE  /\ KeyAt(job) \in Int
         /\ \A a \in 1..2 : corr[a][1] \in F /\ corr[a][2] \in F
         /\ Cong(P, corr[1][1] + corr[2][1], KeyAt(job) - 2 * abc[1])
         /\ Cong(P, corr[1][2] + corr[2][2],
                 abc[1] * abc[1] + abc[2] - abc[1] * KeyAt(job) + abc[3])
<1> DEFINE seeds == job.upload.seeds
           level == LevelOf(job)
           k == KeyAt(job)
           a == abc[1]
           b == abc[2]
           c == abc[3]
           A == (k - 2 * a) % P
           B == (a * a + b - a * k + c) % P
           d == Xof(seeds.shard, <<"shard">>, Bits + 2 * level + 1)
           e == Xof(seeds.shard, <<"shard">>, Bits + 2 * level + 2)
<1>1. corr = compute_next_corr_shares(seeds, level)
  BY DEF Prepares, IsJob
<1>2. /\ corr[1][1] = (A - d) % P /\ corr[1][2] = (B - e) % P
      /\ corr[2][1] = d /\ corr[2][2] = e
  <2> DEFINE corr_1 == [i \in 1..2 |-> Xof(seeds.shard, <<"shard">>, Bits + 2 * level + i)]
  <2>1. corr = <<[i \in 1..2 |-> (<<A, B>>[i] - corr_1[i]) % P], corr_1>>
    BY <1>1 DEF compute_next_corr_shares, KeyAt
  <2>2. corr_1[1] = d /\ corr_1[2] = e
    OBVIOUS
  <2> HIDE DEF A, B, corr_1
  <2>3. corr[1] = [i \in 1..2 |-> (<<A, B>>[i] - corr_1[i]) % P] /\ corr[2] = corr_1
    BY <2>1
  <2>4. 1 \in 1..2 /\ 2 \in 1..2 /\ <<A, B>>[1] = A /\ <<A, B>>[2] = B
    OBVIOUS
  <2> QED
    BY <2>2, <2>3, <2>4
<1>3. k \in F /\ d \in F /\ e \in F
  BY DEF KeyAt, auth, Prepares, StreamsOfTheField
<1>4. a \in F /\ b \in F /\ c \in F
  OBVIOUS
<1> HIDE DEF k, a, b, c, d, e
<1>5. k \in Int /\ d \in Int /\ e \in Int /\ a \in Int /\ b \in Int /\ c \in Int
  BY <1>3, <1>4, Modulus
<1> DEFINE m == k - 2 * a
           n == a * a + b - a * k + c
<1>6. m \in Int /\ n \in Int
  BY <1>5
<1> HIDE DEF m, n
<1>7. A \in Int /\ B \in Int /\ Cong(P, A, m) /\ Cong(P, B, n)
  BY <1>6, Reduced DEF m, n
<1> HIDE DEF A, B
<1>8. ASSUME NEW x \in Int, NEW y \in Int, NEW z \in Int, Cong(P, x, y)
      PROVE  (x - z) % P \in F /\ Cong(P, ((x - z) % P) + z, y)
  <2> DEFINE w == (x - z) % P
  <2>1. w \in F /\ w \in Int /\ Cong(P, w, x - z)
    BY <1>8, Reduced
  <2> HIDE DEF w
  <2>2. Cong(P, z, z)
    BY Modulus, CongRefl
  <2>3. Cong(P, w + z, (x - z) + z)
    BY <2>1, <2>2, Modulus, CongSum
  <2>4. (x - z) + z = x
    OBVIOUS
  <2>5. Cong(P, w + z, y)
    BY <1>8, <2>1, <2>3, <2>4, Modulus, CongTrans
  <2> QED
    BY <2>1, <2>5 DEF w
<1>9. /\ (A - d) % P \in F /\ Cong(P, ((A - d) % P) + d, m)
      /\ (B - e) % P \in F /\ Cong(P, ((B - e) % P) + e, n)
  BY <1>5, <1>6, <1>7, <1>8
<1>10. \A i \in 1..2 : i = 1 \/ i = 2
  OBVIOUS
<1> QED
  BY <1>2, <1>3, <1>5, <1>9, <1>10 DEF m, n, k, a, b, c

-----------------------------------------------------------------------------
(* The verifiers, and the driver's turns.                                  *)

KindOf(job) == IF LevelOf(job) < Bits - 1 THEN "Inner" ELSE "Leaf"
FirstState(a, job) == prepare_init(a, job).state
SketchOfBoth(job) == merge_vector(eval_and_sketch(0, job).sketch, eval_and_sketch(1, job).sketch)
VerifierOf(a, job) == finish_sketch(SketchOfBoth(job), FirstState(a, job))

\* What preparation begins with.
LEMMA Initialized ==
  ASSUME NEW job, Prepares(job), NEW a \in {0, 1}
  PROVE  /\ prepare_init(a, job).ok
         /\ prepare_init(a, job).share = [kind |-> KindOf(job), elems |-> eval_and_sketch(a, job).sketch]
         /\ FirstState(a, job).kind = KindOf(job) /\ FirstState(a, job).round = 1
         /\ FirstState(a, job).A = job.upload.corr[LevelOf(job)][a + 1][1]
         /\ FirstState(a, job).B = job.upload.corr[LevelOf(job)][a + 1][2]
         /\ FirstState(a, job).is_leader <=> a = 0
         /\ FirstState(a, job).out = eval_and_sketch(a, job).out
<1>1. ~(LevelOf(job) >= Bits)
  BY LevelType, ParameterAssumption DEF Prepares
<1>2. prepare_init(a, job).ok
  BY <1>1 DEF prepare_init
<1>3. prepare_init(a, job).share = [kind |-> KindOf(job), elems |-> eval_and_sketch(a, job).sketch]
  BY <1>1 DEF prepare_init, KindOf, FieldVec
<1> DEFINE A == job.upload.corr[LevelOf(job)][a + 1][1]
           B == job.upload.corr[LevelOf(job)][a + 1][2]
           out == eval_and_sketch(a, job).out
           leads == a = 0
           kind == KindOf(job)
<1>4. FirstState(a, job) = [kind |-> kind, round |-> 1, A |-> A, B |-> B, is_leader |-> leads, out |-> out]
  BY <1>1 DEF prepare_init, FirstState, KindOf
<1> HIDE DEF A, B, out, leads, kind
<1>5. /\ FirstState(a, job).kind = kind /\ FirstState(a, job).round = 1
      /\ FirstState(a, job).A = A /\ FirstState(a, job).B = B
      /\ FirstState(a, job).is_leader = leads /\ FirstState(a, job).out = out
  BY <1>4
<1> QED
  BY <1>2, <1>3, <1>5 DEF A, B, out, leads, kind

\* The verifiers add up to zero when the sketch of the values holds, and only then.
LEMMA VerifiersDecide ==
  ASSUME NEW job, Prepares(job)
  PROVE  /\ eval_and_sketch(0, job).sketch \in [1..3 -> F] /\ eval_and_sketch(1, job).sketch \in [1..3 -> F]
         /\ SketchOfBoth(job) \in [1..3 -> F]
         /\ VerifierOf(0, job) \in [1..1 -> F] /\ VerifierOf(1, job) \in [1..1 -> F]
         /\ (VerifierOf(0, job)[1] + VerifierOf(1, job)[1]) % P = 0 <=> SketchHolds(job)
<1> DEFINE level == LevelOf(job)
           abc == merge_vector(corr_offsets(0, job.upload.seeds, level), corr_offsets(1, job.upload.seeds, level))
           S == sketch_of(ValuesAt(job), verify_rand(job))
           e0 == eval_and_sketch(0, job).sketch
           e1 == eval_and_sketch(1, job).sketch
           sum == SketchOfBoth(job)
           corr == job.upload.corr[level]
           k == KeyAt(job)
<1>1. /\ abc \in [1..3 -> F] /\ S \in [1..3 -> F] /\ e0 \in [1..3 -> F] /\ e1 \in [1..3 -> F]
      /\ \A c \in 1..3 : Cong(P, (e0[c] + e1[c]) % P, abc[c] + S[c])
  BY SketchIsBlinded
<1>2. /\ k \in Int
      /\ \A a \in 1..2 : corr[a][1] \in F /\ corr[a][2] \in F
      /\ Cong(P, corr[1][1] + corr[2][1], k - 2 * abc[1])
      /\ Cong(P, corr[1][2] + corr[2][2], abc[1] * abc[1] + abc[2] - abc[1] * k + abc[3])
  BY <1>1, CorrAddsUp
<1>3. SketchHolds(job) <=> (S[1] * S[1] - S[2] + k * S[1] - S[3]) % P = 0
  BY DEF SketchHolds, ValuesAt, KeyAt
<1>4. sum = merge_vector(e0, e1)
  BY DEF SketchOfBoth
<1>5. /\ VerifierOf(0, job) = <<(corr[1][1] * sum[1] + corr[1][2]) % P>>
      /\ VerifierOf(1, job) = <<(corr[2][1] * sum[1] + corr[2][2] + sum[1] * sum[1] - sum[2] - sum[3]) % P>>
  <2>1. /\ FirstState(0, job).A = corr[1][1] /\ FirstState(0, job).B = corr[1][2] /\ FirstState(0, job).is_leader
        /\ FirstState(1, job).A = corr[2][1] /\ FirstState(1, job).B = corr[2][2] /\ ~FirstState(1, job).is_leader
    <3>1. ASSUME NEW a \in {0, 1}
          PROVE  /\ FirstState(a, job).A = corr[a + 1][1] /\ FirstState(a, job).B = corr[a + 1][2]
                 /\ FirstState(a, job).is_leader <=> a = 0
      BY Initialized
    <3>2. 0 + 1 = 1 /\ 1 + 1 = 2 /\ 0 \in {0, 1} /\ 1 \in {0, 1} /\ 0 # 1
      OBVIOUS
    <3> HIDE DEF corr
    <3> QED
      BY <3>1, <3>2
  <2> HIDE DEF corr
  <2> QED
    BY <2>1 DEF VerifierOf, finish_sketch
<1> HIDE DEF abc, S, e0, e1, sum, corr, k
<1>6. sum \in [1..3 -> F] /\ \A c \in 1..3 : sum[c] = (e0[c] + e1[c]) % P
  <2>1. 3 \in Nat
    OBVIOUS
  <2>2. ASSUME NEW x \in [1..3 -> F], NEW y \in [1..3 -> F]
        PROVE  /\ merge_vector(x, y) \in [1..3 -> F]
               /\ \A c \in 1..3 : merge_vector(x, y)[c] = (x[c] + y[c]) % P
    BY <2>1, MergedElements
  <2> QED
    BY <1>1, <1>4, <2>2
<1> DEFINE v0 == corr[1][1] * sum[1] + corr[1][2]
           v1 == corr[2][1] * sum[1] + corr[2][2] + sum[1] * sum[1] - sum[2] - sum[3]
           d == S[1] * S[1] - S[2] + k * S[1] - S[3]
           c0 == [i \in 1..2 |-> corr[1][i]]
           c1 == [i \in 1..2 |-> corr[2][i]]
<1>7. /\ abc \in [1..3 -> Int] /\ S \in [1..3 -> Int] /\ sum \in [1..3 -> Int]
      /\ c0 \in [1..2 -> Int] /\ c1 \in [1..2 -> Int]
  <2>1. \A i \in 1..2 : i = 1 \/ i = 2
    OBVIOUS
  <2>2. \A i \in 1..2 : corr[1][i] \in Int /\ corr[2][i] \in Int
    <3>1. 1 \in 1..2 /\ 2 \in 1..2
      OBVIOUS
    <3>2. corr[1][1] \in F /\ corr[1][2] \in F /\ corr[2][1] \in F /\ corr[2][2] \in F
      BY <1>2, <3>1
    <3>3. corr[1][1] \in Int /\ corr[1][2] \in Int /\ corr[2][1] \in Int /\ corr[2][2] \in Int
      BY <3>2, Modulus
    <3> QED
      BY <2>1, <3>3
  <2> QED
    BY <1>1, <1>6, <2>2, Modulus
<1>8. c0[1] = corr[1][1] /\ c0[2] = corr[1][2] /\ c1[1] = corr[2][1] /\ c1[2] = corr[2][2]
  OBVIOUS
<1> HIDE DEF c0, c1
<1>9. \A i \in 1..3 : Cong(P, sum[i], abc[i] + S[i])
  BY <1>1, <1>6
<1>10. /\ Cong(P, c0[1] + c1[1], k - 2 * abc[1])
       /\ Cong(P, c0[2] + c1[2], abc[1] * abc[1] + abc[2] - abc[1] * k + abc[3])
  BY <1>2, <1>8
<1>11. Cong(P, (c0[1] * sum[1] + c0[2]) + (c1[1] * sum[1] + c1[2] + sum[1] * sum[1] - sum[2] - sum[3]), d)
  BY <1>2, <1>7, <1>9, <1>10, Cancels
<1>12. Cong(P, v0 + v1, d)
  BY <1>8, <1>11
<1>13. v0 \in Int /\ v1 \in Int /\ d \in Int
  <2>1. /\ c0[1] \in Int /\ c0[2] \in Int /\ c1[1] \in Int /\ c1[2] \in Int
        /\ sum[1] \in Int /\ sum[2] \in Int /\ sum[3] \in Int /\ S[1] \in Int /\ S[2] \in Int /\ S[3] \in Int
    BY <1>7
  <2> QED
    BY <1>2, <1>8, <2>1
<1> HIDE DEF v0, v1, d
<1>14. v0 % P \in F /\ v1 % P \in F /\ v0 % P \in Int /\ v1 % P \in Int
       /\ Cong(P, v0 % P, v0) /\ Cong(P, v1 % P, v1)
  BY <1>13, Reduced
<1> DEFINE y0 == v0 % P
           y1 == v1 % P
<1>15. VerifierOf(0, job) = <<y0>> /\ VerifierOf(1, job) = <<y1>>
  BY <1>5 DEF v0, v1
<1>16. y0 \in F /\ y1 \in F /\ y0 \in Int /\ y1 \in Int /\ Cong(P, y0, v0) /\ Cong(P, y1, v1)
  BY <1>14
<1> HIDE DEF y0, y1
<1>17. Cong(P, y0 + y1, v0 + v1)
  BY <1>13, <1>16, Modulus, CongSum
<1>18. Cong(P, y0 + y1, d)
  BY <1>12, <1>13, <1>16, <1>17, Modulus, CongTrans
<1>19. (y0 + y1) % P = d % P
  <2> DEFINE e == y0 + y1
  <2>1. e \in Int /\ Cong(P, e, d)
    BY <1>16, <1>18
  <2> HIDE DEF e
  <2>2. e % P = d % P
    BY <1>13, <2>1, Modulus, CongSame
  <2> QED
    BY <2>2 DEF e
<1>20. (y0 + y1) % P = 0 <=> SketchHolds(job)
  BY <1>3, <1>19 DEF d
<1>21. /\ VerifierOf(0, job) \in [1..1 -> F] /\ VerifierOf(1, job) \in [1..1 -> F]
       /\ VerifierOf(0, job)[1] = y0 /\ VerifierOf(1, job)[1] = y1
  BY <1>15, <1>16
<1> QED
  BY <1>1, <1>6, <1>20, <1>21 DEF e0, e1, sum

\* A vector is a sequence.
LEMMA VectorIsSeq == ASSUME NEW n \in Nat, NEW x \in [1..n -> F] PROVE x \in Seq(F) /\ Len(x) = n
OBVIOUS

\* Three elements each are the sketch.
LEMMA CombinesSketches ==
  ASSUME NEW kind, NEW x \in [1..3 -> F], NEW y \in [1..3 -> F], NEW l, NEW h,
         l = [kind |-> kind, elems |-> x], h = [kind |-> kind, elems |-> y]
  PROVE  prepare_shares_to_prepare_message(l, h)
            = [ok |-> TRUE, msg |-> [kind |-> kind, sketch |-> merge_vector(x, y)]]
<1>1. 3 \in Nat
  OBVIOUS
<1> DEFINE m == merge_vector(x, y)
<1>2. m \in [1..3 -> F]
  BY <1>1, MergedElements
<1> HIDE DEF m
<1>3. Len(x) = 3 /\ Len(y) = 3 /\ Len(m) = 3
  BY <1>2
<1>4. l.kind = kind /\ h.kind = kind /\ l.elems = x /\ h.elems = y
  OBVIOUS
<1>5. merge_vector(l.elems, h.elems) = m
  BY <1>4 DEF m
<1>6. prepare_shares_to_prepare_message(l, h) = [ok |-> TRUE, msg |-> [kind |-> l.kind, sketch |-> m]]
  BY <1>3, <1>4, <1>5 DEF prepare_shares_to_prepare_message
<1> QED
  BY <1>4, <1>6 DEF m

\* One element each are the verifiers, whose sum has to be zero.
LEMMA CombinesVerifiers ==
  ASSUME NEW kind, NEW x \in [1..1 -> F], NEW y \in [1..1 -> F], NEW l, NEW h,
         l = [kind |-> kind, elems |-> x], h = [kind |-> kind, elems |-> y]
  PROVE  /\ (x[1] + y[1]) % P = 0 =>
                prepare_shares_to_prepare_message(l, h) = [ok |-> TRUE, msg |-> [kind |-> "Done"]]
         /\ (x[1] + y[1]) % P # 0 => prepare_shares_to_prepare_message(l, h) = [ok |-> FALSE]
<1>1. 1 \in Nat /\ 1 \in 1..1
  OBVIOUS
<1> DEFINE m == merge_vector(x, y)
<1>2. m \in [1..1 -> F] /\ m[1] = (x[1] + y[1]) % P
  BY <1>1, MergedElements
<1> HIDE DEF m
<1>3. Len(x) = 1 /\ Len(y) = 1 /\ Len(m) = 1
  BY <1>1, <1>2, VectorIsSeq
<1>4. l.kind = kind /\ h.kind = kind /\ l.elems = x /\ h.elems = y
  OBVIOUS
<1>5. merge_vector(l.elems, h.elems) = m
  BY <1>4 DEF m
<1>6. m = <<0>> <=> m[1] = 0
  <2>1. m = [i \in 1..1 |-> m[i]] /\ <<0>> = [i \in 1..1 |-> 0]
    BY <1>2
  <2>2. m[1] = 0 => \A i \in 1..1 : m[i] = 0
    OBVIOUS
  <2>3. m[1] = 0 => m = <<0>>
    BY <2>1, <2>2
  <2>4. m = <<0>> => m[1] = 0
    OBVIOUS
  <2> QED
    BY <2>3, <2>4
<1>7. prepare_shares_to_prepare_message(l, h) =
        IF m = <<0>> THEN [ok |-> TRUE, msg |-> [kind |-> "Done"]] ELSE [ok |-> FALSE]
  <2>1. prepare_shares_to_prepare_message(l, h) =
          IF kind # kind \/ 1 # 1 THEN [ok |-> FALSE]
          ELSE IF 1 = 3 THEN [ok |-> TRUE, msg |-> [kind |-> kind, sketch |-> m]]
          ELSE IF m = <<0>> THEN [ok |-> TRUE, msg |-> [kind |-> "Done"]] ELSE [ok |-> FALSE]
    BY <1>3, <1>4, <1>5 DEF prepare_shares_to_prepare_message
  <2> QED
    BY <2>1
<1> QED
  BY <1>2, <1>6, <1>7

\* The outcome of a job: the output shares, or nothing.
OutOf(a, job) == [kind |-> KindOf(job), elems |-> eval_and_sketch(a, job).out]

\* The driver's first turn combines the sketch, in the second one the verifiers decide.
LEMMA DriverDecides ==
  ASSUME RunsPoplar1, NEW rep \in Reports, NEW job, job = job_of(rep), Prepares(job)
  PROVE  /\ SketchHolds(job) => \A a \in Agg : run_vdaf_prepare(rep)[a] = <<OutOf(a, job)>>
         /\ ~SketchHolds(job) => run_vdaf_prepare(rep) = nobody
<1> DEFINE kind == KindOf(job)
           x(a) == eval_and_sketch(a, job).sketch
           t0 == turns(rep)[0]
           t1 == turns(rep)[1]
           share(a) == [kind |-> kind, elems |-> x(a)]
           second(a) == [kind |-> kind, elems |-> VerifierOf(a, job)]
           sum == SketchOfBoth(job)
<1>1. /\ Agg = {0, 1} /\ Leader = 0 /\ Helper = 1 /\ Rounds = 2 /\ kind # "Done"
      /\ 0 \in 0..Rounds /\ 1 \in 0..Rounds /\ 0 + 1 = 1
  BY DEF Agg, Leader, Helper, RunsPoplar1, KindOf
<1>2. ASSUME NEW a \in Agg
      PROVE  /\ vdaf_prepare_init(a, rep).ok /\ vdaf_prepare_init(a, rep).share = share(a)
             /\ vdaf_prepare_init(a, rep).state = FirstState(a, job)
             /\ share(a) \in VdafPrepShare /\ FirstState(a, job) \in VdafPrepState(a)
  <2>1. vdaf_prepare_init(a, rep) = prepare_init(a, job)
    BY DEF RunsPoplar1
  <2>2. prepare_init(a, job).ok /\ prepare_init(a, job).share = share(a)
    BY <1>1, Initialized
  <2>3. prepare_init(a, job).state = FirstState(a, job)
    BY DEF FirstState
  <2> QED
    BY <2>1, <2>2, <2>3, InitContract
<1>3. /\ t0.running
      /\ \A a \in Agg : t0.states[a] = FirstState(a, job) /\ t0.outbound[a] = share(a)
  BY <1>2, Entered
<1>4. vdaf_combine(share(Leader), share(Helper)) = [ok |-> TRUE, msg |-> [kind |-> kind, sketch |-> sum]]
  <2>1. x(0) \in [1..3 -> F] /\ x(1) \in [1..3 -> F] /\ sum = merge_vector(x(0), x(1))
    BY VerifiersDecide DEF SketchOfBoth
  <2>2. share(Leader) \in VdafPrepShare /\ share(Helper) \in VdafPrepShare
    BY <1>1, <1>2
  <2>3. vdaf_combine(share(Leader), share(Helper)) = prepare_shares_to_prepare_message(share(Leader), share(Helper))
    BY <2>2 DEF RunsPoplar1
  <2>4. share(Leader) = share(0) /\ share(Helper) = share(1)
    BY <1>1
  <2> DEFINE u == x(0)
             v == x(1)
  <2>5. share(0) = [kind |-> kind, elems |-> u] /\ share(1) = [kind |-> kind, elems |-> v]
    OBVIOUS
  <2>6. u \in [1..3 -> F] /\ v \in [1..3 -> F] /\ sum = merge_vector(u, v)
    BY <2>1
  <2> HIDE DEF u, v, share, sum, kind
  <2>7. prepare_shares_to_prepare_message(share(0), share(1))
          = [ok |-> TRUE, msg |-> [kind |-> kind, sketch |-> merge_vector(u, v)]]
    BY <2>5, <2>6, CombinesSketches
  <2> QED
    BY <2>3, <2>4, <2>6, <2>7
<1> DEFINE m0 == [kind |-> kind, sketch |-> sum]
<1>5. Combined(t0) /\ inbound(t0) = m0 /\ m0 \in VdafPrepMsg
  <2>1. t0.outbound[Leader] = share(Leader) /\ t0.outbound[Helper] = share(Helper)
        /\ share(Leader) \in VdafPrepShare /\ share(Helper) \in VdafPrepShare
    BY <1>2, <1>3, Both
  <2> HIDE DEF t0, share, sum, kind
  <2>2. vdaf_combine(share(Leader), share(Helper)).ok /\ vdaf_combine(share(Leader), share(Helper)).msg = m0
    BY <1>4
  <2> QED
    BY <2>1, <2>2, CombineContract DEF Combined, inbound
<1>6. ASSUME NEW a \in Agg
      PROVE  /\ advance(t0, a).tag = "Continue" /\ advance(t0, a).share = second(a)
             /\ advance(t0, a).state = [kind |-> kind, round |-> 2, out |-> eval_and_sketch(a, job).out]
  <2> DEFINE s == FirstState(a, job)
  <2>1. advance(t0, a) = vdaf_prepare_next(s, m0) /\ s \in VdafPrepState(a)
    BY <1>2, <1>3, <1>5 DEF advance
  <2>2. advance(t0, a) = prepare_next(s, m0)
    BY <1>5, <2>1 DEF RunsPoplar1
  <2>3. s.kind = kind /\ s.round = 1 /\ s.out = eval_and_sketch(a, job).out
    BY <1>1, Initialized
  <2>4. m0.kind = kind /\ m0.sketch = sum
    OBVIOUS
  <2>5. VerifierOf(a, job) = finish_sketch(sum, s)
    BY DEF VerifierOf
  <2> HIDE DEF s, m0, sum, kind, t0
  <2> QED
    BY <2>2, <2>3, <2>4, <2>5 DEF prepare_next, RoundTwo, FieldVec
<1>7. /\ t1.running
      /\ \A a \in Agg : /\ t1.states[a] = [kind |-> kind, round |-> 2, out |-> eval_and_sketch(a, job).out]
                        /\ t1.outbound[a] = second(a)
  <2>1. /\ turns(rep)[0 + 1].running
        /\ \A a \in Agg : /\ turns(rep)[0 + 1].states[a] = advance(t0, a).state
                          /\ turns(rep)[0 + 1].outbound[a] = advance(t0, a).share
    <3> HIDE DEF second, kind
    <3>1. \A a \in Agg : advance(t0, a).tag = "Continue"
      BY <1>6
    <3> QED
      BY <1>1, <1>3, <1>5, <3>1, Turned
  <2> HIDE DEF second, kind
  <2> QED
    BY <1>1, <1>6, <2>1
<1>8. ASSUME NEW a \in Agg
      PROVE  t1.states[a] \in VdafPrepState(a) /\ second(a) \in VdafPrepShare
  <2>1. FirstState(a, job) \in VdafPrepState(a) /\ m0 \in VdafPrepMsg
    BY <1>2, <1>5
  <2>2. advance(t0, a) = vdaf_prepare_next(FirstState(a, job), m0)
    BY <1>3, <1>5 DEF advance
  <2> HIDE DEF m0, t0, t1, kind, second
  <2>3. advance(t0, a).tag = "Continue" /\ advance(t0, a).state = t1.states[a] /\ advance(t0, a).share = second(a)
    BY <1>6, <1>7
  <2> QED
    BY <2>1, <2>2, <2>3, NextContract
<1>9. /\ vdaf_combine(t1.outbound[Leader], t1.outbound[Helper])
             = prepare_shares_to_prepare_message(second(0), second(1))
  <2>1. t1.outbound[Leader] = second(Leader) /\ t1.outbound[Helper] = second(Helper)
        /\ second(Leader) \in VdafPrepShare /\ second(Helper) \in VdafPrepShare
    BY <1>7, <1>8, Both
  <2>2. second(Leader) = second(0) /\ second(Helper) = second(1)
    BY <1>1
  <2> HIDE DEF second, t1
  <2> QED
    BY <2>1, <2>2 DEF RunsPoplar1
<1>10. /\ VerifierOf(0, job) \in [1..1 -> F] /\ VerifierOf(1, job) \in [1..1 -> F]
       /\ (VerifierOf(0, job)[1] + VerifierOf(1, job)[1]) % P = 0 <=> SketchHolds(job)
  BY VerifiersDecide
<1> DEFINE done == [kind |-> "Done"]
<1>11. /\ SketchHolds(job) => vdaf_combine(t1.outbound[Leader], t1.outbound[Helper]) = [ok |-> TRUE, msg |-> done]
       /\ ~SketchHolds(job) => vdaf_combine(t1.outbound[Leader], t1.outbound[Helper]) = [ok |-> FALSE]
  <2> DEFINE u == VerifierOf(0, job)
             v == VerifierOf(1, job)
  <2>1. second(0) = [kind |-> kind, elems |-> u] /\ second(1) = [kind |-> kind, elems |-> v]
    OBVIOUS
  <2>2. u \in [1..1 -> F] /\ v \in [1..1 -> F] /\ ((u[1] + v[1]) % P = 0 <=> SketchHolds(job))
    BY <1>10
  <2> HIDE DEF u, v, kind, second, t1, done
  <2>3. /\ (u[1] + v[1]) % P = 0 =>
                prepare_shares_to_prepare_message(second(0), second(1)) = [ok |-> TRUE, msg |-> [kind |-> "Done"]]
        /\ (u[1] + v[1]) % P # 0 => prepare_shares_to_prepare_message(second(0), second(1)) = [ok |-> FALSE]
    BY <2>1, <2>2, CombinesVerifiers
  <2> QED
    BY <1>9, <2>2, <2>3 DEF done
<1>12. ASSUME ~SketchHolds(job)
       PROVE  run_vdaf_prepare(rep) = nobody
  <2>1. ~Combined(t1)
    <3> HIDE DEF t1
    <3> QED
      BY <1>11, <1>12 DEF Combined
  <2> QED
    BY <1>1, <1>7, <2>1, Uncombined
<1>13. ASSUME SketchHolds(job), NEW a \in Agg
       PROVE  run_vdaf_prepare(rep)[a] = <<OutOf(a, job)>>
  <2>1. Combined(t1) /\ inbound(t1) = done
    <3> HIDE DEF t1, done
    <3> QED
      BY <1>11, <1>13 DEF Combined, inbound
  <2>2. done \in VdafPrepMsg
    <3>1. t1.outbound[Leader] \in VdafPrepShare /\ t1.outbound[Helper] \in VdafPrepShare
      BY <1>7, <1>8, Both
    <3> HIDE DEF t1, done
    <3> QED
      BY <2>1, <3>1, CombineContract DEF Combined, inbound
  <2> DEFINE s == t1.states[a]
  <2>3. advance(t1, a) = prepare_next(s, done)
    BY <1>8, <2>1, <2>2 DEF advance, RunsPoplar1
  <2>4. s.kind = kind /\ s.round = 2 /\ s.out = eval_and_sketch(a, job).out /\ done.kind = "Done"
    <3> DEFINE o == eval_and_sketch(a, job).out
    <3>1. s = [kind |-> kind, round |-> 2, out |-> o]
      BY <1>7
    <3> HIDE DEF o, kind, s
    <3> QED
      BY <3>1 DEF o
  <2> HIDE DEF s, done, t1, kind
  <2>5. advance(t1, a).tag = "Finish" /\ advance(t1, a).out = [kind |-> kind, elems |-> eval_and_sketch(a, job).out]
    BY <2>3, <2>4 DEF prepare_next, FieldVec
  <2>6. run_vdaf_prepare(rep)[a] = <<advance(t1, a).out>>
    BY <1>1, <1>7, <2>1, <2>5, Turned DEF t1
  <2> QED
    BY <2>5, <2>6 DEF OutOf, kind
<1> QED
  BY <1>12, <1>13

-----------------------------------------------------------------------------
(* Honest clients.                                                         *)

\* precedes is a strict order.
LEMMA PrecedesOrders ==
  ASSUME NEW n \in Nat, NEW p \in [1..n -> {0, 1}], NEW q \in [1..n -> {0, 1}], NEW s \in [1..n -> {0, 1}],
         precedes(p, q), precedes(q, s)
  PROVE  precedes(p, s)
<1>1. PICK i \in 1..n : p[i] < q[i] /\ \A j \in 1..i - 1 : p[j] = q[j]
  BY DEF precedes
<1>2. PICK k \in 1..n : q[k] < s[k] /\ \A j \in 1..k - 1 : q[j] = s[j]
  BY DEF precedes
<1>3. \A j \in 1..n : p[j] \in Int /\ q[j] \in Int /\ s[j] \in Int
  OBVIOUS
<1>4. CASE i <= k
  <2>1. p[i] < s[i]
    <3>1. CASE i = k
      BY <1>1, <1>2, <1>3, <3>1
    <3>2. CASE i < k
      <4>1. i \in 1..k - 1
        BY <3>2
      <4> QED
        BY <1>1, <1>2, <4>1
    <3> QED
      BY <1>4, <3>1, <3>2
  <2>2. \A j \in 1..i - 1 : p[j] = s[j]
    <3>1. \A j \in 1..i - 1 : j \in 1..k - 1
      BY <1>4
    <3> QED
      BY <1>1, <1>2, <3>1
  <2> QED
    BY <2>1, <2>2 DEF precedes
<1>5. CASE k < i
  <2>1. k \in 1..i - 1
    BY <1>5
  <2>2. p[k] < s[k]
    BY <1>1, <1>2, <2>1
  <2>3. \A j \in 1..k - 1 : p[j] = s[j]
    <3>1. \A j \in 1..k - 1 : j \in 1..i - 1
      BY <1>5
    <3> QED
      BY <1>1, <1>2, <3>1
  <2> QED
    BY <2>2, <2>3 DEF precedes
<1> QED
  BY <1>4, <1>5

\* The prefixes of an aggregation parameter are all different.
LEMMA PrefixesDiffer ==
  ASSUME NEW n \in Nat, NEW l \in Nat, NEW ps \in [1..n -> [1..l -> {0, 1}]],
         \A i \in 1..n - 1 : precedes(ps[i], ps[i + 1])
  PROVE  \A i, j \in 1..n : ps[i] = ps[j] => i = j
<1>1. ASSUME NEW i \in 1..n, NEW d \in 1..n - i
      PROVE  precedes(ps[i], ps[i + d])
  <2> DEFINE S == {0} \cup {k \in 1..n - i : precedes(ps[i], ps[i + k])}
  <2>1. 0 \in S
    OBVIOUS
  <2>2. ASSUME NEW k \in 0..(n - i) - 1, k \in S
        PROVE  k + 1 \in S
    <3>1. k + 1 \in 1..n - i /\ i + k \in 1..n - 1 /\ (i + k) + 1 = i + (k + 1) /\ i + (k + 1) \in 1..n /\ i + k \in 1..n
      OBVIOUS
    <3>2. precedes(ps[i + k], ps[(i + k) + 1])
      BY <3>1
    <3>3. CASE k = 0
      BY <3>1, <3>2, <3>3
    <3>4. CASE k # 0
      <4>1. precedes(ps[i], ps[i + k])
        BY <2>2, <3>4
      <4>2. ps[i] \in [1..l -> {0, 1}] /\ ps[i + k] \in [1..l -> {0, 1}] /\ ps[i + (k + 1)] \in [1..l -> {0, 1}]
        BY <3>1
      <4>3. precedes(ps[i], ps[i + (k + 1)])
        BY <3>1, <3>2, <4>1, <4>2, PrecedesOrders
      <4> QED
        BY <3>1, <4>3
    <3> QED
      BY <3>3, <3>4
  <2>3. n - i \in Nat
    OBVIOUS
  <2>4. 0..n - i \subseteq S
    <3> HIDE DEF S
    <3> QED
      BY <2>1, <2>2, <2>3, IntervalInduction
  <2>5. d \in 0..n - i /\ d # 0
    OBVIOUS
  <2> QED
    BY <2>4, <2>5
<1>2. ASSUME NEW i \in 1..n, NEW j \in 1..n, i < j
      PROVE  ps[i] # ps[j]
  <2>1. j - i \in 1..n - i /\ i + (j - i) = j
    BY <1>2
  <2>2. precedes(ps[i], ps[j])
    BY <1>1, <2>1
  <2>3. PICK k \in 1..l : ps[i][k] < ps[j][k]
    BY <2>2 DEF precedes
  <2>4. ps[i][k] \in Int /\ ps[j][k] \in Int
    OBVIOUS
  <2> QED
    BY <2>3, <2>4
<1> QED
  BY <1>2

\* A measurement has one prefix of a length.
LEMMA OnePrefix ==
  ASSUME NEW l \in Nat, NEW m, NEW p \in [1..l -> {0, 1}], NEW q \in [1..l -> {0, 1}], IsPrefix(p, m), IsPrefix(q, m)
  PROVE  p = q
<1>1. p \in Seq({0, 1}) /\ q \in Seq({0, 1}) /\ Len(p) = l /\ Len(q) = l
  OBVIOUS
<1>2. SubSeq(p, 1, l) = p /\ SubSeq(q, 1, l) = q
  BY <1>1, SubSeqFull
<1>3. SubSeq(p, 1, l) = SubSeq(m, 1, l) /\ SubSeq(q, 1, l) = SubSeq(m, 1, l)
  BY <1>1 DEF IsPrefix
<1> QED
  BY <1>2, <1>3

\* The sketch of one element rho holds.
LEMMA OneElementHolds ==
  ASSUME NEW rho \in Int, NEW k \in Int, NEW S \in [1..3 -> Int],
         Cong(P, S[1], rho), Cong(P, S[2], rho * rho), Cong(P, S[3], k * rho)
  PROVE  (S[1] * S[1] - S[2] + k * S[1] - S[3]) % P = 0
<1> DEFINE x == S[1]
           y == S[2]
           z == S[3]
           rr == rho * rho
           kr == k * rho
           xx == x * x
           kx == k * x
<1>1. x \in Int /\ y \in Int /\ z \in Int /\ rr \in Int /\ kr \in Int /\ xx \in Int /\ kx \in Int /\ P \in Int
  BY Modulus
<1>2. Cong(P, xx, rr) /\ Cong(P, kx, kr) /\ Cong(P, y, rr) /\ Cong(P, z, kr)
  <2> HIDE DEF x, y, z
  <2>1. x \in Int /\ y \in Int /\ z \in Int /\ Cong(P, x, rho)
    BY <1>1 DEF x, y, z
  <2>2. Cong(P, x * x, rho * rho)
    BY <1>1, <2>1, CongProduct
  <2>3. Cong(P, k * x, k * rho)
    BY <1>1, <2>1, CongTimes
  <2> QED
    BY <2>2, <2>3 DEF y, z
<1> HIDE DEF x, y, z, rr, kr, xx, kx
<1>3. Cong(P, xx - y, rr - rr)
  BY <1>1, <1>2, CongSum
<1>4. Cong(P, (xx - y) + kx, (rr - rr) + kr)
  BY <1>1, <1>2, <1>3, CongSum
<1>5. Cong(P, ((xx - y) + kx) - z, ((rr - rr) + kr) - kr)
  BY <1>1, <1>2, <1>4, CongSum
<1> DEFINE e == xx - y + kx - z
<1>6. e \in Int /\ Cong(P, e, 0)
  BY <1>1, <1>5
<1>7. e % P = 0 % P
  <2> HIDE DEF e
  <2> QED
    BY <1>6, Modulus, CongSame
<1>8. 0 % P = 0
  BY Modulus, DivisionIs
<1> QED
  BY <1>7, <1>8 DEF x, y, z, xx, kx

\* Along the path of one measurement the sketch holds, at whatever prefixes.
LEMMA HonestSketchHolds ==
  ASSUME NEW job, Prepares(job), IsHonestJob(job)
  PROVE  SketchHolds(job)
<1> DEFINE ps == job.prefixes
           n == Len(ps)
           l == Len(ps[1])
           z == ValuesAt(job)
           r == verify_rand(job)
           k == KeyAt(job)
           S == sketch_of(z, r)
<1>1. n \in Nat /\ n > 0 /\ \A i \in 1..n : ps[i] \in Prefix
  BY LevelType
<1>2. ps \in Seq(Seq({0, 1})) /\ \A i \in DOMAIN ps : Len(ps[i]) = Len(ps[1])
  BY DEF Prepares, IsJob, try_from_prefixes
<1>3. \A i \in 1..n - 1 : precedes(ps[i], ps[i + 1])
  BY DEF Prepares, IsJob, try_from_prefixes
<1>4. LevelOf(job) = l - 1
  BY DEF LevelOf, Level
<1>5. SketchHolds(job) <=> (S[1] * S[1] - S[2] + k * S[1] - S[3]) % P = 0
  BY DEF SketchHolds, ValuesAt, KeyAt
<1>6. PICK m \in [1..Bits -> {0, 1}] : job.upload.values = shard(m, job.upload.seeds).values
  BY DEF IsHonestJob
<1>7. \A p \in Prefix : job.upload.values[p] =
        IF IsPrefix(p, m) THEN <<1, auth(job.upload.seeds, Level(p))>> ELSE <<0, 0>>
  BY <1>6 DEF shard
<1>8. r \in [1..n -> F] /\ k \in F
  BY DEF verify_rand, Prepares, StreamsOfTheField, KeyAt, auth
<1>9. z \in [1..n -> [1..2 -> F]] /\ \A i \in 1..n : z[i] = job.upload.values[ps[i]]
  BY EvalsAddUp DEF ValuesAt
<1> HIDE DEF z, r, S
<1>10. DOMAIN ps = 1..n
  BY <1>2
<1>11. \A i \in 1..n : z[i] = IF IsPrefix(ps[i], m) THEN <<1, k>> ELSE <<0, 0>>
  <2>1. \A i \in 1..n : Level(ps[i]) = LevelOf(job)
    BY <1>2, <1>4, <1>10 DEF Level
  <2> QED
    BY <1>1, <1>7, <1>9, <2>1 DEF KeyAt
<1>12. l \in Nat /\ ps \in [1..n -> [1..l -> {0, 1}]]
  <2>1. 1 \in 1..n
    BY <1>1
  <2>2. \A i \in 1..n : ps[i] \in Seq({0, 1}) /\ Len(ps[i]) = l
    BY <1>2, <1>10
  <2>3. l \in Nat /\ \A i \in 1..n : ps[i] \in [1..l -> {0, 1}]
    BY <2>1, <2>2
  <2> QED
    BY <1>2, <1>10, <2>3
<1> HIDE DEF l, k
<1>13. \A i, j \in 1..n : IsPrefix(ps[i], m) /\ IsPrefix(ps[j], m) => i = j
  <2>1. \A i, j \in 1..n : ps[i] = ps[j] => i = j
    BY <1>1, <1>3, <1>12, PrefixesDiffer
  <2> SUFFICES ASSUME NEW i \in 1..n, NEW j \in 1..n, IsPrefix(ps[i], m), IsPrefix(ps[j], m)
               PROVE  ps[i] = ps[j]
    BY <2>1
  <2>2. ps[i] \in [1..l -> {0, 1}] /\ ps[j] \in [1..l -> {0, 1}]
    BY <1>12
  <2> QED
    BY <1>12, <2>2, OnePrefix
<1>14. PICK j \in 0..n : \A i \in 1..n : IsPrefix(ps[i], m) <=> i = j
  <2>1. CASE \A i \in 1..n : ~IsPrefix(ps[i], m)
    <3>1. 0 \in 0..n /\ \A i \in 1..n : i # 0
      BY <1>1
    <3> QED
      BY <2>1, <3>1
  <2>2. CASE \E i \in 1..n : IsPrefix(ps[i], m)
    <3>1. PICK i \in 1..n : IsPrefix(ps[i], m)
      BY <2>2
    <3>2. i \in 0..n
      OBVIOUS
    <3> QED
      BY <1>13, <3>1, <3>2
  <2> QED
    BY <2>1, <2>2
<1>15. \A i \in 1..n : z[i] = IF i = j THEN <<1, k>> ELSE <<0, 0>>
  BY <1>11, <1>14
<1> HIDE DEF n, ps
<1> DEFINE rho == IF j \in 1..n THEN r[j] ELSE 0
<1>16. r \in [1..n -> Int] /\ k \in Int /\ z \in Values(n) /\ rho \in Int /\ j \in Int
  <2>1. r \in [1..n -> Int] /\ k \in Int /\ j \in Int
    <3>1. r \in [1..n -> Int]
      BY <1>8, Modulus
    <3>2. k \in Int
      BY <1>8, Modulus
    <3>3. j \in Int
      BY <1>1
    <3> QED
      BY <3>1, <3>2, <3>3
  <2>2. z \in Values(n)
    BY <1>9, Modulus DEF Values
  <2>3. rho \in Int
    BY <2>1
  <2> QED
    BY <2>1, <2>2, <2>3
<1>17. /\ S \in [1..3 -> F]
       /\ S[1] = total(Firsts(z, r, n)) /\ Firsts(z, r, n) \in [1..n -> Int]
       /\ S[2] = total(Squares(z, r, n)) /\ Squares(z, r, n) \in [1..n -> Int]
       /\ S[3] = total(Seconds(z, r, n)) /\ Seconds(z, r, n) \in [1..n -> Int]
  BY <1>1, <1>16, SketchType DEF S
<1>18. ASSUME NEW i \in 1..n
       PROVE  /\ Firsts(z, r, n)[i] = IF i = j THEN rho ELSE 0
              /\ Squares(z, r, n)[i] = IF i = j THEN rho * rho ELSE 0
              /\ Seconds(z, r, n)[i] = IF i = j THEN k * rho ELSE 0
  <2>1. r[i] \in Int
    BY <1>16
  <2>2. CASE i = j
    <3>1. z[i][1] = 1 /\ z[i][2] = k /\ rho = r[i]
      BY <1>15, <2>2
    <3> HIDE DEF rho
    <3>2. 1 * r[i] = r[i] /\ 1 * r[i] * r[i] = r[i] * r[i]
      BY <2>1
    <3> QED
      BY <2>2, <3>1, <3>2 DEF Firsts, Squares, Seconds
  <2>3. CASE i # j
    <3>1. z[i][1] = 0 /\ z[i][2] = 0
      BY <1>15, <2>3
    <3>2. 0 * r[i] = 0 /\ 0 * r[i] * r[i] = 0
      BY <2>1
    <3> QED
      BY <2>3, <3>1, <3>2 DEF Firsts, Squares, Seconds
  <2> QED
    BY <2>2, <2>3
<1>19. ASSUME NEW v \in [1..n -> Int], NEW e \in Int, j \notin 1..n => e = 0,
              \A i \in 1..n : v[i] = IF i = j THEN e ELSE 0
       PROVE  Cong(P, total(v), e)
  <2>1. total(v) = IF j \in 1..n THEN v[j] % P ELSE 0
    BY <1>1, <1>16, <1>19, TotalOfOne
  <2>2. CASE j \in 1..n
    BY <1>19, <2>1, <2>2, Reduced
  <2>3. CASE j \notin 1..n
    BY <1>19, <2>1, <2>3, Modulus, CongRefl
  <2> QED
    BY <2>2, <2>3
<1>20. rho * rho \in Int /\ k * rho \in Int /\ (j \notin 1..n => rho = 0 /\ rho * rho = 0 /\ k * rho = 0)
  BY <1>16
<1> HIDE DEF rho
<1>21. Cong(P, S[1], rho) /\ Cong(P, S[2], rho * rho) /\ Cong(P, S[3], k * rho)
  BY <1>16, <1>17, <1>18, <1>19, <1>20
<1>22. S \in [1..3 -> Int]
  BY <1>17, Modulus
<1> QED
  BY <1>5, <1>16, <1>21, <1>22, OneElementHolds

-----------------------------------------------------------------------------
(* Poplar1 over the topology.                                              *)

\* What the theorems take for granted of Poplar1 and of the reports.
Poplar1Deployed == RunsPoplar1 /\ JobsOfPoplar1 /\ StreamsOfTheField /\ NoWrap

\* The driver's outcomes for a report.
LEMMA Poplar1Outcome ==
  ASSUME Poplar1Deployed, NEW rep \in Reports, NEW job, job = job_of(rep)
  PROVE  /\ (LevelOf(job) < Bits /\ SketchHolds(job)) =>
                \A a \in Agg : run_vdaf_prepare(rep)[a] = <<OutOf(a, job)>>
         /\ ~(LevelOf(job) < Bits /\ SketchHolds(job)) => run_vdaf_prepare(rep) = nobody
         /\ LevelOf(job) \in Int
<1>1. IsJob(job) /\ RunsPoplar1
  BY DEF Poplar1Deployed, JobsOfPoplar1
<1>2. LevelOf(job) \in Int
  <2> DEFINE ps == job.prefixes
  <2>1. ps \in Seq(Seq({0, 1})) /\ ps # <<>>
    BY <1>1 DEF IsJob, try_from_prefixes
  <2>2. Len(ps[1]) \in Int
    BY <2>1
  <2> QED
    BY <2>2 DEF LevelOf, Level
<1>3. CASE LevelOf(job) < Bits
  <2>1. Prepares(job)
    BY <1>1, <1>3 DEF Prepares, Poplar1Deployed
  <2> QED
    BY <1>1, <1>2, <1>3, <2>1, DriverDecides
<1>4. CASE ~(LevelOf(job) < Bits)
  <2>1. LevelOf(job) >= Bits
    BY <1>2, <1>4, ParameterAssumption
  <2>2. vdaf_prepare_init(Leader, rep) = prepare_init(Leader, job)
    BY <1>1, Both DEF RunsPoplar1
  <2>3. ~vdaf_prepare_init(Leader, rep).ok
    BY <2>1, <2>2 DEF prepare_init
  <2> QED
    BY <1>2, <1>4, <2>3, Both, Entered
<1> QED
  BY <1>3, <1>4

\* What an aggregator holds is the outcome.
LEMMA Poplar1Decided ==
  ASSUME Poplar1Deployed, IInv, Right, NEW job, job = job_of(report)
  PROVE  /\ \A a \in Agg : HostFinished(a) =>
                LevelOf(job) < Bits /\ SketchHolds(job) /\ OutputOf(a) = OutOf(a, job)
         /\ \A a \in Agg : phase[a] = "Rejected" => ~(LevelOf(job) < Bits /\ SketchHolds(job))
         /\ LevelOf(job) \in Int /\ report \in Reports
<1>1. report \in Reports
  BY DEF IInv, TypeOK
<1>2. /\ (LevelOf(job) < Bits /\ SketchHolds(job)) =>
            \A a \in Agg : run_vdaf_prepare(report)[a] = <<OutOf(a, job)>>
      /\ ~(LevelOf(job) < Bits /\ SketchHolds(job)) => run_vdaf_prepare(report) = nobody
      /\ LevelOf(job) \in Int
  BY <1>1, Poplar1Outcome
<1>3. ASSUME NEW a \in Agg, HostFinished(a)
      PROVE  LevelOf(job) < Bits /\ SketchHolds(job) /\ OutputOf(a) = OutOf(a, job)
  <2>1. run_vdaf_prepare(report)[a] = <<OutputOf(a)>>
    BY <1>3 DEF Right
  <2>2. nobody[a] = <<>> /\ <<OutputOf(a)>> # <<>>
    BY DEF nobody
  <2>3. LevelOf(job) < Bits /\ SketchHolds(job)
    BY <1>2, <2>1, <2>2
  <2>4. <<OutputOf(a)>> = <<OutOf(a, job)>>
    BY <1>2, <2>1, <2>3
  <2>5. <<OutputOf(a)>>[1] = OutputOf(a) /\ <<OutOf(a, job)>>[1] = OutOf(a, job)
    OBVIOUS
  <2> QED
    BY <2>3, <2>4, <2>5
<1>4. ASSUME NEW a \in Agg, phase[a] = "Rejected"
      PROVE  ~(LevelOf(job) < Bits /\ SketchHolds(job))
  <2>1. PICK b \in Agg : run_vdaf_prepare(report)[b] = <<>>
    BY <1>4 DEF Right, Fails
  <2>2. <<OutOf(b, job)>> # <<>>
    OBVIOUS
  <2> QED
    BY <1>2, <2>1, <2>2
<1> QED
  BY <1>1, <1>2, <1>3, <1>4

\* What Poplar1 promises of the states of the topology.
LEMMA Poplar1Promises ==
  ASSUME Poplar1Deployed, IInv, Right
  PROVE  AcceptsBySketch /\ HonestNeverRejected /\ OutputsAddUp
<1> DEFINE job == job_of(report)
<1>1. /\ \A a \in Agg : HostFinished(a) =>
            LevelOf(job) < Bits /\ SketchHolds(job) /\ OutputOf(a) = OutOf(a, job)
      /\ \A a \in Agg : phase[a] = "Rejected" => ~(LevelOf(job) < Bits /\ SketchHolds(job))
      /\ LevelOf(job) \in Int /\ report \in Reports
  BY Poplar1Decided
<1>2. ASSUME LevelOf(job) < Bits
      PROVE  Prepares(job)
  BY <1>1, <1>2 DEF Prepares, Poplar1Deployed, JobsOfPoplar1
<1>3. AcceptsBySketch
  <2>1. ~(LevelOf(job) < Bits) => LevelOf(job) >= Bits
    BY <1>1, ParameterAssumption
  <2> QED
    BY <1>1, <2>1 DEF AcceptsBySketch
<1>4. HonestNeverRejected
  <2>1. ASSUME report \in Honest
        PROVE  LevelOf(job) < Bits /\ SketchHolds(job)
    <3>1. IsHonestJob(job)
      BY <2>1 DEF Poplar1Deployed, JobsOfPoplar1
    <3>2. LevelOf(job) < Bits
      BY <3>1 DEF IsHonestJob
    <3> QED
      BY <1>2, <3>1, <3>2, HonestSketchHolds
  <2> QED
    BY <1>1, <2>1 DEF HonestNeverRejected
<1>5. OutputsAddUp
  <2> SUFFICES ASSUME HostFinished(Leader), HostFinished(Helper)
               PROVE  /\ OutputOf(Leader).kind = OutputOf(Helper).kind
                      /\ \A i \in 1..Len(job.prefixes) :
                            (OutputOf(Leader).elems[i] + OutputOf(Helper).elems[i]) % P
                                = job.upload.values[job.prefixes[i]][1]
    BY DEF OutputsAddUp
  <2>1. OutputOf(Leader) = OutOf(0, job) /\ OutputOf(Helper) = OutOf(1, job) /\ LevelOf(job) < Bits
    BY <1>1, Both DEF Leader, Helper
  <2>2. Prepares(job)
    BY <1>2, <2>1
  <2> DEFINE n == Len(job.prefixes)
             x == eval_at(0, job)
             y == eval_at(1, job)
             z == ValuesAt(job)
  <2>3. /\ x \in [1..n -> [1..2 -> F]] /\ y \in [1..n -> [1..2 -> F]] /\ z \in [1..n -> [1..2 -> F]]
        /\ \A i \in 1..n : \A c \in 1..2 : Cong(P, x[i][c] + y[i][c], z[i][c])
    BY <2>2, EvalsAddUp
  <2>4. \A i \in 1..n : OutOf(0, job).elems[i] = x[i][1] /\ OutOf(1, job).elems[i] = y[i][1]
    BY DEF OutOf, eval_and_sketch
  <2>5. OutOf(0, job).kind = OutOf(1, job).kind
    BY DEF OutOf
  <2>6. ASSUME NEW i \in 1..n
        PROVE  (OutOf(0, job).elems[i] + OutOf(1, job).elems[i]) % P = job.upload.values[job.prefixes[i]][1]
    <3> DEFINE u == x[i][1]
               v == y[i][1]
               w == z[i][1]
               s == u + v
    <3>1. u \in F /\ v \in F /\ w \in F /\ Cong(P, s, w)
      BY <2>3
    <3>2. z[i] = job.upload.values[job.prefixes[i]]
      BY DEF ValuesAt
    <3> HIDE DEF u, v, w
    <3>3. s \in Int /\ w \in Int /\ w \in 0..P - 1 /\ w = P * 0 + w
      BY <3>1, Modulus DEF F
    <3>4. w % P = w
      BY <3>3, Modulus, DivisionIs
    <3>5. s % P = w % P
      <4> HIDE DEF s
      <4> QED
        BY <3>1, <3>3, Modulus, CongSame
    <3> QED
      BY <2>4, <3>2, <3>4, <3>5 DEF u, v, w
  <2> QED
    BY <2>1, <2>5, <2>6
<1> QED
  BY <1>3, <1>4, <1>5

\* Preparation over the topology decides what the sketch of the values programmed by the client
\* says, for every field, tree and stream: a report is accepted only if it holds, and rejected
\* only if it does not or if a prefix is longer than a measurement (eval_and_sketch,
\* prepare_shares_to_prepare_message and finish_sketch of src/vdaf/poplar1.rs).
THEOREM SketchDecides ==
  ASSUME CallerChecksStep, Poplar1Deployed
  PROVE  Spec => []AcceptsBySketch
<1>1. DInv /\ [Next]_vars => DInv'
  BY DInvStep
<1>2. DInv => AcceptsBySketch
  BY OutcomesAreRight, Poplar1Promises DEF DInv
<1> QED
  BY <1>1, <1>2, DInvInit, PTL DEF Spec

\* No report of an honest client is rejected, whatever is lost, repeated or restarted on the way:
\* at most one of the candidate prefixes is on its path, and the sketch of one value holds.
THEOREM HonestReportsPass ==
  ASSUME CallerChecksStep, Poplar1Deployed
  PROVE  Spec => []HonestNeverRejected
<1>1. DInv /\ [Next]_vars => DInv'
  BY DInvStep
<1>2. DInv => HonestNeverRejected
  BY OutcomesAreRight, Poplar1Promises DEF DInv
<1> QED
  BY <1>1, <1>2, DInvInit, PTL DEF Spec

\* The output shares of an accepted report add up to the values that the client programmed at
\* the candidate prefixes (eval_and_sketch of src/vdaf/poplar1.rs).
THEOREM OutputSharesAddUp ==
  ASSUME CallerChecksStep, Poplar1Deployed
  PROVE  Spec => []OutputsAddUp
<1>1. DInv /\ [Next]_vars => DInv'
  BY DInvStep
<1>2. DInv => OutputsAddUp
  BY OutcomesAreRight, Poplar1Promises DEF DInv
<1> QED
  BY <1>1, <1>2, DInvInit, PTL DEF Spec
=============================================================================
