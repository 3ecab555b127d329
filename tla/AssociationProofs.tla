--------------------------- MODULE AssociationProofs ---------------------------
(***************************************************************************)
(* Theorems about Association, for every set of stations and every value   *)
(* of its other constants: its types and safety properties, and, at the    *)
(* end, that it implements its service.                                    *)
(***************************************************************************)
EXTENDS Association, FiniteSetTheorems, TLAPS

USE StationAssumption, ThresholdAssumption, BoundAssumption

-----------------------------------------------------------------------------
(* Type correctness.                                                       *)

LEMMA QueuedType ==
  ASSUME NEW n \in Node, NEW f \in Frame, queue \in [Node -> Seq(Frame)]
  PROVE  Queued(n, f) \in [Node -> Seq(Frame)]
BY DEF Queued

LEMMA FrameType ==
  ASSUME NEW s \in Sta, NEW k \in Kind
  PROVE  StaFrame(k, s) \in Frame
BY DEF StaFrame, Frame

LEMMA TypeInit == Init => TypeOK
BY DEF Init, TypeOK, MacState, Timer, ApStatus, NoBeacon, Node

LEMMA LoseType ==
  ASSUME losses \in 0..MaxLosses, Lose
  PROVE  losses' \in 0..MaxLosses
BY DEF Lose

(* What the helpers leave in the variables they assign. *)

LEMMA SendProbeRequestType ==
  ASSUME TypeOK, NEW s \in Sta, NEW running \in SUBSET Timer, SendProbeRequest(s, running)
  PROVE  queue' \in [Node -> Seq(Frame)] /\ timers' \in [Sta -> SUBSET Timer]
<1>1. Queued(s, StaFrame("ProbeReq", s)) \in [Node -> Seq(Frame)]
  BY QueuedType, FrameType DEF TypeOK, Node, Kind
<1> QED BY <1>1 DEF SendProbeRequest, TypeOK, Timer

LEMMA SendAssociationRequestType ==
  ASSUME TypeOK, NEW s \in Sta, NEW running \in SUBSET Timer, SendAssociationRequest(s, running)
  PROVE  /\ queue' \in [Node -> Seq(Frame)]
         /\ timers' \in [Sta -> SUBSET Timer]
         /\ state' \in [Sta -> MacState]
<1>1. Queued(s, StaFrame("AssocReq", s)) \in [Node -> Seq(Frame)]
  BY QueuedType, FrameType DEF TypeOK, Node, Kind
<1> QED BY <1>1 DEF SendAssociationRequest, TypeOK, Timer, MacState

LEMMA SendDisAssociationRequestType ==
  ASSUME TypeOK, NEW s \in Sta, NEW running \in SUBSET Timer, SendDisAssociationRequest(s, running)
  PROVE  /\ queue' \in [Node -> Seq(Frame)]
         /\ timers' \in [Sta -> SUBSET Timer]
         /\ state' \in [Sta -> MacState]
         /\ hasAid' \in [Sta -> BOOLEAN]
<1>1. Queued(s, StaFrame("Disassoc", s)) \in [Node -> Seq(Frame)]
  BY QueuedType, FrameType DEF TypeOK, Node, Kind
<1> QED BY <1>1 DEF SendDisAssociationRequest, TypeOK, Timer, MacState

LEMMA TryToEnsureAssociatedType ==
  ASSUME TypeOK, NEW s \in Sta, NEW st \in MacState, NEW running \in SUBSET Timer, NEW probing,
         TryToEnsureAssociated(s, st, running, probing)
  PROVE  /\ queue' \in [Node -> Seq(Frame)]
         /\ timers' \in [Sta -> SUBSET Timer]
         /\ state' \in [Sta -> MacState]
         /\ linkUp' \in [Sta -> BOOLEAN]
<1>1. CASE st = "BEACON_MISSED" /\ SendProbeRequest(s, running)
          /\ state' = [state EXCEPT ![s] = "WAIT_PROBE_RESP"]
  BY <1>1, SendProbeRequestType DEF TryToEnsureAssociated, TypeOK, MacState
<1>2. CASE st = "BEACON_MISSED" /\ timers' = [timers EXCEPT ![s] = running]
          /\ state' = [state EXCEPT ![s] = st] /\ UNCHANGED queue
  BY <1>2 DEF TryToEnsureAssociated, TypeOK
<1>3. CASE st # "BEACON_MISSED"
  <2>1. timers' = [timers EXCEPT ![s] = running] /\ state' = state /\ linkUp' = linkUp /\ queue' = queue
    BY <1>3 DEF TryToEnsureAssociated
  <2> QED BY <2>1 DEF TypeOK
<1> QED BY <1>1, <1>2, <1>3 DEF TryToEnsureAssociated

LEMMA SendAssocRespType ==
  ASSUME TypeOK, NEW s \in Sta, NEW success \in BOOLEAN, SendAssocResp(s, success)
  PROVE  queue' \in [Node -> Seq(Frame)] /\ listed' \in SUBSET Sta
<1>1. StaFrame(IF success THEN "AssocResp" ELSE "AssocRefusal", s) \in Frame
  BY FrameType DEF Kind
<1>2. Queued(AP, StaFrame(IF success THEN "AssocResp" ELSE "AssocRefusal", s)) \in [Node -> Seq(Frame)]
  BY <1>1, QueuedType DEF TypeOK, Node
<1> QED BY <1>2 DEF SendAssocResp, TypeOK

LEMMA RestartType ==
  ASSUME TypeOK, NEW s \in Sta, RestartBeaconWatchdog(s)
  PROVE  silent' \in [Sta -> 0..MaxMissedBeacons]
<1>1. 0 \in 0..MaxMissedBeacons
  OBVIOUS
<1> QED BY <1>1 DEF RestartBeaconWatchdog, TypeOK

LEMMA TypeStaStep ==
  ASSUME TypeOK, NEW s \in Sta, StaStep(s)
  PROVE  TypeOK'
<1> USE DEF apVars, linkVars
<1>s. state[s] \in MacState /\ timers[s] \in SUBSET Timer /\ timers[s] \ {"watchdog"} \in SUBSET Timer
      /\ timers[s] \cup {"watchdog"} \in SUBSET Timer /\ "BEACON_MISSED" \in MacState
  BY DEF TypeOK, Timer, MacState
<1>1. CASE StartActiveAssociation(s)
  BY <1>1, <1>s, TryToEnsureAssociatedType DEF StartActiveAssociation, TypeOK
<1>2. CASE Enqueue(s)
  BY <1>1, <1>2 DEF Enqueue
<1>3. CASE EnableActiveProbing(s)
  BY <1>3, <1>s, TryToEnsureAssociatedType DEF EnableActiveProbing, TypeOK
<1>4. CASE DisableActiveProbing(s)
  BY <1>4 DEF DisableActiveProbing, TypeOK
<1>5. CASE Disassociate(s)
  BY <1>5, <1>s, SendDisAssociationRequestType DEF Disassociate, TypeOK
<1>6. CASE ProbeRequestTimeout(s)
  BY <1>6, <1>s, SendProbeRequestType DEF ProbeRequestTimeout, TypeOK, MacState
<1>7. CASE AssocRequestTimeout(s)
  BY <1>7, <1>s, SendAssociationRequestType DEF AssocRequestTimeout, TypeOK
<1>8. CASE DisassocRequestTimeout(s)
  BY <1>8, <1>s, SendDisAssociationRequestType DEF DisassocRequestTimeout, TypeOK
<1>9. CASE MissedBeacons(s)
  BY <1>9, <1>s, TryToEnsureAssociatedType DEF MissedBeacons, TypeOK
<1>10. CASE ReceiveBeacon(s)
  <2>1. state' \in [Sta -> MacState] /\ timers' \in [Sta -> SUBSET Timer] /\ queue' \in [Node -> Seq(Frame)]
    <3>1. CASE SendAssociationRequest(s, timers[s] \cup {"watchdog"})
      BY <3>1, <1>s, SendAssociationRequestType
    <3>2. CASE timers' = [timers EXCEPT ![s] = @ \cup {"watchdog"}] /\ UNCHANGED <<state, queue>>
      BY <3>2, <1>s DEF TypeOK
    <3> QED BY <1>10, <3>1, <3>2 DEF ReceiveBeacon
  <2>2. air[s] \in 0..MaxThreshold
    BY <1>10 DEF ReceiveBeacon, TypeOK, NoBeacon
  <2>3. silent' \in [Sta -> 0..MaxMissedBeacons]
    BY <1>10, RestartType DEF ReceiveBeacon
  <2>4. threshold' \in [Sta -> 0..MaxThreshold] /\ air' \in [Sta -> 0..NoBeacon]
    BY <1>10, <2>2 DEF ReceiveBeacon, TypeOK, NoBeacon
  <2> QED BY <1>10, <2>1, <2>3, <2>4 DEF ReceiveBeacon, TypeOK
<1>11. CASE LoseBeacon(s)
  BY <1>11, LoseType DEF LoseBeacon, TypeOK, NoBeacon, staVars
<1> QED BY <1>1, <1>2, <1>3, <1>4, <1>5, <1>6, <1>7, <1>8, <1>9, <1>10, <1>11 DEF StaStep

LEMMA TypeSendOneBeacon ==
  ASSUME TypeOK, SendOneBeacon
  PROVE  TypeOK'
<1>1. NextThreshold \in 0..MaxThreshold
  <2>1. Len(queue[AP]) \in Nat
    BY DEF TypeOK, Node
  <2> QED BY <2>1 DEF NextThreshold, TypeOK
<1> QED BY <1>1 DEF SendOneBeacon, TypeOK, NoBeacon, linkVars

(* What Receive leaves in the variables it assigns. *)
ReceiveTypeOK ==
  /\ state' \in [Sta -> MacState]
  /\ timers' \in [Sta -> SUBSET Timer]
  /\ silent' \in [Sta -> 0..MaxMissedBeacons]
  /\ threshold' \in [Sta -> 0..MaxThreshold]
  /\ hasAid' \in [Sta -> BOOLEAN]
  /\ activeProbing' \in [Sta -> BOOLEAN]
  /\ linkUp' \in [Sta -> BOOLEAN]
  /\ apStatus' \in [Sta -> ApStatus]
  /\ listed' \in SUBSET Sta
  /\ authThreshold' \in 0..MaxThreshold
  /\ queue' \in [Node -> Seq(Frame)]

LEMMA ReceiveType ==
  ASSUME TypeOK, NEW f \in Frame, Receive(f)
  PROVE  ReceiveTypeOK
<1> DEFINE s == f.sta
<1> USE DEF staVars, apVars
<1>s. s \in Sta /\ timers[s] \in SUBSET Timer /\ (timers[s] \ {"probe"}) \cup {"watchdog"} \in SUBSET Timer
  BY DEF Frame, TypeOK, Timer
<1>1. CASE ApReceiveProbeReq(s)
  <2>1. Queued(AP, StaFrame("ProbeResp", s)) \in [Node -> Seq(Frame)]
    BY <1>s, QueuedType, FrameType DEF TypeOK, Node, Kind
  <2> QED BY <1>1, <2>1 DEF ApReceiveProbeReq, TypeOK, ReceiveTypeOK
<1>2. CASE ApReceiveAssocReq(s)
  <2>1. CASE SendAssocResp(s, FALSE) /\ UNCHANGED apStatus
    BY <1>2, <2>1, <1>s, SendAssocRespType DEF ApReceiveAssocReq, TypeOK, ReceiveTypeOK
  <2>2. CASE SendAssocResp(s, TRUE) /\ apStatus' = [apStatus EXCEPT ![s] = "WAIT_ASSOC_TX_OK"]
    <3>1. queue' \in [Node -> Seq(Frame)] /\ listed' \in SUBSET Sta
      BY <2>2, <1>s, SendAssocRespType
    <3> QED BY <1>2, <2>2, <3>1 DEF ApReceiveAssocReq, TypeOK, ReceiveTypeOK, ApStatus
  <2>3. CASE UNCHANGED <<apStatus, listed, queue>>
    BY <1>2, <2>3 DEF ApReceiveAssocReq, TypeOK, ReceiveTypeOK
  <2> QED BY <1>2, <2>1, <2>2, <2>3 DEF ApReceiveAssocReq
<1>3. CASE ApReceiveDisassoc(s)
  BY <1>3 DEF ApReceiveDisassoc, TypeOK, ReceiveTypeOK, ApStatus
<1>4. CASE StaReceiveProbeResp(s)
  <2>1. CASE state[s] = "WAIT_PROBE_RESP"
    <3>1. SendAssociationRequest(s, (timers[s] \ {"probe"}) \cup {"watchdog"})
      BY <1>4, <2>1 DEF StaReceiveProbeResp
    <3>2. state' \in [Sta -> MacState] /\ timers' \in [Sta -> SUBSET Timer] /\ queue' \in [Node -> Seq(Frame)]
      BY <3>1, <1>s, SendAssociationRequestType
    <3>3. silent' \in [Sta -> 0..MaxMissedBeacons]
      BY <1>4, <2>1, <1>s, RestartType DEF StaReceiveProbeResp
    <3> QED BY <1>4, <3>2, <3>3 DEF StaReceiveProbeResp, TypeOK, ReceiveTypeOK
  <2>2. CASE state[s] # "WAIT_PROBE_RESP"
    BY <1>4, <2>2 DEF StaReceiveProbeResp, TypeOK, ReceiveTypeOK
  <2> QED BY <2>1, <2>2
<1>5. ASSUME NEW success \in BOOLEAN, StaReceiveAssocResp(s, success)
      PROVE  ReceiveTypeOK
  <2>1. state' \in [Sta -> MacState] /\ timers' \in [Sta -> SUBSET Timer]
        /\ hasAid' \in [Sta -> BOOLEAN] /\ linkUp' \in [Sta -> BOOLEAN]
    <3>1. CASE state[s] # "WAIT_ASSOC_RESP"
      BY <1>5, <3>1 DEF StaReceiveAssocResp, TypeOK
    <3>2. CASE state[s] = "WAIT_ASSOC_RESP"
      <4>1. timers' = [timers EXCEPT ![s] = @ \ {"assoc"}] /\ timers[s] \ {"assoc"} \in SUBSET Timer
        BY <1>5, <1>s, <3>2 DEF StaReceiveAssocResp
      <4>2. state' \in [Sta -> MacState] /\ hasAid' \in [Sta -> BOOLEAN] /\ linkUp' \in [Sta -> BOOLEAN]
        BY <1>5, <1>s, <3>2 DEF StaReceiveAssocResp, TypeOK, MacState
      <4> QED BY <4>1, <4>2, <1>s DEF TypeOK
    <3> QED BY <3>1, <3>2
  <2> QED BY <1>5, <2>1 DEF StaReceiveAssocResp, TypeOK, ReceiveTypeOK
<1> QED BY <1>1, <1>2, <1>3, <1>4, <1>5 DEF Receive

LEMMA TypeLinkStep ==
  ASSUME TypeOK, NEW n \in Node, LinkStep(n)
  PROVE  TypeOK'
<1> USE DEF staVars, apVars
<1>f. current[n] # NoFrame => current[n] \in Transmission /\ current[n].frame \in Frame /\ current[n].frame.sta \in Sta
  BY DEF TypeOK, Transmission, Frame
<1>q. queue[n] # <<>> => Head(queue[n]) \in Frame /\ Tail(queue[n]) \in Seq(Frame)
  BY DEF TypeOK
<1>n. NoFrame \in Transmission \cup {NoFrame}
  OBVIOUS
<1>1. CASE NotifyAccessGranted(n)
  BY <1>1, <1>q DEF NotifyAccessGranted, TypeOK, Transmission
<1>2. CASE Cleanup(n)
  BY <1>2, <1>q, LoseType DEF Cleanup, TypeOK
<1>3. CASE Deliver(n)
  <2>1. ReceiveTypeOK
    BY <1>3, <1>f, ReceiveType DEF Deliver
  <2>2. current' \in [Node -> Transmission \cup {NoFrame}]
    <3>1. current' = [current EXCEPT ![n] = [current[n] EXCEPT !.delivered = TRUE]]
      BY <1>3 DEF Deliver
    <3>2. [current[n] EXCEPT !.delivered = TRUE] \in Transmission
      BY <1>3, <1>f DEF Deliver, Transmission
    <3> QED BY <3>1, <3>2 DEF TypeOK
  <2> QED BY <1>3, <2>1, <2>2 DEF Deliver, ReceiveTypeOK, TypeOK
<1>4. CASE EndTxNoAck(n)
  BY <1>4, <1>n, LoseType DEF EndTxNoAck, TypeOK
<1>5. CASE GotAck(n)
  <2>1. CASE ApTxOk(current[n].frame)
    BY <1>5, <2>1, <1>n DEF GotAck, ApTxOk, TypeOK, ApStatus
  <2>2. CASE n \in Sta /\ StaTxOk(n, current[n].frame)
    <3>1. state' \in [Sta -> MacState] /\ timers' \in [Sta -> SUBSET Timer]
      <4>1. CASE UNCHANGED <<state, timers>>
        BY <4>1 DEF TypeOK
      <4>2. CASE /\ state' = [state EXCEPT ![n] = "REFUSED"]
                 /\ timers' = [timers EXCEPT ![n] = @ \ {"disassoc"}]
        <5>1. timers[n] \ {"disassoc"} \in SUBSET Timer /\ "REFUSED" \in MacState
          BY <2>2 DEF TypeOK, Timer, MacState
        <5> QED BY <2>2, <4>2, <5>1 DEF TypeOK
      <4> QED BY <2>2, <4>1, <4>2 DEF StaTxOk
    <3> QED BY <1>5, <2>2, <3>1, <1>n DEF GotAck, StaTxOk, TypeOK
  <2> QED BY <1>5, <2>1, <2>2 DEF GotAck
<1>6. CASE MissedAck(n)
  <2>1. CASE ApTxFailed(current[n].frame)
    BY <1>6, <2>1, <1>n, LoseType DEF MissedAck, ApTxFailed, TypeOK, ApStatus
  <2>2. CASE UNCHANGED <<staVars, apVars>>
    BY <1>6, <2>2, <1>n, LoseType DEF MissedAck, TypeOK
  <2> QED BY <1>6, <2>1, <2>2 DEF MissedAck
<1> QED BY <1>1, <1>2, <1>3, <1>4, <1>5, <1>6 DEF LinkStep

LEMMA TypeNext ==
  ASSUME TypeOK, [Next]_vars
  PROVE  TypeOK'
<1>1. CASE Next
  BY <1>1, TypeSendOneBeacon, TypeStaStep, TypeLinkStep DEF Next
<1>2. CASE UNCHANGED vars
  BY <1>2 DEF TypeOK, vars, staVars, apVars, linkVars
<1> QED BY <1>1, <1>2

(* Every variable keeps its type, whatever is lost and however often the   *)
(* timers of StaWifiMac interrupt one another.                             *)
THEOREM TypeCorrect == Spec => []TypeOK
BY TypeInit, TypeNext, PTL DEF Spec

-----------------------------------------------------------------------------
(* The station's own invariants: its waits keep their timers and an        *)
(* associated station is complete.  Both speak of one station only, so     *)
(* they are carried together, station by station.                          *)

Settled(t) ==
  /\ state[t] = "WAIT_ASSOC_RESP" => "assoc" \in timers[t]
  /\ state[t] = "WAIT_DISASSOC_ACK" => "disassoc" \in timers[t]
  /\ state[t] = "ASSOCIATED" => hasAid[t] /\ linkUp[t] /\ "assoc" \notin timers[t]

StationInv == \A t \in Sta : Settled(t)

StationVars == <<state, timers, hasAid, linkUp>>

LEMMA StationIdle ==
  ASSUME StationInv, UNCHANGED StationVars
  PROVE  StationInv'
BY DEF StationInv, Settled, StationVars

LEMMA AfterAssociationRequest ==
  ASSUME TypeOK, StationInv, NEW s \in Sta, NEW running \in SUBSET Timer,
         SendAssociationRequest(s, running), UNCHANGED <<hasAid, linkUp>>
  PROVE  StationInv'
BY DEF SendAssociationRequest, StationInv, Settled, TypeOK

LEMMA AfterDisAssociationRequest ==
  ASSUME TypeOK, StationInv, NEW s \in Sta, NEW running \in SUBSET Timer,
         SendDisAssociationRequest(s, running), UNCHANGED linkUp
  PROVE  StationInv'
BY DEF SendDisAssociationRequest, StationInv, Settled, TypeOK

(* Called with the state the station is in, or with BEACON_MISSED by the   *)
(* watchdog, which is the only timer it may have taken away.               *)
LEMMA AfterTryToEnsureAssociated ==
  ASSUME TypeOK, StationInv, NEW s \in Sta, NEW st \in {state[s], "BEACON_MISSED"},
         NEW running \in {timers[s], timers[s] \ {"watchdog"}}, NEW probing,
         TryToEnsureAssociated(s, st, running, probing), UNCHANGED hasAid
  PROVE  StationInv'
<1>1. CASE st = "BEACON_MISSED"
  <2>1. \/ state' = [state EXCEPT ![s] = "WAIT_PROBE_RESP"]
        \/ state' = [state EXCEPT ![s] = "BEACON_MISSED"]
    BY <1>1 DEF TryToEnsureAssociated
  <2>2. \A t \in Sta \ {s} : timers'[t] = timers[t] /\ linkUp'[t] = linkUp[t]
    BY <1>1 DEF TryToEnsureAssociated, SendProbeRequest, TypeOK
  <2> QED BY <2>1, <2>2 DEF StationInv, Settled, TypeOK
<1>2. CASE st # "BEACON_MISSED"
  <2>1. timers' = [timers EXCEPT ![s] = running] /\ state' = state /\ linkUp' = linkUp
    BY <1>2 DEF TryToEnsureAssociated
  <2> QED BY <2>1 DEF StationInv, Settled, TypeOK
<1> QED BY <1>1, <1>2

LEMMA StationStaStep ==
  ASSUME TypeOK, StationInv, NEW s \in Sta, StaStep(s)
  PROVE  StationInv'
<1>t. timers[s] \in SUBSET Timer /\ timers[s] \cup {"watchdog"} \in SUBSET Timer
  BY DEF TypeOK, Timer
<1>1. CASE StartActiveAssociation(s)
  BY <1>1, AfterTryToEnsureAssociated DEF StartActiveAssociation
<1>2. CASE Enqueue(s)
  BY <1>1, <1>2 DEF Enqueue
<1>3. CASE EnableActiveProbing(s)
  BY <1>3, AfterTryToEnsureAssociated DEF EnableActiveProbing
<1>4. CASE DisableActiveProbing(s)
  BY <1>4 DEF DisableActiveProbing, StationInv, Settled, TypeOK
<1>5. CASE Disassociate(s)
  BY <1>5, <1>t, AfterDisAssociationRequest DEF Disassociate
<1>6. CASE ProbeRequestTimeout(s)
  BY <1>6 DEF ProbeRequestTimeout, SendProbeRequest, StationInv, Settled, TypeOK
<1>7. CASE AssocRequestTimeout(s)
  BY <1>7, <1>t, AfterAssociationRequest DEF AssocRequestTimeout
<1>8. CASE DisassocRequestTimeout(s)
  BY <1>8, <1>t, AfterDisAssociationRequest DEF DisassocRequestTimeout
<1>9. CASE MissedBeacons(s)
  BY <1>9, AfterTryToEnsureAssociated DEF MissedBeacons
<1>10. CASE ReceiveBeacon(s)
  <2>1. CASE state[s] = "BEACON_MISSED"
    BY <1>10, <1>t, <2>1, AfterAssociationRequest DEF ReceiveBeacon
  <2>2. CASE state[s] # "BEACON_MISSED"
    <3>1. /\ timers' = [timers EXCEPT ![s] = @ \cup {"watchdog"}]
          /\ UNCHANGED <<state, hasAid, linkUp>>
      BY <1>10, <2>2 DEF ReceiveBeacon
    <3> QED BY <3>1 DEF StationInv, Settled, TypeOK
  <2> QED BY <2>1, <2>2
<1>11. CASE LoseBeacon(s)
  BY <1>11, StationIdle DEF LoseBeacon, StationVars, staVars
<1> QED BY <1>1, <1>2, <1>3, <1>4, <1>5, <1>6, <1>7, <1>8, <1>9, <1>10, <1>11 DEF StaStep

LEMMA StationReceive ==
  ASSUME TypeOK, StationInv, NEW f \in Frame, Receive(f)
  PROVE  StationInv'
<1> DEFINE s == f.sta
<1>s. s \in Sta /\ (timers[s] \ {"probe"}) \cup {"watchdog"} \in SUBSET Timer
  BY DEF Frame, TypeOK, Timer
<1>1. CASE ApReceiveProbeReq(s) \/ ApReceiveAssocReq(s) \/ ApReceiveDisassoc(s)
  BY <1>1, StationIdle
  DEF ApReceiveProbeReq, ApReceiveAssocReq, ApReceiveDisassoc, StationVars, staVars
<1>2. CASE StaReceiveProbeResp(s)
  <2>1. CASE state[s] = "WAIT_PROBE_RESP"
    BY <1>2, <1>s, <2>1, AfterAssociationRequest DEF StaReceiveProbeResp
  <2>2. CASE state[s] # "WAIT_PROBE_RESP"
    BY <1>2, <2>2, StationIdle DEF StaReceiveProbeResp, StationVars
  <2> QED BY <2>1, <2>2
<1>3. ASSUME NEW success \in BOOLEAN, StaReceiveAssocResp(s, success)
      PROVE  StationInv'
  <2>1. CASE state[s] # "WAIT_ASSOC_RESP"
    BY <1>3, <2>1, StationIdle DEF StaReceiveAssocResp, StationVars
  <2>2. CASE state[s] = "WAIT_ASSOC_RESP"
    <3>1. timers' = [timers EXCEPT ![s] = @ \ {"assoc"}]
      BY <1>3, <2>2 DEF StaReceiveAssocResp
    <3>2. \/ /\ state' = [state EXCEPT ![s] = "ASSOCIATED"]
             /\ hasAid' = [hasAid EXCEPT ![s] = TRUE]
             /\ linkUp' = [linkUp EXCEPT ![s] = TRUE]
          \/ /\ state' = [state EXCEPT ![s] = "REFUSED"]
             /\ UNCHANGED <<hasAid, linkUp>>
      BY <1>3, <2>2 DEF StaReceiveAssocResp
    <3> QED BY <3>1, <3>2, <1>s DEF StationInv, Settled, TypeOK
  <2> QED BY <2>1, <2>2
<1> QED BY <1>1, <1>2, <1>3 DEF Receive

LEMMA StationNext ==
  ASSUME TypeOK, StationInv, [Next]_vars
  PROVE  StationInv'
<1> USE DEF staVars, apVars, StationVars
<1>1. CASE SendOneBeacon
  BY <1>1, StationIdle DEF SendOneBeacon
<1>2. ASSUME NEW s \in Sta, StaStep(s) PROVE StationInv'
  BY <1>2, StationStaStep
<1>3. ASSUME NEW n \in Node, LinkStep(n) PROVE StationInv'
  <2>f. current[n] # NoFrame => current[n].frame \in Frame
    BY DEF TypeOK, Transmission
  <2>1. CASE Deliver(n)
    BY <2>1, <2>f, StationReceive DEF Deliver
  <2>2. CASE GotAck(n)
    <3>1. CASE ApTxOk(current[n].frame)
      BY <3>1, StationIdle DEF ApTxOk
    <3>2. CASE n \in Sta /\ StaTxOk(n, current[n].frame)
      <4>1. UNCHANGED <<hasAid, linkUp>>
        BY <3>2 DEF StaTxOk
      <4>2. CASE UNCHANGED <<state, timers>>
        BY <4>1, <4>2, StationIdle
      <4>3. CASE /\ state' = [state EXCEPT ![n] = "REFUSED"]
                 /\ timers' = [timers EXCEPT ![n] = @ \ {"disassoc"}]
        BY <4>1, <4>3, <3>2 DEF StationInv, Settled, TypeOK
      <4> QED BY <3>2, <4>2, <4>3 DEF StaTxOk
    <3> QED BY <2>2, <3>1, <3>2 DEF GotAck
  <2>3. CASE MissedAck(n)
    <3>1. UNCHANGED StationVars
      BY <2>3 DEF MissedAck, ApTxFailed
    <3> QED BY <3>1, StationIdle
  <2>4. CASE NotifyAccessGranted(n) \/ Cleanup(n) \/ EndTxNoAck(n)
    BY <2>4, StationIdle DEF NotifyAccessGranted, Cleanup, EndTxNoAck
  <2> QED BY <1>3, <2>1, <2>2, <2>3, <2>4 DEF LinkStep
<1>4. CASE UNCHANGED vars
  BY <1>4, StationIdle DEF vars
<1> QED BY <1>1, <1>2, <1>3, <1>4 DEF Next

(* A station that waits for an association response or for its             *)
(* disassociation to be acknowledged always has the timer of that request  *)
(* running, and one that is associated has its AID, its link up, and no    *)
(* association timeout pending.                                            *)
THEOREM StationSafety == Spec => []WaitsHaveTimers /\ []AssociatedIsSettled
<1>1. Init => StationInv
  BY DEF Init, StationInv, Settled
<1>2. StationInv => WaitsHaveTimers /\ AssociatedIsSettled
  BY DEF StationInv, Settled, WaitsHaveTimers, AssociatedIsSettled
<1>3. TypeOK /\ StationInv /\ [Next]_vars => StationInv'
  BY StationNext
<1> QED BY <1>1, <1>2, <1>3, TypeCorrect, PTL DEF Spec

(* An associated station has its AID, its link up and no association       *)
(* timeout pending, whatever timers its earlier states left running.       *)
THEOREM AssociatedStationsAreSettled == Spec => []AssociatedIsSettled
BY StationSafety, PTL

-----------------------------------------------------------------------------
(* The access point's record and list.                                     *)

LEMMA GrantedIdle ==
  ASSUME GrantedIsListed, UNCHANGED <<apStatus, listed>>
  PROVE  GrantedIsListed'
BY DEF GrantedIsListed

LEMMA GrantedNext ==
  ASSUME TypeOK, GrantedIsListed, [Next]_vars
  PROVE  GrantedIsListed'
<1> USE DEF staVars, apVars
<1>1. CASE SendOneBeacon
  BY <1>1, GrantedIdle DEF SendOneBeacon
<1>2. ASSUME NEW s \in Sta, StaStep(s) PROVE GrantedIsListed'
  <2>1. UNCHANGED <<apStatus, listed>>
    BY <1>2 DEF StaStep, StartActiveAssociation, Enqueue, EnableActiveProbing,
                DisableActiveProbing, Disassociate, ProbeRequestTimeout, AssocRequestTimeout,
                DisassocRequestTimeout, MissedBeacons, ReceiveBeacon, LoseBeacon
  <2> QED BY <2>1, GrantedIdle
<1>3. ASSUME NEW n \in Node, LinkStep(n) PROVE GrantedIsListed'
  <2>f. current[n] # NoFrame => current[n].frame.sta \in Sta
    BY DEF TypeOK, Transmission, Frame
  <2>1. CASE Deliver(n)
    <3> DEFINE s == current[n].frame.sta
    <3>1. CASE ApReceiveAssocReq(s)
      BY <2>1, <2>f, <3>1 DEF Deliver, ApReceiveAssocReq, SendAssocResp, GrantedIsListed, TypeOK
    <3>2. CASE ApReceiveDisassoc(s)
      BY <2>1, <2>f, <3>2 DEF Deliver, ApReceiveDisassoc, GrantedIsListed, TypeOK
    <3>3. CASE \/ ApReceiveProbeReq(s) \/ StaReceiveProbeResp(s)
               \/ \E success \in BOOLEAN : StaReceiveAssocResp(s, success)
      BY <3>3, GrantedIdle DEF ApReceiveProbeReq, StaReceiveProbeResp, StaReceiveAssocResp
    <3> QED BY <2>1, <3>1, <3>2, <3>3 DEF Deliver, Receive
  <2>2. CASE GotAck(n)
    BY <2>2, <2>f DEF GotAck, ApTxOk, StaTxOk, GrantedIsListed, TypeOK
  <2>3. CASE MissedAck(n)
    BY <2>3, <2>f DEF MissedAck, ApTxFailed, GrantedIsListed, TypeOK
  <2>4. CASE NotifyAccessGranted(n) \/ Cleanup(n) \/ EndTxNoAck(n)
    BY <2>4, GrantedIdle DEF NotifyAccessGranted, Cleanup, EndTxNoAck
  <2> QED BY <1>3, <2>1, <2>2, <2>3, <2>4 DEF LinkStep
<1>4. CASE UNCHANGED vars
  BY <1>4, GrantedIdle DEF vars
<1> QED BY <1>1, <1>2, <1>3, <1>4 DEF Next

(* Every station the AP is associating or holds for associated is in its   *)
(* list, through any number of associations and disassociations.           *)
THEOREM GrantsAreListed == Spec => []GrantedIsListed
<1>1. Init => GrantedIsListed
  BY DEF Init, GrantedIsListed
<1> QED BY <1>1, GrantedNext, TypeCorrect, PTL DEF Spec

-----------------------------------------------------------------------------
(* Frames in flight.  A frame is queued and served by the side that may    *)
(* send it, and a positive answer is in flight only to a station the AP    *)
(* has a record of and whose rates it accepts.                             *)

Vouched(s, record) == record[s] # "BRAND_NEW" /\ s \notin Incompatible

Proper(n, f, record) ==
  /\ IF n = AP THEN f.kind \in {"ProbeResp", "AssocResp", "AssocRefusal"}
               ELSE f.kind \in {"ProbeReq", "AssocReq", "Disassoc"} /\ f.sta = n
  /\ f.kind = "AssocResp" => Vouched(f.sta, record)

FrameInv ==
  /\ \A n \in Node : /\ \A i \in DOMAIN queue[n] : Proper(n, queue[n][i], apStatus)
                     /\ current[n] # NoFrame => Proper(n, current[n].frame, apStatus)
  /\ \A s \in Sta : state[s] = "ASSOCIATED" => Vouched(s, apStatus)

(* A step that preserves FrameInv does four things at most: it never takes *)
(* a station back to BRAND_NEW, queues only proper frames, serves only     *)
(* frames that were queued, and associates only stations vouched for.      *)
Keeps == \A s \in Sta : apStatus'[s] = "BRAND_NEW" => apStatus[s] = "BRAND_NEW"

QueuesProper ==
  \A n \in Node : \A i \in DOMAIN queue'[n] :
    \/ \E j \in DOMAIN queue[n] : queue'[n][i] = queue[n][j]
    \/ Proper(n, queue'[n][i], apStatus')

ServesQueued ==
  \A n \in Node : current'[n] # NoFrame =>
    \/ current[n] # NoFrame /\ current'[n].frame = current[n].frame
    \/ \E j \in DOMAIN queue[n] : current'[n].frame = queue[n][j]

AssociatesVouched ==
  \A s \in Sta : state'[s] = "ASSOCIATED" => state[s] = "ASSOCIATED" \/ Vouched(s, apStatus)

LEMMA FrameStep ==
  ASSUME TypeOK, FrameInv, Keeps, QueuesProper, ServesQueued, AssociatesVouched
  PROVE  FrameInv'
<1>k. ASSUME NEW n \in Node, NEW f \in Frame, Proper(n, f, apStatus)
      PROVE  Proper(n, f, apStatus')
  BY <1>k DEF Proper, Vouched, Keeps, Frame
<1>1. ASSUME NEW n \in Node, NEW j \in DOMAIN queue[n]
      PROVE  Proper(n, queue[n][j], apStatus')
  <2>1. queue[n][j] \in Frame
    BY DEF TypeOK
  <2> QED BY <2>1, <1>k DEF FrameInv
<1>2. ASSUME NEW n \in Node, NEW i \in DOMAIN queue'[n]
      PROVE  Proper(n, queue'[n][i], apStatus')
  BY <1>1 DEF QueuesProper
<1>3. ASSUME NEW n \in Node, current'[n] # NoFrame
      PROVE  Proper(n, current'[n].frame, apStatus')
  <2>1. CASE current[n] # NoFrame /\ current'[n].frame = current[n].frame
    <3>1. current[n].frame \in Frame
      BY <2>1 DEF TypeOK, Transmission
    <3>2. Proper(n, current[n].frame, apStatus)
      BY <2>1 DEF FrameInv
    <3> QED BY <2>1, <3>1, <3>2, <1>k
  <2>2. CASE \E j \in DOMAIN queue[n] : current'[n].frame = queue[n][j]
    BY <1>1, <2>2
  <2> QED BY <1>3, <2>1, <2>2 DEF ServesQueued
<1>4. ASSUME NEW s \in Sta, state'[s] = "ASSOCIATED"
      PROVE  Vouched(s, apStatus')
  <2>1. Vouched(s, apStatus)
    BY <1>4 DEF FrameInv, AssociatesVouched
  <2> QED BY <2>1 DEF Vouched, Keeps
<1> QED BY <1>2, <1>3, <1>4 DEF FrameInv

(* Queueing a frame that is proper for its node. *)
LEMMA QueuedProper ==
  ASSUME TypeOK, NEW n \in Node, NEW f \in Frame, Proper(n, f, apStatus'),
         queue' \in {queue, Queued(n, f)}
  PROVE  QueuesProper
<1>1. CASE queue' = queue
  BY <1>1 DEF QueuesProper
<1>2. CASE queue' = [queue EXCEPT ![n] = Append(@, f)]
  <2>1. \A m \in Node \ {n} : queue'[m] = queue[m]
    BY <1>2 DEF TypeOK
  <2>2. queue[n] \in Seq(Frame) /\ queue'[n] = Append(queue[n], f)
    BY <1>2 DEF TypeOK
  <2>3. ASSUME NEW i \in DOMAIN queue'[n]
        PROVE  queue'[n][i] = f \/ (i \in DOMAIN queue[n] /\ queue'[n][i] = queue[n][i])
    BY <2>2
  <2> QED BY <2>1, <2>3 DEF QueuesProper
<1> QED BY <1>1, <1>2 DEF Queued

LEMMA QueueTail ==
  ASSUME TypeOK, NEW n \in Node, queue[n] # <<>>, queue' = [queue EXCEPT ![n] = Tail(@)]
  PROVE  QueuesProper /\ \E j \in DOMAIN queue[n] : Head(queue[n]) = queue[n][j]
<1>1. \A m \in Node \ {n} : queue'[m] = queue[m]
  BY DEF TypeOK
<1>2. queue[n] \in Seq(Frame) /\ queue'[n] = Tail(queue[n])
  BY DEF TypeOK
<1>3. ASSUME NEW i \in DOMAIN queue'[n]
      PROVE  i + 1 \in DOMAIN queue[n] /\ queue'[n][i] = queue[n][i + 1]
  <2>1. \A q \in Seq(Frame) : q # <<>> =>
          /\ Len(q) \in Nat /\ DOMAIN q = 1..Len(q)
          /\ DOMAIN Tail(q) = 1..(Len(q) - 1)
          /\ \A k \in 1..(Len(q) - 1) : Tail(q)[k] = q[k + 1]
    OBVIOUS
  <2>2. i \in 1..(Len(queue[n]) - 1) /\ queue'[n][i] = queue[n][i + 1] /\ Len(queue[n]) \in Nat
    BY <1>2, <2>1
  <2> QED BY <1>2, <2>1, <2>2
<1>4. 1 \in DOMAIN queue[n] /\ Head(queue[n]) = queue[n][1]
  BY <1>2
<1> QED BY <1>1, <1>3, <1>4 DEF QueuesProper

LEMMA FrameReceive ==
  ASSUME TypeOK, FrameInv, NEW n \in Node, current[n] # NoFrame, ~current[n].delivered,
         Receive(current[n].frame)
  PROVE  Keeps /\ QueuesProper /\ AssociatesVouched
<1> DEFINE f == current[n].frame
           s == f.sta
<1> USE DEF staVars, apVars
<1>f. f \in Frame /\ s \in Sta /\ Proper(n, f, apStatus)
  BY DEF TypeOK, Transmission, Frame, FrameInv
<1>a. AP \in Node /\ AP \notin Sta /\ s \in Node
  BY <1>f DEF Node
<1>i. ASSUME UNCHANGED <<state, apStatus>>
      PROVE  Keeps /\ AssociatesVouched
  BY <1>i DEF Keeps, AssociatesVouched
<1>1. CASE ApReceiveProbeReq(s)
  <2>1. Proper(AP, StaFrame("ProbeResp", s), apStatus') /\ StaFrame("ProbeResp", s) \in Frame
    BY <1>f, FrameType DEF Proper, StaFrame, Kind
  <2> QED BY <1>1, <1>a, <1>i, <2>1, QueuedProper DEF ApReceiveProbeReq
<1>2. CASE ApReceiveAssocReq(s)
  <2>1. CASE UNCHANGED <<apStatus, listed, queue>>
    BY <1>2, <1>i, <2>1 DEF ApReceiveAssocReq, QueuesProper
  <2>2. CASE SendAssocResp(s, FALSE) /\ UNCHANGED apStatus
    <3>1. Proper(AP, StaFrame("AssocRefusal", s), apStatus') /\ StaFrame("AssocRefusal", s) \in Frame
      BY <1>f, FrameType DEF Proper, StaFrame, Kind
    <3> QED BY <1>2, <1>a, <1>i, <2>2, <3>1, QueuedProper DEF ApReceiveAssocReq, SendAssocResp
  <2>3. CASE /\ SendAssocResp(s, TRUE)
             /\ apStatus' = [apStatus EXCEPT ![s] = "WAIT_ASSOC_TX_OK"]
             /\ s \notin Incompatible
    <3>1. Proper(AP, StaFrame("AssocResp", s), apStatus') /\ StaFrame("AssocResp", s) \in Frame
      BY <1>f, <2>3, FrameType DEF Proper, StaFrame, Kind, Vouched, TypeOK
    <3>2. QueuesProper
      BY <1>a, <2>3, <3>1, QueuedProper DEF SendAssocResp
    <3>3. state' = state
      BY <1>2 DEF ApReceiveAssocReq
    <3> QED BY <2>3, <3>2, <3>3 DEF Keeps, AssociatesVouched, TypeOK
  <2> QED BY <1>2, <2>1, <2>2, <2>3 DEF ApReceiveAssocReq
<1>3. CASE ApReceiveDisassoc(s)
  BY <1>3 DEF ApReceiveDisassoc, Keeps, QueuesProper, AssociatesVouched, TypeOK
<1>4. CASE StaReceiveProbeResp(s)
  <2>1. CASE state[s] = "WAIT_PROBE_RESP"
    <3>1. queue' \in {queue, Queued(s, StaFrame("AssocReq", s))}
          /\ state' = [state EXCEPT ![s] = "WAIT_ASSOC_RESP"] /\ apStatus' = apStatus
      BY <1>4, <2>1 DEF StaReceiveProbeResp, SendAssociationRequest
    <3>2. Proper(s, StaFrame("AssocReq", s), apStatus') /\ StaFrame("AssocReq", s) \in Frame
      BY <1>f, <1>a, FrameType DEF Proper, StaFrame, Kind
    <3>3. QueuesProper
      BY <1>a, <3>1, <3>2, QueuedProper
    <3> QED BY <3>1, <3>3 DEF Keeps, AssociatesVouched, TypeOK
  <2>2. CASE state[s] # "WAIT_PROBE_RESP"
    BY <1>4, <1>i, <2>2 DEF StaReceiveProbeResp, QueuesProper
  <2> QED BY <2>1, <2>2
<1>5. CASE f.kind = "AssocResp" /\ StaReceiveAssocResp(s, TRUE)
  <2>1. Vouched(s, apStatus)
    BY <1>5, <1>f DEF Proper
  <2>2. queue' = queue /\ apStatus' = apStatus
    BY <1>5 DEF StaReceiveAssocResp
  <2>3. \A t \in Sta \ {s} : state'[t] = state[t]
    BY <1>5 DEF StaReceiveAssocResp, TypeOK
  <2> QED BY <2>1, <2>2, <2>3 DEF Keeps, QueuesProper, AssociatesVouched
<1>6. CASE StaReceiveAssocResp(s, FALSE)
  <2>1. queue' = queue /\ apStatus' = apStatus
    BY <1>6 DEF StaReceiveAssocResp
  <2>2. state' = state \/ state' = [state EXCEPT ![s] = "REFUSED"]
    BY <1>6 DEF StaReceiveAssocResp
  <2> QED BY <2>1, <2>2 DEF Keeps, QueuesProper, AssociatesVouched, TypeOK
<1> QED BY <1>1, <1>2, <1>3, <1>4, <1>5, <1>6 DEF Receive

LEMMA FrameStaStep ==
  ASSUME TypeOK, FrameInv, NEW s \in Sta, StaStep(s)
  PROVE  FrameInv'
<1> USE DEF apVars, staVars, linkVars
<1>s. s \in Node /\ s # AP
  BY DEF Node
<1>1. UNCHANGED <<apStatus, current>>
  BY DEF StaStep, StartActiveAssociation, Enqueue, EnableActiveProbing, DisableActiveProbing,
         Disassociate, ProbeRequestTimeout, AssocRequestTimeout, DisassocRequestTimeout,
         MissedBeacons, ReceiveBeacon, LoseBeacon
<1>2. \E k \in {"ProbeReq", "AssocReq", "Disassoc"} : queue' \in {queue, Queued(s, StaFrame(k, s))}
  BY DEF StaStep, StartActiveAssociation, Enqueue, EnableActiveProbing, DisableActiveProbing,
         Disassociate, ProbeRequestTimeout, AssocRequestTimeout, DisassocRequestTimeout,
         MissedBeacons, ReceiveBeacon, LoseBeacon, TryToEnsureAssociated, SendProbeRequest,
         SendAssociationRequest, SendDisAssociationRequest
<1>3. QueuesProper
  <2>1. PICK k \in {"ProbeReq", "AssocReq", "Disassoc"} : queue' \in {queue, Queued(s, StaFrame(k, s))}
    BY <1>2
  <2>2. Proper(s, StaFrame(k, s), apStatus') /\ StaFrame(k, s) \in Frame
    BY <1>s, FrameType DEF Proper, StaFrame, Kind
  <2> QED BY <1>s, <2>1, <2>2, QueuedProper
<1>4. \A t \in Sta : state'[t] = "ASSOCIATED" => state[t] = "ASSOCIATED"
  BY DEF StaStep, StartActiveAssociation, Enqueue, EnableActiveProbing, DisableActiveProbing,
         Disassociate, ProbeRequestTimeout, AssocRequestTimeout, DisassocRequestTimeout,
         MissedBeacons, ReceiveBeacon, LoseBeacon, TryToEnsureAssociated, SendProbeRequest,
         SendAssociationRequest, SendDisAssociationRequest, TypeOK
<1> QED BY <1>1, <1>3, <1>4, FrameStep DEF Keeps, ServesQueued, AssociatesVouched

LEMMA FrameLinkStep ==
  ASSUME TypeOK, FrameInv, NEW n \in Node, LinkStep(n)
  PROVE  FrameInv'
<1> USE DEF staVars, apVars
<1>f. current[n] # NoFrame => current[n].frame.sta \in Sta
  BY DEF TypeOK, Transmission, Frame
<1>i. ASSUME UNCHANGED <<state, apStatus>>
      PROVE  Keeps /\ AssociatesVouched
  BY <1>i DEF Keeps, AssociatesVouched
<1>d. ASSUME current' = [current EXCEPT ![n] = NoFrame]
      PROVE  ServesQueued
  BY <1>d DEF ServesQueued, TypeOK
<1>q. ASSUME queue' = queue
      PROVE  QueuesProper
  BY <1>q DEF QueuesProper
<1>1. CASE NotifyAccessGranted(n)
  <2>1. QueuesProper /\ \E j \in DOMAIN queue[n] : Head(queue[n]) = queue[n][j]
    BY <1>1, QueueTail DEF NotifyAccessGranted
  <2>2. ServesQueued
    <3>1. current' = [current EXCEPT ![n] = [frame |-> Head(queue[n]), delivered |-> FALSE]]
      BY <1>1 DEF NotifyAccessGranted
    <3> QED BY <2>1, <3>1 DEF ServesQueued, TypeOK
  <2> QED BY <1>1, <1>i, <2>1, <2>2, FrameStep DEF NotifyAccessGranted
<1>2. CASE Cleanup(n)
  <2>1. QueuesProper
    BY <1>2, QueueTail DEF Cleanup
  <2> QED BY <1>2, <1>i, <2>1, FrameStep DEF Cleanup, ServesQueued
<1>3. CASE Deliver(n)
  <2>1. Keeps /\ QueuesProper /\ AssociatesVouched
    BY <1>3, FrameReceive DEF Deliver
  <2>2. ServesQueued
    <3>1. current' = [current EXCEPT ![n] = [current[n] EXCEPT !.delivered = TRUE]]
      BY <1>3 DEF Deliver
    <3>2. [current[n] EXCEPT !.delivered = TRUE].frame = current[n].frame
      BY <1>3 DEF Deliver, TypeOK, Transmission
    <3> QED BY <1>3, <3>1, <3>2 DEF Deliver, ServesQueued, TypeOK
  <2> QED BY <2>1, <2>2, FrameStep
<1>4. CASE EndTxNoAck(n)
  BY <1>4, <1>i, <1>d, <1>q, FrameStep DEF EndTxNoAck
<1>5. CASE GotAck(n)
  <2>1. Keeps /\ AssociatesVouched
    <3>1. CASE ApTxOk(current[n].frame)
      BY <1>5, <1>f, <3>1 DEF GotAck, ApTxOk, Keeps, AssociatesVouched, TypeOK
    <3>2. CASE n \in Sta /\ StaTxOk(n, current[n].frame)
      BY <3>2 DEF StaTxOk, Keeps, AssociatesVouched, TypeOK
    <3> QED BY <1>5, <3>1, <3>2 DEF GotAck
  <2> QED BY <1>5, <1>d, <1>q, <2>1, FrameStep DEF GotAck
<1>6. CASE MissedAck(n)
  <2>1. Keeps /\ AssociatesVouched
    BY <1>6, <1>f, <1>i DEF MissedAck, ApTxFailed, Keeps, AssociatesVouched, TypeOK
  <2> QED BY <1>6, <1>d, <1>q, <2>1, FrameStep DEF MissedAck
<1> QED BY <1>1, <1>2, <1>3, <1>4, <1>5, <1>6 DEF LinkStep

LEMMA FrameNext ==
  ASSUME TypeOK, FrameInv, [Next]_vars
  PROVE  FrameInv'
<1>1. CASE SendOneBeacon
  BY <1>1, FrameStep DEF SendOneBeacon, linkVars, Keeps, QueuesProper, ServesQueued, AssociatesVouched
<1>2. CASE UNCHANGED vars
  BY <1>2, FrameStep
  DEF vars, staVars, apVars, linkVars, Keeps, QueuesProper, ServesQueued, AssociatesVouched
<1> QED BY <1>1, <1>2, FrameStaStep, FrameLinkStep DEF Next

LEMMA FramesSafe == Spec => []FrameInv
<1>1. Init => FrameInv
  BY DEF Init, FrameInv, Node
<1> QED BY <1>1, FrameNext, TypeCorrect, PTL DEF Spec

(* A station is associated, or about to be, only by an answer of the AP to *)
(* a request it recorded, and never when the AP refuses its rates.         *)
THEOREM AssociationIsGranted == Spec => []OnlyGrantedAssociate
<1>1. TypeOK /\ FrameInv => OnlyGrantedAssociate
  <2> SUFFICES ASSUME TypeOK, FrameInv, NEW s \in Sta, AnswerInFlight(s)
               PROVE  Vouched(s, apStatus)
    BY DEF OnlyGrantedAssociate, FrameInv, Vouched
  <2>a. AP \in Node
    BY DEF Node
  <2>1. CASE \E i \in DOMAIN queue[AP] : queue[AP][i] = StaFrame("AssocResp", s)
    BY <2>1, <2>a DEF FrameInv, Proper, StaFrame
  <2>2. CASE InService(AP, StaFrame("AssocResp", s))
    <3>1. current[AP] # NoFrame /\ current[AP].frame = StaFrame("AssocResp", s)
      <4>1. current[AP] = [frame |-> StaFrame("AssocResp", s), delivered |-> FALSE]
        BY <2>2 DEF InService
      <4>2. DOMAIN current[AP] = {"frame", "delivered"} /\ DOMAIN NoFrame = {"frame"}
        BY <4>1 DEF NoFrame
      <4> QED BY <4>1, <4>2
    <3> QED BY <3>1, <2>a DEF FrameInv, Proper, StaFrame
  <2> QED BY <2>1, <2>2 DEF AnswerInFlight
<1> QED BY <1>1, FramesSafe, TypeCorrect, PTL

-----------------------------------------------------------------------------
(* Forgetting an associated station.                                       *)

LEMMA ForgetsStep ==
  ASSUME TypeOK, FrameInv, [Next]_vars, NEW s \in Sta,
         apStatus[s] = "GOT_ASSOC_TX_OK", apStatus'[s] # "GOT_ASSOC_TX_OK"
  PROVE  InService(s, StaFrame("Disassoc", s))
<1> USE DEF staVars, apVars
<1>1. PICK n \in Node : LinkStep(n)
  <2>1. ~SendOneBeacon
    BY DEF SendOneBeacon
  <2>2. \A t \in Sta : ~StaStep(t)
    BY DEF StaStep, StartActiveAssociation, Enqueue, EnableActiveProbing, DisableActiveProbing,
           Disassociate, ProbeRequestTimeout, AssocRequestTimeout, DisassocRequestTimeout,
           MissedBeacons, ReceiveBeacon, LoseBeacon
  <2>3. ~UNCHANGED vars
    BY DEF vars
  <2> QED BY <2>1, <2>2, <2>3 DEF Next
<1>2. Deliver(n)
  <2>f. current[n] # NoFrame => current[n].frame.sta \in Sta
    BY DEF TypeOK, Transmission, Frame
  <2>1. ~NotifyAccessGranted(n) /\ ~Cleanup(n) /\ ~EndTxNoAck(n)
    BY DEF NotifyAccessGranted, Cleanup, EndTxNoAck
  <2>2. ~GotAck(n)
    BY <2>f DEF GotAck, ApTxOk, StaTxOk, TypeOK
  <2>3. ~MissedAck(n)
    BY <2>f DEF MissedAck, ApTxFailed, TypeOK
  <2> QED BY <1>1, <2>1, <2>2, <2>3 DEF LinkStep
<1> DEFINE f == current[n].frame
<1>3. f \in Frame /\ f.sta \in Sta /\ Proper(n, f, apStatus) /\ ~current[n].delivered
  BY <1>2 DEF Deliver, TypeOK, Transmission, Frame, FrameInv
<1>4. f.kind = "Disassoc" /\ f.sta = s
  <2>1. ~ApReceiveProbeReq(f.sta) /\ ~StaReceiveProbeResp(f.sta)
    BY DEF ApReceiveProbeReq, StaReceiveProbeResp
  <2>2. \A success \in BOOLEAN : ~StaReceiveAssocResp(f.sta, success)
    BY DEF StaReceiveAssocResp
  <2>3. ~ApReceiveAssocReq(f.sta)
    BY <1>3 DEF ApReceiveAssocReq, TypeOK
  <2>4. f.kind = "Disassoc" /\ ApReceiveDisassoc(f.sta)
    BY <1>2, <2>1, <2>2, <2>3 DEF Deliver, Receive
  <2> QED BY <1>3, <2>4 DEF ApReceiveDisassoc, TypeOK
<1>5. n = s
  BY <1>3, <1>4 DEF Proper
<1>6. current[n] = [frame |-> f, delivered |-> FALSE]
  BY <1>2, <1>3 DEF Deliver, TypeOK, Transmission
<1>7. f = StaFrame("Disassoc", s)
  BY <1>3, <1>4 DEF StaFrame, Frame
<1> QED BY <1>5, <1>6, <1>7 DEF InService

(* Only the disassociation a station itself sent makes the AP forget it.   *)
THEOREM ForgetsOnlyOnDisassociation == Spec => OnlyDisassociationForgets
<1>1. ASSUME TypeOK, FrameInv, [Next]_vars
      PROVE  [\A s \in Sta : apStatus[s] = "GOT_ASSOC_TX_OK" /\ apStatus'[s] # "GOT_ASSOC_TX_OK" =>
                InService(s, StaFrame("Disassoc", s))]_vars
  BY <1>1, ForgetsStep
<1> QED BY <1>1, FramesSafe, TypeCorrect, PTL DEF Spec, OnlyDisassociationForgets

-----------------------------------------------------------------------------
(* The association exchange implements its service: each step of           *)
(* Association is a step of AssociationService, or changes nothing there.  *)
(* First, how often a frame is in a queue.                                 *)

LEMMA PositionsFinite ==
  ASSUME NEW q \in Seq(Frame), NEW f
  PROVE  IsFiniteSet(Positions(q, f)) /\ Cardinality(Positions(q, f)) \in Nat
<1>1. Positions(q, f) \subseteq 1..Len(q) /\ 1 \in Int /\ Len(q) \in Int
  BY DEF Positions
<1>2. IsFiniteSet(1..Len(q))
  BY <1>1, FS_Interval
<1>3. IsFiniteSet(Positions(q, f))
  BY <1>1, <1>2, FS_Subset
<1> QED BY <1>3, FS_CardinalityType

LEMMA PositionsAppend ==
  ASSUME NEW q \in Seq(Frame), NEW f, NEW g
  PROVE  Cardinality(Positions(Append(q, g), f))
           = Cardinality(Positions(q, f)) + (IF g = f THEN 1 ELSE 0)
<1> DEFINE r == Append(q, g)
           n == Len(q) + 1
<1>1. /\ n \in Nat /\ DOMAIN q = 1..Len(q) /\ DOMAIN r = 1..n /\ Len(q) \in Nat
      /\ r[n] = g /\ \A i \in 1..Len(q) : r[i] = q[i]
  OBVIOUS
<1> HIDE DEF r
<1>2. n \notin DOMAIN q /\ \A i : i \in DOMAIN r <=> (i \in DOMAIN q \/ i = n)
  BY <1>1
<1> HIDE DEF n
<1>3. n \notin Positions(q, f)
  BY <1>2 DEF Positions
<1>4. Positions(r, f) = Positions(q, f) \cup (IF g = f THEN {n} ELSE {})
  BY <1>1, <1>2 DEF Positions
<1>5. CASE g = f
  <2>1. Positions(r, f) = Positions(q, f) \cup {n}
    BY <1>4, <1>5
  <2>2. IsFiniteSet(Positions(q, f))
    BY PositionsFinite
  <2>3. Cardinality(Positions(q, f) \cup {n}) = Cardinality(Positions(q, f)) + 1
    BY <1>3, <2>2, FS_AddElement
  <2> QED BY <1>5, <2>1, <2>3 DEF r
<1>6. CASE g # f
  <2>1. Positions(r, f) = Positions(q, f)
    BY <1>4, <1>6
  <2> QED BY <1>6, <2>1, PositionsFinite DEF r
<1> QED BY <1>5, <1>6

LEMMA PositionsTail ==
  ASSUME NEW q \in Seq(Frame), q # <<>>, NEW f
  PROVE  Cardinality(Positions(q, f))
           = Cardinality(Positions(Tail(q), f)) + (IF Head(q) = f THEN 1 ELSE 0)
<1> DEFINE r == Tail(q)
           S == Positions(r, f)
           T == Positions(q, f) \ {1}
           shift == [i \in S |-> i + 1]
<1>1. /\ r \in Seq(Frame) /\ Len(q) \in Nat \ {0} /\ DOMAIN q = 1..Len(q)
      /\ DOMAIN r = 1..(Len(q) - 1) /\ Head(q) = q[1]
      /\ \A i \in 1..(Len(q) - 1) : r[i] = q[i + 1]
  OBVIOUS
<1> HIDE DEF r
<1>2. \A i \in S : i \in Nat /\ i + 1 \in T
  BY <1>1 DEF Positions
<1>3. \A j \in T : j - 1 \in S /\ (j - 1) + 1 = j
  BY <1>1 DEF Positions
<1>4. shift \in Bijection(S, T)
  <2>1. shift \in [S -> T] /\ \A i, j \in S : shift[i] = shift[j] => i = j
    BY <1>2
  <2>2. \A j \in T : \E i \in S : shift[i] = j
    <3> SUFFICES ASSUME NEW j \in T PROVE \E i \in S : shift[i] = j
      OBVIOUS
    <3>1. j - 1 \in S /\ shift[j - 1] = j
      BY <1>3
    <3> QED BY <3>1
  <2> HIDE DEF S, T, shift
  <2> QED BY <2>1, <2>2 DEF Bijection, Injection, IsInjective, Surjection
<1>5. IsFiniteSet(S) /\ IsFiniteSet(Positions(q, f)) /\ Cardinality(Positions(q, f)) \in Nat
  BY <1>1, PositionsFinite
<1>6. Cardinality(T) = Cardinality(S)
  BY <1>4, <1>5, FS_Bijection DEF ExistsBijection
<1>7. Cardinality(T) = IF 1 \in Positions(q, f) THEN Cardinality(Positions(q, f)) - 1
                                                ELSE Cardinality(Positions(q, f))
  BY <1>5, FS_RemoveElement
<1>8. 1 \in Positions(q, f) <=> Head(q) = f
  BY <1>1 DEF Positions
<1> HIDE DEF S, T
<1>9. Cardinality(Positions(q, f)) = Cardinality(S) + (IF Head(q) = f THEN 1 ELSE 0)
  BY <1>5, <1>6, <1>7, <1>8
<1> QED BY <1>9 DEF S, r

-----------------------------------------------------------------------------
(* Steps of the service, in terms of members and unused answers.           *)

Answer(s) == StaFrame("AssocResp", s)
Member(s) == state[s] = "ASSOCIATED"

SameGrants(S)  == \A s \in S : Unused(s)' = Unused(s)
SameMembers(S) == \A s \in S : Member(s)' <=> Member(s)

ServiceStep == [Service!ServiceNext]_(Service!svars)

LEMMA Stutters == SameGrants(Sta) /\ SameMembers(Sta) => ServiceStep
  BY DEF SameGrants, SameMembers, Member, ServiceStep, Service!svars

LEMMA Leaves ==
  ASSUME NEW s \in Sta, SameGrants(Sta), SameMembers(Sta \ {s}), Member(s)' => Member(s)
  PROVE  ServiceStep
<1>1. CASE Member(s)' <=> Member(s)
  BY <1>1, Stutters DEF SameMembers
<1>2. CASE Member(s) /\ ~Member(s)'
  BY <1>2 DEF SameGrants, SameMembers, Member, ServiceStep, Service!ServiceNext, Service!Leave
<1> QED BY <1>1, <1>2

LEMMA Grants ==
  ASSUME NEW s \in Sta \ Incompatible, Unused(s)' = Unused(s) + 1,
         SameGrants(Sta \ {s}), SameMembers(Sta)
  PROVE  ServiceStep
<1>1. [t \in Sta |-> Unused(t)'] = [[t \in Sta |-> Unused(t)] EXCEPT ![s] = @ + 1]
  BY DEF SameGrants
<1>2. {t \in Sta : state'[t] = "ASSOCIATED"} = {t \in Sta : state[t] = "ASSOCIATED"}
  BY DEF SameMembers, Member
<1>3. Service!Grant(s)
  BY <1>1, <1>2 DEF Service!Grant
<1> QED BY <1>3 DEF ServiceStep, Service!ServiceNext

(* A positive answer that is used up or lost.                              *)
LEMMA Spends ==
  ASSUME NEW s \in Sta, Unused(s)' \in Nat, Unused(s) = Unused(s)' + 1,
         SameGrants(Sta \ {s}), SameMembers(Sta \ {s}), Member(s)' <=> Member(s)
  PROVE  ServiceStep
<1>1. [t \in Sta |-> Unused(t)'] = [[t \in Sta |-> Unused(t)] EXCEPT ![s] = @ - 1]
  <2>1. Unused(s)' = Unused(s) - 1
    OBVIOUS
  <2> QED BY <2>1 DEF SameGrants
<1>2. {t \in Sta : state'[t] = "ASSOCIATED"} = {t \in Sta : state[t] = "ASSOCIATED"}
  BY DEF SameMembers, Member
<1>3. Service!Withdraw(s)
  BY <1>1, <1>2 DEF Service!Withdraw
<1> QED BY <1>3 DEF ServiceStep, Service!ServiceNext

LEMMA Joins ==
  ASSUME NEW s \in Sta, Unused(s)' \in Nat, Unused(s) = Unused(s)' + 1,
         SameGrants(Sta \ {s}), SameMembers(Sta \ {s}), ~Member(s), Member(s)'
  PROVE  ServiceStep
<1>1. [t \in Sta |-> Unused(t)'] = [[t \in Sta |-> Unused(t)] EXCEPT ![s] = @ - 1]
  <2>1. Unused(s)' = Unused(s) - 1
    OBVIOUS
  <2> QED BY <2>1 DEF SameGrants
<1>2. {t \in Sta : state'[t] = "ASSOCIATED"} = {t \in Sta : state[t] = "ASSOCIATED"} \cup {s}
  BY DEF SameMembers, Member
<1>3. s \notin {t \in Sta : state[t] = "ASSOCIATED"}
  BY DEF Member
<1>4. Service!Join(s)
  BY <1>1, <1>2, <1>3 DEF Service!Join
<1> QED BY <1>4 DEF ServiceStep, Service!ServiceNext

-----------------------------------------------------------------------------
(* What the steps of Association do to unused answers.                     *)

LEMMA Served ==
  ASSUME TypeOK, NEW n \in Node, NEW f
  PROVE  InService(n, f) <=> /\ current[n] # NoFrame
                             /\ current[n].frame = f
                             /\ ~current[n].delivered
<1>1. CASE current[n] = NoFrame
  <2>1. DOMAIN NoFrame = {"frame"} /\ DOMAIN [frame |-> f, delivered |-> FALSE] = {"frame", "delivered"}
    BY DEF NoFrame
  <2> QED BY <1>1, <2>1 DEF InService
<1>2. CASE current[n] \in Transmission /\ current[n] # NoFrame
  <2>1. current[n] = [frame |-> current[n].frame, delivered |-> current[n].delivered]
        /\ current[n].delivered \in BOOLEAN
    BY <1>2 DEF Transmission
  <2>2. CASE current[n].frame = f /\ ~current[n].delivered
    <3>1. current[n].delivered = FALSE
      BY <2>1, <2>2
    <3> QED BY <1>2, <2>1, <2>2, <3>1 DEF InService
  <2>3. CASE InService(n, f)
    <3>1. current[n] = [frame |-> f, delivered |-> FALSE]
      BY <2>3 DEF InService
    <3> QED BY <1>2, <2>3, <3>1
  <2> QED BY <1>2, <2>2, <2>3
<1> QED BY <1>1, <1>2 DEF TypeOK

LEMMA UnusedType ==
  ASSUME NEW s \in Sta
  PROVE  /\ TypeOK => Unused(s) \in Nat
         /\ TypeOK' => Unused(s)' \in Nat
<1>1. ASSUME TypeOK PROVE Unused(s) \in Nat
  <2>1. queue[AP] \in Seq(Frame)
    BY <1>1 DEF TypeOK, Node
  <2> QED BY <2>1, PositionsFinite DEF Unused
<1>2. ASSUME TypeOK' PROVE Unused(s)' \in Nat
  <2>1. queue'[AP] \in Seq(Frame)
    BY <1>2 DEF TypeOK, Node
  <2>2. Unused(s)' = Cardinality(Positions(queue'[AP], StaFrame("AssocResp", s)))
                       + (IF InService(AP, StaFrame("AssocResp", s))' THEN 1 ELSE 0)
    BY DEF Unused, Positions, StaFrame
  <2> QED BY <2>1, <2>2, PositionsFinite
<1> QED BY <1>1, <1>2

LEMMA ApUntouched ==
  ASSUME queue'[AP] = queue[AP], current'[AP] = current[AP]
  PROVE  SameGrants(Sta)
  BY DEF SameGrants, Unused, InService

(* The AP's queue gets a frame at its end, or is full.                     *)
LEMMA ApQueues ==
  ASSUME TypeOK, current'[AP] = current[AP], NEW f, queue' = Queued(AP, f), NEW s \in Sta
  PROVE  /\ f # Answer(s) => Unused(s)' = Unused(s)
         /\ f = Answer(s) => Unused(s)' \in {Unused(s), Unused(s) + 1}
<1>1. queue[AP] \in Seq(Frame)
  BY DEF TypeOK, Node
<1>2. CASE queue' = queue
  BY <1>2 DEF Unused, InService
<1>3. CASE queue' = [queue EXCEPT ![AP] = Append(@, f)]
  <2>1. queue'[AP] = Append(queue[AP], f)
    BY <1>3 DEF TypeOK, Node
  <2>2. Cardinality(Positions(queue'[AP], Answer(s)))
          = Cardinality(Positions(queue[AP], Answer(s))) + (IF f = Answer(s) THEN 1 ELSE 0)
    BY <1>1, <2>1, PositionsAppend
  <2>3. InService(AP, Answer(s))' <=> InService(AP, Answer(s))
    BY DEF InService, Answer, StaFrame
  <2>4. Cardinality(Positions(queue[AP], Answer(s))) \in Nat
    BY <1>1, PositionsFinite
  <2> QED BY <2>2, <2>3, <2>4 DEF Unused, Answer
<1> QED BY <1>2, <1>3 DEF Queued

(* A step that takes the frame in service away from the AP, or delivers it. *)
LEMMA ApServed ==
  ASSUME TypeOK, TypeOK', queue'[AP] = queue[AP], NEW s \in Sta,
         ~InService(AP, Answer(s))'
  PROVE  Unused(s) = Unused(s)' + (IF InService(AP, Answer(s)) THEN 1 ELSE 0)
<1>1. Cardinality(Positions(queue[AP], Answer(s))) \in Nat
  BY PositionsFinite DEF TypeOK, Node
<1> QED BY <1>1 DEF Unused, Answer

(* A frame that leaves service takes at most one unused answer with it.    *)
LEMMA Withdraws ==
  ASSUME TypeOK, TypeOK', queue'[AP] = queue[AP], SameMembers(Sta),
         \A s \in Sta : ~InService(AP, Answer(s))'
  PROVE  ServiceStep
<1>1. \A s \in Sta : Unused(s) = Unused(s)' + (IF InService(AP, Answer(s)) THEN 1 ELSE 0)
  BY ApServed
<1>2. \A s \in Sta : Unused(s) \in Nat
  BY UnusedType
<1>3. \A s \in Sta : Unused(s)' \in Nat
  BY UnusedType
<1>4. CASE \E s \in Sta : InService(AP, Answer(s))
  <2>1. PICK s \in Sta : InService(AP, Answer(s))
    BY <1>4
  <2>2. \A t \in Sta \ {s} : ~InService(AP, Answer(t))
    <3> SUFFICES ASSUME NEW t \in Sta, InService(AP, Answer(t)) PROVE t = s
      OBVIOUS
    <3>1. current[AP].frame.sta = s /\ current[AP].frame.sta = t
      BY <2>1 DEF InService, Answer, StaFrame
    <3> QED BY <3>1
  <2>3. SameGrants(Sta \ {s})
    BY <1>1, <1>2, <1>3, <2>2 DEF SameGrants
  <2>4. Unused(s) = Unused(s)' + 1
    BY <1>1, <2>1
  <2> QED BY <1>3, <2>3, <2>4, Spends DEF SameMembers
<1>5. CASE \A s \in Sta : ~InService(AP, Answer(s))
  <2>1. SameGrants(Sta)
    BY <1>1, <1>2, <1>3, <1>5 DEF SameGrants
  <2> QED BY <2>1, Stutters
<1> QED BY <1>4, <1>5

(* The AP takes the head of its queue into service, or drops it.           *)
LEMMA ApTail ==
  ASSUME TypeOK, queue[AP] # <<>>, queue' = [queue EXCEPT ![AP] = Tail(@)], NEW s \in Sta
  PROVE  Unused(s) + (IF InService(AP, Answer(s))' THEN 1 ELSE 0)
           = Unused(s)' + (IF InService(AP, Answer(s)) THEN 1 ELSE 0)
                        + (IF Head(queue[AP]) = Answer(s) THEN 1 ELSE 0)
<1>1. queue[AP] \in Seq(Frame) /\ queue'[AP] = Tail(queue[AP]) /\ Tail(queue[AP]) \in Seq(Frame)
  BY DEF TypeOK, Node
<1>2. Cardinality(Positions(queue[AP], Answer(s)))
        = Cardinality(Positions(queue'[AP], Answer(s))) + (IF Head(queue[AP]) = Answer(s) THEN 1 ELSE 0)
  BY <1>1, PositionsTail
<1>3. Cardinality(Positions(queue'[AP], Answer(s))) \in Nat
  BY <1>1, PositionsFinite
<1>4. Unused(s) = Cardinality(Positions(queue[AP], Answer(s)))
                    + (IF InService(AP, Answer(s)) THEN 1 ELSE 0)
  BY DEF Unused, Answer
<1>5. Unused(s)' = Cardinality(Positions(queue'[AP], Answer(s)))
                     + (IF InService(AP, Answer(s))' THEN 1 ELSE 0)
  BY DEF Unused, Answer, Positions, StaFrame
<1> QED BY <1>2, <1>3, <1>4, <1>5

LEMMA GrantedAccess ==
  ASSUME TypeOK, TypeOK', NEW n \in Node, NotifyAccessGranted(n)
  PROVE  ServiceStep
<1>1. SameMembers(Sta)
  BY DEF NotifyAccessGranted, staVars, SameMembers, Member
<1>2. CASE n # AP
  <2>1. queue'[AP] = queue[AP] /\ current'[AP] = current[AP]
    BY <1>2 DEF NotifyAccessGranted, TypeOK
  <2> QED BY <1>1, <2>1, ApUntouched, Stutters
<1>3. CASE n = AP
  <2>1. /\ queue[AP] # <<>> /\ queue' = [queue EXCEPT ![AP] = Tail(@)]
        /\ current[AP] = NoFrame
        /\ current'[AP] = [frame |-> Head(queue[AP]), delivered |-> FALSE]
    BY <1>3 DEF NotifyAccessGranted, TypeOK, Node
  <2>2. SameGrants(Sta)
    <3> SUFFICES ASSUME NEW s \in Sta PROVE Unused(s)' = Unused(s)
      BY DEF SameGrants
    <3>1. ~InService(AP, Answer(s))
      BY <2>1, Served DEF Node
    <3>2. InService(AP, Answer(s))' <=> Head(queue[AP]) = Answer(s)
      <4>1. InService(AP, Answer(s))' <=> current'[AP] = [frame |-> Answer(s), delivered |-> FALSE]
        BY DEF InService, Answer, StaFrame
      <4>2. ASSUME current'[AP] = [frame |-> Answer(s), delivered |-> FALSE]
            PROVE  Head(queue[AP]) = Answer(s)
        <5>1. current'[AP].frame = Head(queue[AP])
          BY <2>1
        <5>2. current'[AP].frame = Answer(s)
          BY <4>2
        <5> QED BY <5>1, <5>2
      <4> QED BY <2>1, <4>1, <4>2
    <3>3. Unused(s) + (IF Head(queue[AP]) = Answer(s) THEN 1 ELSE 0)
            = Unused(s)' + (IF Head(queue[AP]) = Answer(s) THEN 1 ELSE 0)
      BY <2>1, <3>1, <3>2, ApTail, UnusedType
    <3> QED BY <3>3, UnusedType
  <2> QED BY <1>1, <2>2, Stutters
<1> QED BY <1>2, <1>3

LEMMA Expires ==
  ASSUME TypeOK, TypeOK', NEW n \in Node, Cleanup(n)
  PROVE  ServiceStep
<1>1. SameMembers(Sta)
  BY DEF Cleanup, staVars, SameMembers, Member
<1>2. CASE n # AP
  <2>1. queue'[AP] = queue[AP] /\ current'[AP] = current[AP]
    BY <1>2 DEF Cleanup, TypeOK
  <2> QED BY <1>1, <2>1, ApUntouched, Stutters
<1>3. CASE n = AP
  <2>1. queue[AP] # <<>> /\ queue' = [queue EXCEPT ![AP] = Tail(@)] /\ current' = current
    BY <1>3 DEF Cleanup
  <2>2. ASSUME NEW s \in Sta
        PROVE  Unused(s) = Unused(s)' + (IF Head(queue[AP]) = Answer(s) THEN 1 ELSE 0)
    <3>1. InService(AP, Answer(s))' <=> InService(AP, Answer(s))
      BY <2>1 DEF InService, Answer, StaFrame
    <3>2. Unused(s) \in Nat /\ Unused(s)' \in Nat
      BY UnusedType
    <3> QED BY <2>1, <3>1, <3>2, ApTail
  <2>3. CASE \E s \in Sta : Head(queue[AP]) = Answer(s)
    <3>1. PICK s \in Sta : Head(queue[AP]) = Answer(s)
      BY <2>3
    <3>2. \A t \in Sta \ {s} : Answer(t) # Answer(s)
      <4> SUFFICES ASSUME NEW t \in Sta, Answer(t) = Answer(s) PROVE t = s
        OBVIOUS
      <4>1. Answer(t).sta = t /\ Answer(s).sta = s
        BY DEF Answer, StaFrame
      <4> QED BY <4>1
    <3>3. SameGrants(Sta \ {s})
      <4> SUFFICES ASSUME NEW t \in Sta \ {s} PROVE Unused(t)' = Unused(t)
        BY DEF SameGrants
      <4>1. Head(queue[AP]) # Answer(t)
        BY <3>1, <3>2
      <4>2. Unused(t) = Unused(t)' + 0
        BY <2>2, <4>1
      <4>3. Unused(t)' \in Nat
        BY UnusedType
      <4> QED BY <4>2, <4>3
    <3>4. Unused(s) = Unused(s)' + 1 /\ Unused(s)' \in Nat
      BY <2>2, <3>1, UnusedType
    <3> QED BY <1>1, <3>3, <3>4, Spends DEF SameMembers
  <2>4. CASE \A s \in Sta : Head(queue[AP]) # Answer(s)
    <3>1. SameGrants(Sta)
      <4> SUFFICES ASSUME NEW t \in Sta PROVE Unused(t)' = Unused(t)
        BY DEF SameGrants
      <4>1. Unused(t) = Unused(t)' + 0
        BY <2>2, <2>4
      <4>2. Unused(t)' \in Nat
        BY UnusedType
      <4> QED BY <4>1, <4>2
    <3> QED BY <1>1, <3>1, Stutters
  <2> QED BY <2>3, <2>4
<1> QED BY <1>2, <1>3

-----------------------------------------------------------------------------
(* Deliveries and the other steps.                                         *)

LEMMA ApReceives ==
  ASSUME TypeOK, TypeOK', NEW s \in Sta, current'[AP] = current[AP],
         ApReceiveProbeReq(s) \/ ApReceiveAssocReq(s) \/ ApReceiveDisassoc(s)
  PROVE  ServiceStep
<1> USE DEF staVars
<1>1. SameMembers(Sta)
  BY DEF ApReceiveProbeReq, ApReceiveAssocReq, ApReceiveDisassoc, SameMembers, Member
<1>2. \A k, l \in Kind, t, u \in Sta : StaFrame(k, t) = StaFrame(l, u) => k = l /\ t = u
  <2> SUFFICES ASSUME NEW k \in Kind, NEW l \in Kind, NEW t \in Sta, NEW u \in Sta,
                      StaFrame(k, t) = StaFrame(l, u)
               PROVE  k = l /\ t = u
    OBVIOUS
  <2>1. StaFrame(k, t).kind = k /\ StaFrame(k, t).sta = t
        /\ StaFrame(l, u).kind = l /\ StaFrame(l, u).sta = u
    BY DEF StaFrame
  <2> QED BY <2>1
<1>3. CASE queue' = queue
  BY <1>1, <1>3, ApUntouched, Stutters
<1>4. ASSUME NEW k \in {"ProbeResp", "AssocRefusal"}, queue' = Queued(AP, StaFrame(k, s))
      PROVE  ServiceStep
  <2>1. \A t \in Sta : StaFrame(k, s) # Answer(t)
    BY <1>2 DEF Answer, Kind
  <2>2. SameGrants(Sta)
    BY <1>4, <2>1, ApQueues DEF SameGrants
  <2> QED BY <1>1, <2>2, Stutters
<1>5. CASE queue' = Queued(AP, Answer(s)) /\ s \notin Incompatible
  <2>1. \A t \in Sta \ {s} : Answer(s) # Answer(t)
    BY <1>2 DEF Answer, Kind
  <2>2. SameGrants(Sta \ {s})
    BY <1>5, <2>1, ApQueues DEF SameGrants
  <2>3. Unused(s)' \in {Unused(s), Unused(s) + 1}
    BY <1>5, ApQueues
  <2>4. CASE Unused(s)' = Unused(s)
    <3>1. SameGrants(Sta)
      BY <2>2, <2>4 DEF SameGrants
    <3> QED BY <1>1, <3>1, Stutters
  <2>5. CASE Unused(s)' = Unused(s) + 1
    <3>1. s \in Sta \ Incompatible
      BY <1>5
    <3> QED BY <1>1, <2>2, <2>5, <3>1, Grants
  <2> QED BY <2>3, <2>4, <2>5
<1>6. CASE ApReceiveProbeReq(s)
  BY <1>4, <1>6 DEF ApReceiveProbeReq
<1>7. CASE ApReceiveAssocReq(s)
  <2>1. CASE s \in Incompatible /\ SendAssocResp(s, FALSE)
    <3>1. queue' = Queued(AP, StaFrame("AssocRefusal", s))
      BY <2>1 DEF SendAssocResp
    <3> QED BY <1>4, <3>1
  <2>2. CASE s \notin Incompatible /\ SendAssocResp(s, TRUE)
    <3>1. queue' = Queued(AP, Answer(s))
      BY <2>2 DEF SendAssocResp, Answer
    <3> QED BY <1>5, <2>2, <3>1
  <2> QED BY <1>3, <1>7, <2>1, <2>2 DEF ApReceiveAssocReq
<1>8. CASE ApReceiveDisassoc(s)
  BY <1>3, <1>8 DEF ApReceiveDisassoc
<1> QED BY <1>6, <1>7, <1>8

(* What a station sends stays at the station.                              *)
LEMMA StaQueues ==
  ASSUME TypeOK, NEW s \in Sta, NEW f, queue' \in {queue, Queued(s, f)}
  PROVE  queue'[AP] = queue[AP]
<1>1. s # AP
  BY StationAssumption
<1>2. DOMAIN queue = Node /\ AP \in Node
  BY DEF TypeOK, Node
<1>3. CASE queue' = [queue EXCEPT ![s] = Append(@, f)]
  BY <1>1, <1>2, <1>3
<1> QED BY <1>3 DEF Queued

LEMMA StaReceives ==
  ASSUME TypeOK, TypeOK', NEW s \in Sta, NEW f \in Frame, f.sta = s,
         current[AP] # NoFrame, ~current[AP].delivered, current[AP].frame = f,
         current' = [current EXCEPT ![AP].delivered = TRUE],
         \/ StaReceiveProbeResp(s)
         \/ f.kind = "AssocResp" /\ StaReceiveAssocResp(s, TRUE)
         \/ StaReceiveAssocResp(s, FALSE)
  PROVE  ServiceStep
<1>1. AP \in Node /\ current[AP] \in Transmission
  BY DEF Node, TypeOK
<1>2. \A t \in Sta : ~InService(AP, Answer(t))'
  <2>1. current'[AP] = [current[AP] EXCEPT !.delivered = TRUE]
    BY <1>1 DEF TypeOK
  <2>2. current'[AP].delivered = TRUE
    BY <1>1, <2>1 DEF Transmission
  <2>3. \A t \in Sta : InService(AP, Answer(t))' => current'[AP].delivered = FALSE
    BY DEF InService
  <2> QED BY <2>2, <2>3
<1>3. queue'[AP] = queue[AP]
  <2>1. queue' \in {queue, Queued(s, StaFrame("AssocReq", s))}
    BY DEF StaReceiveProbeResp, StaReceiveAssocResp, SendAssociationRequest
  <2> QED BY <2>1, StaQueues
<1>4. /\ \A t \in Sta \ {s} : state'[t] = state[t]
      /\ StaReceiveProbeResp(s) \/ StaReceiveAssocResp(s, FALSE) => (Member(s)' <=> Member(s))
      /\ Member(s) => Member(s)'
  <2>1. StaReceiveProbeResp(s) =>
          state' = state \/ (state[s] # "ASSOCIATED" /\ state' = [state EXCEPT ![s] = "WAIT_ASSOC_RESP"])
    BY DEF StaReceiveProbeResp, SendAssociationRequest
  <2>2. StaReceiveAssocResp(s, FALSE) =>
          state' = state \/ (state[s] # "ASSOCIATED" /\ state' = [state EXCEPT ![s] = "REFUSED"])
    BY DEF StaReceiveAssocResp
  <2>3. StaReceiveAssocResp(s, TRUE) =>
          state' = state \/ (state[s] # "ASSOCIATED" /\ state' = [state EXCEPT ![s] = "ASSOCIATED"])
    BY DEF StaReceiveAssocResp
  <2>4. \/ StaReceiveProbeResp(s) \/ StaReceiveAssocResp(s, FALSE)
        \/ StaReceiveAssocResp(s, TRUE)
    OBVIOUS
  <2>5. state \in [Sta -> MacState]
    BY DEF TypeOK
  <2>6. \A t \in Sta \ {s} : state'[t] = state[t]
    BY <2>1, <2>2, <2>3, <2>4, <2>5
  <2>7. StaReceiveProbeResp(s) \/ StaReceiveAssocResp(s, FALSE) => (Member(s)' <=> Member(s))
    BY <2>1, <2>2, <2>5 DEF Member
  <2>8. Member(s) => Member(s)'
    BY <2>1, <2>2, <2>3, <2>4, <2>5 DEF Member
  <2> QED BY <2>6, <2>7, <2>8
<1>5. SameMembers(Sta \ {s})
  BY <1>4 DEF SameMembers, Member
<1>6. CASE Member(s)' <=> Member(s)
  <2>1. SameMembers(Sta)
    BY <1>5, <1>6 DEF SameMembers
  <2> QED BY <1>2, <1>3, <2>1, Withdraws
<1>7. CASE ~Member(s) /\ Member(s)' /\ f.kind = "AssocResp"
  <2>1. f = Answer(s)
    BY <1>7 DEF Answer, StaFrame, Frame
  <2>2. InService(AP, Answer(s))
    BY <1>1, <2>1, Served
  <2>3. \A t \in Sta \ {s} : ~InService(AP, Answer(t))
    <3> SUFFICES ASSUME NEW t \in Sta, InService(AP, Answer(t)) PROVE t = s
      OBVIOUS
    <3>1. current[AP].frame.sta = s /\ current[AP].frame.sta = t
      BY <2>2 DEF InService, Answer, StaFrame
    <3> QED BY <3>1
  <2>4. \A t \in Sta : Unused(t) = Unused(t)' + (IF InService(AP, Answer(t)) THEN 1 ELSE 0)
    BY <1>2, <1>3, ApServed
  <2>5. \A t \in Sta : Unused(t)' \in Nat
    BY UnusedType
  <2>6. SameGrants(Sta \ {s})
    <3> SUFFICES ASSUME NEW t \in Sta \ {s} PROVE Unused(t)' = Unused(t)
      BY DEF SameGrants
    <3>1. Unused(t) = Unused(t)' + 0 /\ Unused(t)' \in Nat
      BY <2>3, <2>4, <2>5
    <3> QED BY <3>1
  <2>7. Unused(s) = Unused(s)' + 1
    <3>1. Unused(s) = Unused(s)' + (IF InService(AP, Answer(s)) THEN 1 ELSE 0)
      BY <2>4
    <3> QED BY <2>2, <3>1
  <2> QED BY <1>5, <1>7, <2>5, <2>6, <2>7, Joins
<1> QED BY <1>4, <1>6, <1>7

LEMMA Delivered ==
  ASSUME TypeOK, TypeOK', FrameInv, NEW n \in Node, Deliver(n)
  PROVE  ServiceStep
<1>1. PICK f \in Frame : f = current[n].frame
  BY DEF Deliver, TypeOK, Transmission
<1>2. PICK s \in Sta : s = f.sta
  BY DEF Frame
<1>3. /\ Receive(f) /\ Proper(n, f, apStatus)
      /\ current[n] # NoFrame /\ ~current[n].delivered
      /\ current' = [current EXCEPT ![n].delivered = TRUE]
  BY <1>1 DEF Deliver, FrameInv
<1>4. CASE n \in Sta
  <2>1. n # AP
    BY <1>4, StationAssumption
  <2>2. f.kind \in {"ProbeReq", "AssocReq", "Disassoc"}
    BY <1>3, <2>1 DEF Proper
  <2>3. ApReceiveProbeReq(s) \/ ApReceiveAssocReq(s) \/ ApReceiveDisassoc(s)
    BY <1>2, <1>3, <2>2 DEF Receive
  <2>4. current'[AP] = current[AP]
    BY <1>3, <2>1 DEF TypeOK
  <2> QED BY <2>3, <2>4, ApReceives
<1>5. CASE n = AP
  <2>1. f.kind \in {"ProbeResp", "AssocResp", "AssocRefusal"}
    BY <1>3, <1>5, StationAssumption DEF Proper, Frame
  <2>2. \/ StaReceiveProbeResp(s)
        \/ f.kind = "AssocResp" /\ StaReceiveAssocResp(s, TRUE)
        \/ StaReceiveAssocResp(s, FALSE)
    BY <1>2, <1>3, <2>1 DEF Receive
  <2> QED BY <1>1, <1>2, <1>3, <1>5, <2>2, StaReceives
<1> QED BY <1>4, <1>5 DEF Node

LEMMA LeavesService ==
  ASSUME TypeOK, TypeOK', NEW n \in Node, GotAck(n) \/ MissedAck(n) \/ EndTxNoAck(n)
  PROVE  ServiceStep
<1> USE DEF staVars, apVars
<1>1. current' = [current EXCEPT ![n] = NoFrame] /\ queue' = queue
  BY DEF GotAck, MissedAck, EndTxNoAck
<1>2. SameMembers(Sta)
  BY DEF GotAck, MissedAck, EndTxNoAck, ApTxOk, ApTxFailed, StaTxOk, SameMembers, Member, TypeOK
<1>3. CASE n = AP
  <2>1. current'[AP] = NoFrame
    BY <1>1, <1>3 DEF TypeOK
  <2>2. \A s \in Sta : ~InService(AP, Answer(s))'
    <3> SUFFICES ASSUME NEW s \in Sta, current'[AP] = [frame |-> Answer(s), delivered |-> FALSE]
                 PROVE  FALSE
      BY DEF InService, Answer, StaFrame
    <3>1. DOMAIN NoFrame = {"frame"} /\ DOMAIN current'[AP] = {"frame", "delivered"}
      BY DEF NoFrame
    <3> QED BY <2>1, <3>1
  <2> QED BY <1>1, <1>2, <2>2, Withdraws
<1>4. CASE n # AP
  <2>1. current'[AP] = current[AP]
    BY <1>1, <1>4 DEF TypeOK
  <2> QED BY <1>1, <1>2, <2>1, ApUntouched, Stutters
<1> QED BY <1>3, <1>4

LEMMA StaSteps ==
  ASSUME TypeOK, NEW s \in Sta, StaStep(s)
  PROVE  ServiceStep
<1> USE DEF staVars, apVars, linkVars
<1>1. current' = current
  BY DEF StaStep, StartActiveAssociation, Enqueue, EnableActiveProbing, DisableActiveProbing,
         Disassociate, ProbeRequestTimeout, AssocRequestTimeout, DisassocRequestTimeout,
         MissedBeacons, ReceiveBeacon, LoseBeacon
<1>2. \E f : queue' \in {queue, Queued(s, f)}
  BY DEF StaStep, StartActiveAssociation, Enqueue, EnableActiveProbing, DisableActiveProbing,
         Disassociate, ProbeRequestTimeout, AssocRequestTimeout, DisassocRequestTimeout,
         MissedBeacons, ReceiveBeacon, LoseBeacon, TryToEnsureAssociated, SendProbeRequest,
         SendAssociationRequest, SendDisAssociationRequest
<1>3. /\ \A t \in Sta \ {s} : state'[t] = state[t]
      /\ state'[s] = "ASSOCIATED" => state[s] = "ASSOCIATED"
  BY DEF StaStep, StartActiveAssociation, Enqueue, EnableActiveProbing, DisableActiveProbing,
         Disassociate, ProbeRequestTimeout, AssocRequestTimeout, DisassocRequestTimeout,
         MissedBeacons, ReceiveBeacon, LoseBeacon, TryToEnsureAssociated, SendProbeRequest,
         SendAssociationRequest, SendDisAssociationRequest, TypeOK
<1>4. SameGrants(Sta)
  BY <1>1, <1>2, StaQueues, ApUntouched
<1>5. SameMembers(Sta \ {s}) /\ (Member(s)' => Member(s))
  BY <1>3 DEF SameMembers, Member
<1>6. SameGrants(Sta) => ServiceStep
  BY <1>5, Leaves
<1> QED BY <1>4, <1>6

-----------------------------------------------------------------------------
LEMMA ServiceSteps ==
  ASSUME TypeOK, TypeOK', FrameInv, [Next]_vars
  PROVE  ServiceStep
<1>1. CASE UNCHANGED vars \/ SendOneBeacon
  <2>1. UNCHANGED <<state, queue, current>>
    BY <1>1 DEF vars, staVars, linkVars, SendOneBeacon
  <2>2. SameGrants(Sta)
    BY <2>1, ApUntouched
  <2>3. SameMembers(Sta)
    BY <2>1 DEF SameMembers, Member
  <2> QED BY <2>2, <2>3, Stutters
<1>2. CASE \E s \in Sta : StaStep(s)
  BY <1>2, StaSteps
<1>3. ASSUME NEW n \in Node, LinkStep(n)
      PROVE  ServiceStep
  <2>1. NotifyAccessGranted(n) => ServiceStep
    BY GrantedAccess
  <2>2. Cleanup(n) => ServiceStep
    BY Expires
  <2>3. Deliver(n) => ServiceStep
    BY Delivered
  <2>4. EndTxNoAck(n) \/ GotAck(n) \/ MissedAck(n) => ServiceStep
    BY LeavesService
  <2> QED BY <1>3, <2>1, <2>2, <2>3, <2>4 DEF LinkStep
<1> QED BY <1>1, <1>2, <1>3 DEF Next

LEMMA ServiceStart == Init => Service!ServiceInit
<1> SUFFICES ASSUME Init PROVE Service!ServiceInit
  OBVIOUS
<1>1. AP \in Node /\ queue[AP] = <<>> /\ current[AP] = NoFrame
  BY DEF Init, Node
<1>2. \A s \in Sta : Unused(s) = 0
  <2> SUFFICES ASSUME NEW s \in Sta PROVE Unused(s) = 0
    OBVIOUS
  <2>1. Positions(queue[AP], StaFrame("AssocResp", s)) = {}
    BY <1>1 DEF Positions
  <2>2. ~InService(AP, StaFrame("AssocResp", s))
    <3>1. DOMAIN NoFrame = {"frame"}
          /\ DOMAIN [frame |-> StaFrame("AssocResp", s), delivered |-> FALSE] = {"frame", "delivered"}
      BY DEF NoFrame
    <3> QED BY <1>1, <3>1 DEF InService
  <2>3. Cardinality(Positions(queue[AP], StaFrame("AssocResp", s))) = 0
    BY <2>1, FS_EmptySet, Zenon
  <2> QED BY <2>2, <2>3 DEF Unused
<1>3. {s \in Sta : state[s] = "ASSOCIATED"} = {}
  BY DEF Init
<1> QED BY <1>2, <1>3 DEF Service!ServiceInit

(* The association exchange implements its service: a station enters       *)
(* ASSOCIATED only by using up one positive answer that the AP sent it     *)
(* (ApWifiMac::SendAssocResp), no answer is used twice however frames are  *)
(* repeated, dropped or lost, and a station that lacks a basic rate of the *)
(* AP is never sent one.                                                   *)
THEOREM ImplementsItsService == Spec => ImplementsService
<1>1. ASSUME TypeOK, TypeOK', FrameInv, [Next]_vars
      PROVE  [Service!ServiceNext]_(Service!svars)
  BY <1>1, ServiceSteps DEF ServiceStep
<1> QED
  BY <1>1, ServiceStart, FramesSafe, TypeCorrect, PTL DEF Spec, ImplementsService, Service!ServiceSpec
=============================================================================
