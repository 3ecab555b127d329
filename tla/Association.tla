------------------------------ MODULE Association ------------------------------
(***************************************************************************)
(* Association of S1G (802.11ah) stations with their access point: the     *)
(* state machine of StaWifiMac, the per-station record the access point    *)
(* keeps in WifiRemoteStationManager, the centralised authentication       *)
(* threshold carried by S1G beacons, and the management frames both sides  *)
(* exchange through DcaTxop.                                               *)
(*                                                                         *)
(* The radio and the retransmissions of a frame are abstracted to their    *)
(* outcome: the frame in service is handed to its receiver at most once,   *)
(* and its sender then learns "acknowledged" (only if it was handed over)  *)
(* or "failed" (after the last retry, whether or not it was handed over).  *)
(* Module StopAndWait models what is hidden here.  Time is abstracted too: *)
(* a running timer may fire at any moment, except the beacon watchdog,     *)
(* which fires once MaxMissedBeacons beacon intervals went by in silence.  *)
(***************************************************************************)
EXTENDS Naturals, Sequences, FiniteSets

CONSTANTS
  Sta,               \* the stations
  AP,                \* the access point
  Incompatible,      \* stations that miss one of the AP's basic rates
  Offload,           \* stations of type 2; the others are sensors, type 1
  AssocValue,        \* per station, assocVaule in steps of the AP's threshold
  MaxThreshold,      \* the AP's largest threshold, in steps (1000 / 50)
  LowWater,          \* queue length from which the AP lowers its threshold (10)
  QueueCap,          \* frames a WifiMacQueue holds (400)
  MaxMissedBeacons,  \* StaWifiMac's attribute of that name
  ActiveProbing,     \* stations configured with ActiveProbing
  Reconfigure,       \* may SetActiveProbing be called while the network runs
  UserDisassoc,      \* may SendDisAssociationRequest be called by its user
  BeaconLoss,        \* may a station miss a beacon
  BoundLosses,       \* is the number of losses bounded ...
  MaxLosses          \* ... by this many

ASSUME StationAssumption == AP \notin Sta /\ Incompatible \subseteq Sta /\ Offload \subseteq Sta
ASSUME ThresholdAssumption ==
  /\ MaxThreshold \in Nat \ {0}
  /\ LowWater \in Nat
  /\ AssocValue \in [Sta -> 0..(MaxThreshold - 1)]
ASSUME BoundAssumption ==
  /\ QueueCap \in Nat \ {0}
  /\ MaxMissedBeacons \in Nat \ {0}
  /\ MaxLosses \in Nat
  /\ {Reconfigure, UserDisassoc, BeaconLoss, BoundLosses} \subseteq BOOLEAN
  /\ ActiveProbing \subseteq Sta

MacState == {"BEACON_MISSED", "WAIT_PROBE_RESP", "WAIT_ASSOC_RESP",
             "ASSOCIATED", "REFUSED", "WAIT_DISASSOC_ACK"}
Timer    == {"probe", "assoc", "disassoc", "watchdog"}
ApStatus == {"BRAND_NEW", "WAIT_ASSOC_TX_OK", "GOT_ASSOC_TX_OK", "DISASSOC"}
Kind     == {"ProbeReq", "AssocReq", "Disassoc",          \* station to AP
             "ProbeResp", "AssocResp", "AssocRefusal"}    \* AP to station

Node  == Sta \cup {AP}
Frame == [kind : Kind, sta : Sta]      \* sta: the station that sends or is sent it
Transmission == [frame : Frame, delivered : BOOLEAN]
NoFrame  == [frame |-> "none"]
NoBeacon == MaxThreshold + 1           \* outside the thresholds a beacon carries

VARIABLES
  state,          \* StaWifiMac::m_state
  timers,         \* per station, the events that are running
  silent,         \* per station, beacons sent since the last good one it took
  threshold,      \* StaWifiMac::fastAssocThreshold, in steps
  hasAid,         \* StaWifiMac::m_aid # 8192
  activeProbing,  \* StaWifiMac::m_activeProbing
  linkUp,         \* per station, the last of m_linkUp() and m_linkDown()
  apStatus,       \* per station, WifiRemoteStationState::m_state at the AP
  listed,         \* stations in m_sensorList or m_OffloadList
  authThreshold,  \* ApWifiMac::AuthenThreshold, in steps
  queue,          \* per node, m_dca's WifiMacQueue
  current,        \* per node, m_dca's m_currentPacket and whether it arrived
  air,            \* per station, the threshold in the beacon that reaches it
  losses          \* losses counted so far, when they are bounded

staVars  == <<state, timers, silent, threshold, hasAid, activeProbing, linkUp>>
apVars   == <<apStatus, listed, authThreshold>>
linkVars == <<queue, current>>
vars     == <<staVars, apVars, linkVars, air, losses>>

TypeOK ==
  /\ state \in [Sta -> MacState]
  /\ timers \in [Sta -> SUBSET Timer]
  /\ silent \in [Sta -> 0..MaxMissedBeacons]
  /\ threshold \in [Sta -> 0..MaxThreshold]
  /\ hasAid \in [Sta -> BOOLEAN]
  /\ activeProbing \in [Sta -> BOOLEAN]
  /\ linkUp \in [Sta -> BOOLEAN]
  /\ apStatus \in [Sta -> ApStatus]
  /\ listed \in SUBSET Sta
  /\ authThreshold \in 0..MaxThreshold
  /\ queue \in [Node -> Seq(Frame)]
  /\ current \in [Node -> Transmission \cup {NoFrame}]
  /\ air \in [Sta -> 0..NoBeacon]
  /\ losses \in 0..MaxLosses

Init ==
  /\ state = [s \in Sta |-> "BEACON_MISSED"]
  /\ timers = [s \in Sta |-> {}]
  /\ silent = [s \in Sta |-> 0]
  /\ threshold = [s \in Sta |-> 0]
  /\ hasAid = [s \in Sta |-> FALSE]
  /\ activeProbing = [s \in Sta |-> s \in ActiveProbing]
  /\ linkUp = [s \in Sta |-> FALSE]
  /\ apStatus = [s \in Sta |-> "BRAND_NEW"]
  /\ listed = {}
  /\ authThreshold = 0
  /\ queue = [n \in Node |-> <<>>]
  /\ current = [n \in Node |-> NoFrame]
  /\ air = [s \in Sta |-> NoBeacon]
  /\ losses = 0

Lose ==
  IF BoundLosses THEN losses < MaxLosses /\ losses' = losses + 1
                 ELSE UNCHANGED losses

-----------------------------------------------------------------------------
(* What the handlers below share.  `running' is the timer set of the       *)
(* station when the helper is entered.                                     *)

(* DcaTxop::Queue and WifiMacQueue::Enqueue: a full queue drops the frame. *)
Queued(n, f) ==
  IF Len(queue[n]) < QueueCap THEN [queue EXCEPT ![n] = Append(@, f)] ELSE queue

StaFrame(kind, s) == [kind |-> kind, sta |-> s]

SendProbeRequest(s, running) ==
  /\ queue' = Queued(s, StaFrame("ProbeReq", s))
  /\ timers' = [timers EXCEPT ![s] = running \cup {"probe"}]

(* Fault: the retry timer is restarted only when the request leaves. *)
SendAssociationRequestOnce(s, running) ==
  /\ state' = [state EXCEPT ![s] = "WAIT_ASSOC_RESP"]
  /\ IF AssocValue[s] < threshold[s]
       THEN /\ queue' = Queued(s, StaFrame("AssocReq", s))
            /\ timers' = [timers EXCEPT ![s] = running \cup {"assoc"}]
       ELSE /\ timers' = [timers EXCEPT ![s] = running]
            /\ UNCHANGED queue

(* The request leaves only when the station's draw is below the threshold; *)
(* the retry timer is restarted either way.                                *)
SendAssociationRequest(s, running) ==
  /\ queue' = IF AssocValue[s] < threshold[s]
                THEN Queued(s, StaFrame("AssocReq", s)) ELSE queue
  /\ state' = [state EXCEPT ![s] = "WAIT_ASSOC_RESP"]
  /\ timers' = [timers EXCEPT ![s] = running \cup {"assoc"}]

SendDisAssociationRequest(s, running) ==
  /\ state' = [state EXCEPT ![s] = "WAIT_DISASSOC_ACK"]
  /\ hasAid' = [hasAid EXCEPT ![s] = FALSE]
  /\ queue' = Queued(s, StaFrame("Disassoc", s))
  /\ timers' = [timers EXCEPT ![s] = running \cup {"disassoc"}]

(* Only BEACON_MISSED acts: the link goes down and, with active probing,   *)
(* a probe request is sent.                                                *)
TryToEnsureAssociated(s, st, running, probing) ==
  IF st = "BEACON_MISSED"
    THEN /\ linkUp' = [linkUp EXCEPT ![s] = FALSE]
         /\ \/ /\ probing
               /\ state' = [state EXCEPT ![s] = "WAIT_PROBE_RESP"]
               /\ SendProbeRequest(s, running)
            \/ /\ ~probing
               /\ state' = [state EXCEPT ![s] = st]
               /\ timers' = [timers EXCEPT ![s] = running]
               /\ UNCHANGED queue
    ELSE /\ timers' = [timers EXCEPT ![s] = running]
         /\ UNCHANGED <<state, linkUp, queue>>

(* RestartBeaconWatchdog also moves the end of a running watchdog: the     *)
(* count of silent intervals starts again.                                 *)
RestartBeaconWatchdog(s) == silent' = [silent EXCEPT ![s] = 0]

-----------------------------------------------------------------------------
(* The station: calls of its user and of the layer above.                  *)

StartActiveAssociation(s) ==
  /\ TryToEnsureAssociated(s, state[s], timers[s], activeProbing[s])
  /\ UNCHANGED <<silent, threshold, hasAid, activeProbing, apVars, current, air, losses>>

(* A data packet handed to a station that is not associated is dropped and *)
(* the station tries to associate.                                         *)
Enqueue(s) == state[s] # "ASSOCIATED" /\ StartActiveAssociation(s)

EnableActiveProbing(s) ==
  /\ Reconfigure
  /\ activeProbing' = [activeProbing EXCEPT ![s] = TRUE]
  /\ TryToEnsureAssociated(s, state[s], timers[s], TRUE)
  /\ UNCHANGED <<silent, threshold, hasAid, apVars, current, air, losses>>

DisableActiveProbing(s) ==
  /\ Reconfigure
  /\ activeProbing' = [activeProbing EXCEPT ![s] = FALSE]
  /\ timers' = [timers EXCEPT ![s] = @ \ {"probe"}]
  /\ UNCHANGED <<state, silent, threshold, hasAid, linkUp, apVars, linkVars, air, losses>>

Disassociate(s) ==
  /\ UserDisassoc
  /\ state[s] = "ASSOCIATED"
  /\ SendDisAssociationRequest(s, timers[s])
  /\ UNCHANGED <<silent, threshold, activeProbing, linkUp, apVars, current, air, losses>>

-----------------------------------------------------------------------------
(* The station: its timers.                                                *)

ProbeRequestTimeout(s) ==
  /\ "probe" \in timers[s]
  /\ state' = [state EXCEPT ![s] = "WAIT_PROBE_RESP"]
  /\ SendProbeRequest(s, timers[s])
  /\ UNCHANGED <<silent, threshold, hasAid, activeProbing, linkUp, apVars, current, air, losses>>

AssocRequestTimeout(s) ==
  /\ "assoc" \in timers[s]
  /\ SendAssociationRequest(s, timers[s])
  /\ UNCHANGED <<silent, threshold, hasAid, activeProbing, linkUp, apVars, current, air, losses>>

DisassocRequestTimeout(s) ==
  /\ "disassoc" \in timers[s]
  /\ SendDisAssociationRequest(s, timers[s])
  /\ UNCHANGED <<silent, threshold, activeProbing, linkUp, apVars, current, air, losses>>

(* The watchdog overrides whatever the station was waiting for, and leaves *)
(* the other timers running.                                               *)
MissedBeacons(s) ==
  /\ "watchdog" \in timers[s]
  /\ silent[s] = MaxMissedBeacons
  /\ TryToEnsureAssociated(s, "BEACON_MISSED", timers[s] \ {"watchdog"}, activeProbing[s])
  /\ UNCHANGED <<silent, threshold, hasAid, activeProbing, apVars, current, air, losses>>

-----------------------------------------------------------------------------
(* Beacons.                                                                *)

(* Faults: a threshold that climbs past the top, and one that stops short. *)
NextThresholdUncapped ==
  IF Len(queue[AP]) < LowWater THEN authThreshold + 1
    ELSE IF authThreshold > 1 THEN authThreshold - 1 ELSE authThreshold
NextThresholdShort ==
  IF Len(queue[AP]) < LowWater
    THEN IF authThreshold + 1 < MaxThreshold THEN authThreshold + 1 ELSE authThreshold
    ELSE IF authThreshold > 1 THEN authThreshold - 1 ELSE authThreshold

(* The AP lowers the threshold while its management queue is long and      *)
(* raises it while it is short, then broadcasts the new value.             *)
NextThreshold ==
  IF Len(queue[AP]) < LowWater
    THEN IF authThreshold < MaxThreshold THEN authThreshold + 1 ELSE authThreshold
    ELSE IF authThreshold > 1 THEN authThreshold - 1 ELSE authThreshold

SendOneBeacon ==
  /\ \A s \in Sta : air[s] = NoBeacon
  /\ authThreshold' = NextThreshold
  /\ air' = [s \in Sta |-> NextThreshold]
  /\ silent' = [s \in Sta |->
       IF silent[s] < MaxMissedBeacons THEN silent[s] + 1 ELSE silent[s]]
  /\ UNCHANGED <<state, timers, threshold, hasAid, activeProbing, linkUp,
                 apStatus, listed, linkVars, losses>>

(* Receive, S1G beacon: the watchdog is restarted, a station that had lost *)
(* its AP asks for association with the threshold of an EARLIER beacon,    *)
(* and only then is the threshold of this one stored.                      *)
ReceiveBeacon(s) ==
  /\ air[s] # NoBeacon
  /\ air' = [air EXCEPT ![s] = NoBeacon]
  /\ RestartBeaconWatchdog(s)
  /\ threshold' = [threshold EXCEPT ![s] = air[s]]
  /\ \/ /\ state[s] = "BEACON_MISSED"
        /\ SendAssociationRequest(s, timers[s] \cup {"watchdog"})
     \/ /\ state[s] # "BEACON_MISSED"
        /\ timers' = [timers EXCEPT ![s] = @ \cup {"watchdog"}]
        /\ UNCHANGED <<state, queue>>
  /\ UNCHANGED <<hasAid, activeProbing, linkUp, apVars, current, losses>>

LoseBeacon(s) ==
  /\ BeaconLoss
  /\ air[s] # NoBeacon
  /\ air' = [air EXCEPT ![s] = NoBeacon]
  /\ Lose
  /\ UNCHANGED <<staVars, apVars, linkVars>>

-----------------------------------------------------------------------------
(* Receive handlers.  Each is run when the frame in service reaches its    *)
(* receiver; `current' is updated by Deliver.                              *)

ApReceiveProbeReq(s) ==
  /\ queue' = Queued(AP, StaFrame("ProbeResp", s))
  /\ UNCHANGED <<staVars, apVars>>

(* SendAssocResp lists the station when the answer is a success. *)
SendAssocResp(s, success) ==
  /\ listed' = IF success THEN listed \cup {s} ELSE listed
  /\ queue' = Queued(AP, StaFrame(IF success THEN "AssocResp" ELSE "AssocRefusal", s))

(* Fault: the rates of the station are not checked. *)
ApReceiveAnyAssocReq(s) ==
  /\ IF apStatus[s] = "GOT_ASSOC_TX_OK"
       THEN UNCHANGED <<apStatus, listed, queue>>
       ELSE /\ apStatus' = [apStatus EXCEPT ![s] = "WAIT_ASSOC_TX_OK"]
            /\ SendAssocResp(s, TRUE)
  /\ UNCHANGED <<staVars, authThreshold>>

(* A request of a station the AP takes for associated is ignored. *)
ApReceiveAssocReq(s) ==
  /\ \/ /\ apStatus[s] = "GOT_ASSOC_TX_OK"
        /\ UNCHANGED <<apStatus, listed, queue>>
     \/ /\ apStatus[s] # "GOT_ASSOC_TX_OK"
        /\ s \in Incompatible
        /\ SendAssocResp(s, FALSE)
        /\ UNCHANGED apStatus
     \/ /\ apStatus[s] # "GOT_ASSOC_TX_OK"
        /\ s \notin Incompatible
        /\ apStatus' = [apStatus EXCEPT ![s] = "WAIT_ASSOC_TX_OK"]
        /\ SendAssocResp(s, TRUE)
  /\ UNCHANGED <<staVars, authThreshold>>

(* Fault: the station is taken off the list but its record is kept. *)
ApReceiveDisassocUnrecorded(s) ==
  /\ listed' = IF s \in Offload THEN listed ELSE listed \ {s}
  /\ UNCHANGED <<staVars, apStatus, authThreshold, queue>>

(* The offload list is never shortened. *)
ApReceiveDisassoc(s) ==
  /\ apStatus' = [apStatus EXCEPT ![s] = "DISASSOC"]
  /\ listed' = IF s \in Offload THEN listed ELSE listed \ {s}
  /\ UNCHANGED <<staVars, authThreshold, queue>>

StaReceiveProbeResp(s) ==
  /\ \/ /\ state[s] = "WAIT_PROBE_RESP"
        /\ RestartBeaconWatchdog(s)
        /\ SendAssociationRequest(s, (timers[s] \ {"probe"}) \cup {"watchdog"})
     \/ /\ state[s] # "WAIT_PROBE_RESP"
        /\ UNCHANGED <<state, timers, silent, queue>>
  /\ UNCHANGED <<threshold, hasAid, activeProbing, linkUp, apVars>>

(* Faults: an answer that leaves the retry timer running, and one whose    *)
(* status is not looked at.                                                *)
StaReceiveAssocRespUncancelled(s, success) ==
  /\ IF state[s] # "WAIT_ASSOC_RESP"
       THEN UNCHANGED <<state, hasAid, linkUp>>
       ELSE IF success
         THEN /\ state' = [state EXCEPT ![s] = "ASSOCIATED"]
              /\ hasAid' = [hasAid EXCEPT ![s] = TRUE]
              /\ linkUp' = [linkUp EXCEPT ![s] = TRUE]
         ELSE /\ state' = [state EXCEPT ![s] = "REFUSED"]
              /\ UNCHANGED <<hasAid, linkUp>>
  /\ UNCHANGED <<timers, silent, threshold, activeProbing, apVars, queue>>
StaReceiveAssocRespUnread(s, success) ==
  /\ IF state[s] # "WAIT_ASSOC_RESP"
       THEN UNCHANGED <<state, timers, hasAid, linkUp>>
       ELSE /\ timers' = [timers EXCEPT ![s] = @ \ {"assoc"}]
            /\ state' = [state EXCEPT ![s] = "ASSOCIATED"]
            /\ hasAid' = [hasAid EXCEPT ![s] = TRUE]
            /\ linkUp' = [linkUp EXCEPT ![s] = TRUE]
  /\ UNCHANGED <<silent, threshold, activeProbing, apVars, queue>>

StaReceiveAssocResp(s, success) ==
  /\ IF state[s] # "WAIT_ASSOC_RESP"
       THEN UNCHANGED <<state, timers, hasAid, linkUp>>
       ELSE /\ timers' = [timers EXCEPT ![s] = @ \ {"assoc"}]
            /\ \/ /\ success
                  /\ state' = [state EXCEPT ![s] = "ASSOCIATED"]
                  /\ hasAid' = [hasAid EXCEPT ![s] = TRUE]
                  /\ linkUp' = [linkUp EXCEPT ![s] = TRUE]
               \/ /\ ~success
                  /\ state' = [state EXCEPT ![s] = "REFUSED"]
                  /\ UNCHANGED <<hasAid, linkUp>>
  /\ UNCHANGED <<silent, threshold, activeProbing, apVars, queue>>

Receive(f) ==
  \/ f.kind = "ProbeReq"     /\ ApReceiveProbeReq(f.sta)
  \/ f.kind = "AssocReq"     /\ ApReceiveAssocReq(f.sta)
  \/ f.kind = "Disassoc"     /\ ApReceiveDisassoc(f.sta)
  \/ f.kind = "ProbeResp"    /\ StaReceiveProbeResp(f.sta)
  \/ f.kind = "AssocResp"    /\ StaReceiveAssocResp(f.sta, TRUE)
  \/ f.kind = "AssocRefusal" /\ StaReceiveAssocResp(f.sta, FALSE)

-----------------------------------------------------------------------------
(* The channel access function and the link.                               *)

NotifyAccessGranted(n) ==
  /\ current[n] = NoFrame
  /\ queue[n] # <<>>
  /\ current' = [current EXCEPT ![n] = [frame |-> Head(queue[n]), delivered |-> FALSE]]
  /\ queue' = [queue EXCEPT ![n] = Tail(@)]
  /\ UNCHANGED <<staVars, apVars, air, losses>>

(* WifiMacQueue::Cleanup: the oldest frame outlived MaxDelay. *)
Cleanup(n) ==
  /\ queue[n] # <<>>
  /\ queue' = [queue EXCEPT ![n] = Tail(@)]
  /\ Lose
  /\ UNCHANGED <<staVars, apVars, current, air>>

Deliver(n) ==
  /\ current[n] # NoFrame
  /\ ~current[n].delivered
  /\ current' = [current EXCEPT ![n].delivered = TRUE]
  /\ Receive(current[n].frame)
  /\ UNCHANGED <<air, losses>>

(* DcaTxop::EndTxNoAck: a broadcast probe request is over once sent. *)
EndTxNoAck(n) ==
  /\ current[n] # NoFrame
  /\ current[n].frame.kind = "ProbeReq"
  /\ IF current[n].delivered THEN UNCHANGED losses ELSE Lose
  /\ current' = [current EXCEPT ![n] = NoFrame]
  /\ UNCHANGED <<staVars, apVars, queue, air>>

ApTxOk(f) ==
  /\ apStatus' =
       IF f.kind \in {"AssocResp", "AssocRefusal"} /\ apStatus[f.sta] = "WAIT_ASSOC_TX_OK"
         THEN [apStatus EXCEPT ![f.sta] = "GOT_ASSOC_TX_OK"] ELSE apStatus
  /\ UNCHANGED <<staVars, listed, authThreshold>>

(* Fault: any failed answer makes the AP forget its station. *)
ApTxFailedAlways(f) ==
  /\ apStatus' = IF f.kind \in {"AssocResp", "AssocRefusal"}
                   THEN [apStatus EXCEPT ![f.sta] = "DISASSOC"] ELSE apStatus
  /\ UNCHANGED <<staVars, listed, authThreshold>>

ApTxFailed(f) ==
  /\ apStatus' =
       IF f.kind \in {"AssocResp", "AssocRefusal"} /\ apStatus[f.sta] = "WAIT_ASSOC_TX_OK"
         THEN [apStatus EXCEPT ![f.sta] = "DISASSOC"] ELSE apStatus
  /\ UNCHANGED <<staVars, listed, authThreshold>>

StaTxOk(s, f) ==
  /\ \/ /\ f.kind = "Disassoc"
        /\ state[s] = "WAIT_DISASSOC_ACK"
        /\ state' = [state EXCEPT ![s] = "REFUSED"]
        /\ timers' = [timers EXCEPT ![s] = @ \ {"disassoc"}]
     \/ /\ f.kind # "Disassoc" \/ state[s] # "WAIT_DISASSOC_ACK"
        /\ UNCHANGED <<state, timers>>
  /\ UNCHANGED <<silent, threshold, hasAid, activeProbing, linkUp, apVars>>

(* DcaTxop::GotAck: only a frame that arrived is acknowledged. *)
GotAck(n) ==
  /\ current[n] # NoFrame
  /\ current[n].frame.kind # "ProbeReq"
  /\ current[n].delivered
  /\ \/ n = AP /\ ApTxOk(current[n].frame)
     \/ n \in Sta /\ StaTxOk(n, current[n].frame)
  /\ current' = [current EXCEPT ![n] = NoFrame]
  /\ UNCHANGED <<queue, air, losses>>

(* DcaTxop::MissedAck, last retry: the frame never arrived, or none of its *)
(* acknowledgements did.                                                   *)
MissedAck(n) ==
  /\ current[n] # NoFrame
  /\ current[n].frame.kind # "ProbeReq"
  /\ Lose
  /\ \/ n = AP /\ ApTxFailed(current[n].frame)
     \/ n \in Sta /\ UNCHANGED <<staVars, apVars>>
  /\ current' = [current EXCEPT ![n] = NoFrame]
  /\ UNCHANGED <<queue, air>>

-----------------------------------------------------------------------------
StaStep(s) ==
  \/ StartActiveAssociation(s) \/ Enqueue(s)
  \/ EnableActiveProbing(s) \/ DisableActiveProbing(s) \/ Disassociate(s)
  \/ ProbeRequestTimeout(s) \/ AssocRequestTimeout(s)
  \/ DisassocRequestTimeout(s) \/ MissedBeacons(s)
  \/ ReceiveBeacon(s) \/ LoseBeacon(s)

LinkStep(n) ==
  \/ NotifyAccessGranted(n) \/ Cleanup(n) \/ Deliver(n)
  \/ EndTxNoAck(n) \/ GotAck(n) \/ MissedAck(n)

Next == SendOneBeacon \/ (\E s \in Sta : StaStep(s)) \/ (\E n \in Node : LinkStep(n))

Spec == Init /\ [][Next]_vars

(* Timers fire, the AP sends beacons, frames in a queue are eventually put *)
(* in service, and a frame in service eventually arrives and is            *)
(* acknowledged unless it is lost.                                         *)
Fairness ==
  /\ WF_vars(SendOneBeacon)
  /\ \A s \in Sta : /\ WF_vars(ReceiveBeacon(s))
                    /\ WF_vars(ProbeRequestTimeout(s))
                    /\ WF_vars(AssocRequestTimeout(s))
                    /\ WF_vars(DisassocRequestTimeout(s))
                    /\ WF_vars(MissedBeacons(s))
  /\ \A n \in Node : /\ WF_vars(NotifyAccessGranted(n))
                     /\ WF_vars(Deliver(n))
                     /\ WF_vars(GotAck(n))
                     /\ WF_vars(EndTxNoAck(n))

FairSpec == Spec /\ Fairness

-----------------------------------------------------------------------------
(* Invariants.                                                             *)

(* A station never waits on nothing: while it waits for an association     *)
(* response or for its disassociation to be acknowledged, the timer that   *)
(* repeats the request is running, whatever else interrupted the wait.     *)
WaitsHaveTimers ==
  \A s \in Sta : /\ state[s] = "WAIT_ASSOC_RESP" => "assoc" \in timers[s]
                 /\ state[s] = "WAIT_DISASSOC_ACK" => "disassoc" \in timers[s]

(* An associated station is complete: it has the identifier RAW slots are  *)
(* computed from, the layer above was told the link is up, and no late     *)
(* association timeout can throw it out.                                   *)
AssociatedIsSettled ==
  \A s \in Sta : state[s] = "ASSOCIATED" =>
    hasAid[s] /\ linkUp[s] /\ "assoc" \notin timers[s]

(* The two records of the AP agree: a station it is associating or takes   *)
(* for associated is in the list its RAW allocation is drawn from.         *)
GrantedIsListed ==
  \A s \in Sta : apStatus[s] \in {"WAIT_ASSOC_TX_OK", "GOT_ASSOC_TX_OK"} => s \in listed

InService(n, f) == current[n] = [frame |-> f, delivered |-> FALSE]
AnswerInFlight(s) ==
  \/ \E i \in DOMAIN queue[AP] : queue[AP][i] = StaFrame("AssocResp", s)
  \/ InService(AP, StaFrame("AssocResp", s))

(* Association is the AP's to give: a station becomes associated, or has a *)
(* positive answer on its way, only if the AP has a record of its request, *)
(* and a station whose rates the AP refuses gets neither a positive answer *)
(* nor a place in the AP's lists.                                          *)
OnlyGrantedAssociate ==
  \A s \in Sta : state[s] = "ASSOCIATED" \/ AnswerInFlight(s) =>
    apStatus[s] # "BRAND_NEW" /\ s \notin Incompatible

-----------------------------------------------------------------------------
(* Action properties.                                                      *)

(* Once the AP takes a station for associated, only a disassociation that  *)
(* very station sent makes it change its mind: not a late failure of a     *)
(* repeated answer, nor a repeated request.                                *)
OnlyDisassociationForgets ==
  [][\A s \in Sta : apStatus[s] = "GOT_ASSOC_TX_OK" /\ apStatus'[s] # "GOT_ASSOC_TX_OK" =>
       InService(s, StaFrame("Disassoc", s))]_vars

-----------------------------------------------------------------------------
(* Liveness.                                                               *)

(* With finitely many frames lost and no beacon, every station is settled  *)
(* for good, however high its draw against the threshold: associated, or   *)
(* refused because it lacks a rate of the AP or has left by itself.        *)
EveryStationSettles ==
  \A s \in Sta :
    \/ s \notin Incompatible /\ <>[](state[s] = "ASSOCIATED")
    \/ /\ s \in Incompatible \/ <>(state[s] = "WAIT_DISASSOC_ACK")
       /\ <>[](state[s] = "REFUSED")

(* Re-association is automatic: a station that missed too many beacons is  *)
(* associated again once losses have ended.                                *)
Reassociates ==
  \A s \in Sta \ Incompatible : state[s] = "BEACON_MISSED" ~> state[s] = "ASSOCIATED"

-----------------------------------------------------------------------------
(* The abstract specification: the positive answers that have not reached  *)
(* their station are its grants.                                           *)
Positions(q, f) == {i \in DOMAIN q : q[i] = f}

Unused(s) ==
  Cardinality(Positions(queue[AP], StaFrame("AssocResp", s)))
    + (IF InService(AP, StaFrame("AssocResp", s)) THEN 1 ELSE 0)

Service == INSTANCE AssociationService WITH
  Barred <- Incompatible,
  member <- {s \in Sta : state[s] = "ASSOCIATED"},
  grants <- [s \in Sta |-> Unused(s)]

(* Every entry into ASSOCIATED uses up one positive answer that the AP     *)
(* sent to that station, and the AP answers no barred station so.          *)
ImplementsService == Service!ServiceSpec
=============================================================================
