------------------------------- MODULE RawAccess -------------------------------
(***************************************************************************)
(* Restricted access windows (RAW) at a station: which of its channel      *)
(* access functions may send when, and when it sleeps.                     *)
(*                                                                         *)
(* StaWifiMac learns from a beacon when its slot is, and schedules the     *)
(* events that grant and deny access (AccessIfRaw), restart the backoffs   *)
(* and put it to sleep.  DcaTxop and EdcaTxopN request the medium from     *)
(* DcfManager when they have a packet, may send, and have not requested it *)
(* yet; a request is granted at any later moment while the station is      *)
(* awake and no exchange is going on.                                      *)
(*                                                                         *)
(* Time is discrete; a unit is 160 us, the delay of the postponed events   *)
(* and the SIFS.  Events of the same time fire in the order in which they  *)
(* were scheduled, as in Simulator.  A beacon comes before, after or       *)
(* between events of its time.  The PS-Poll function is left out: nothing  *)
(* is ever queued at it.  So are the sleeps of page slicing (GoToSleep).   *)
(***************************************************************************)
EXTENDS Naturals, Sequences, FiniteSets

CONSTANTS
  Dca,          \* the functions that are DcaTxop: management frames
  Edca,         \* those that are EdcaTxopN
  Data,         \* the function of data packets: in Edca on a QoS station
  Assignments,  \* what a beacon may tell the station about its RAW
  Intervals,    \* times that may pass between two beacons
  Period,       \* the beacon interval that beacons announce
  FirstWake,    \* the same, rounded down for the first BeaconWakeUp
  BeaconsLost,  \* whether a station that is awake may miss a beacon
  ActiveProbing, \* whether the station may associate before its first beacon
  MayLeave,     \* whether the user disassociates the station
  Fragments,    \* whether packets may have more than one fragment
  Airtime,      \* of a frame with its answer or the timeout of it
  MaxQueue      \* bound: packets of a queue before a new one is added

Txop == Dca \cup Edca

(* Kinds of assignment: the station is in no group of the RAW, it is in    *)
(* one, or it is in one for paged stations with or without data buffered   *)
(* for it.  Slot and RAW are in units after the beacon.                    *)
Kinds == {"other", "own", "paged", "unpaged"}

ASSUME RawAssumption ==
  /\ Dca \cap Edca = {}
  /\ Data \in Txop /\ "nobody" \notin Txop
  /\ Assignments \subseteq [kind : Kinds, start : Nat, slot : Nat \ {0}, end : Nat]
  /\ \A a \in Assignments : a.start + a.slot <= a.end
  /\ Intervals \subseteq Nat \ {0} /\ Period \in Nat \ {0}
  /\ \E i \in Intervals : \A j \in Intervals : j <= i
  /\ FirstWake \in 1..Period
  /\ {BeaconsLost, ActiveProbing, MayLeave, Fragments} \subseteq BOOLEAN
  /\ {Airtime, MaxQueue} \subseteq Nat \ {0}

Nobody   == "nobody"
Events   == {"slotStart", "postpone", "startRaw", "inside", "outside",
             "restart", "wake", "sent", "startNext"}
NoRaw    == [kind |-> "none", start |-> 0, slot |-> 1, end |-> 0]
Missed   == [NoRaw EXCEPT !.kind = "missed"]
Latest   == CHOOSE i \in Intervals : \A j \in Intervals : j <= i

VARIABLES
  sta,    \* the station; its fields are in Station below
  since,  \* time since the access point sent its last beacon
  raw     \* the assignment of that beacon, NoRaw or Missed

vars == <<sta, since, raw>>

Station ==
  [awake      : BOOLEAN,                   \* not in the SLEEP state of the PHY
   allowed    : [Txop -> BOOLEAN],         \* AccessIfRaw
   requested  : [Txop -> BOOLEAN],         \* DcfState::m_accessRequested
   current    : [Txop -> BOOLEAN],         \* m_currentPacket != 0
   queued     : [Txop -> Nat],             \* packets of the queue
   inflight   : Txop \cup {Nobody},        \* whose exchange MacLow carries out
   rawslot    : BOOLEAN,                   \* stationrawslot
   outsideraw : BOOLEAN,
   waitingack : BOOLEAN,
   receivingBeacon : BOOLEAN,
   associated : BOOLEAN,
   hasAid     : BOOLEAN,                   \* m_aid != 8192
   slot       : Nat,                       \* m_currentslotDuration
   agenda     : Seq([in : Nat, what : Events])]

TypeOK ==
  /\ sta \in Station
  /\ since \in 0..(Latest + Airtime)
  /\ raw \in Assignments \cup {NoRaw, Missed}

NoTxop == [t \in Txop |-> FALSE]

Init ==
  /\ sta = [awake |-> TRUE, allowed |-> [t \in Txop |-> TRUE],
            requested |-> NoTxop, current |-> NoTxop,
            queued |-> [t \in Txop |-> 0], inflight |-> Nobody,
            rawslot |-> FALSE, outsideraw |-> FALSE, waitingack |-> FALSE,
            receivingBeacon |-> FALSE, associated |-> FALSE, hasAid |-> FALSE,
            slot |-> 0, agenda |-> <<>>]
  /\ since = 0
  /\ raw = NoRaw

-----------------------------------------------------------------------------
(* Simulator.                                                              *)

Schedule(s, delay, event) == [s EXCEPT !.agenda = Append(@, [in |-> delay, what |-> event])]

Scheduled(s, event) == \E i \in DOMAIN s.agenda : s.agenda[i].what = event

Removed(agenda, i) == SubSeq(agenda, 1, i - 1) \o SubSeq(agenda, i + 1, Len(agenda))

(* Of what the model cancels no two are ever scheduled at once. *)
Cancel(s, event) ==
  IF Scheduled(s, event)
    THEN [s EXCEPT !.agenda = Removed(@, CHOOSE i \in DOMAIN @ : @[i].what = event)] ELSE s

-----------------------------------------------------------------------------
(* Access.  RequestAccess does nothing while the station sleeps.           *)

(* Fault: an empty queue is not noticed. *)
HasPacketAnyway(s, t) == TRUE

HasPacket(s, t) == s.current[t] \/ s.queued[t] > 0

Request(s, T) ==
  [s EXCEPT !.requested = [t \in Txop |-> \/ s.requested[t]
                                          \/ t \in T /\ s.allowed[t] /\ s.awake]]

(* Fault: a packet that waits for its retransmission is not noticed. *)
RestartAccessIfNeededQueue(s, T) == Request(s, {t \in T : s.queued[t] > 0})

RestartAccessIfNeeded(s, T) == Request(s, {t \in T : HasPacket(s, t)})

StartAccessIfNeeded(s, t) ==
  IF s.queued[t] > 0 /\ ~s.current[t] THEN Request(s, {t}) ELSE s

(* Fault: EdcaTxopN looks at its queue only, as DcaTxop does. *)
StartAccessIfNeededRawQueue(s) == Request(s, {t \in Txop : s.queued[t] > 0})

StartAccessIfNeededRaw(s) ==
  Request(s, {t \in Txop : s.queued[t] > 0 \/ (t \in Edca /\ s.current[t])})

AccessAllowedIfRaw(s, T, allowed) ==
  [s EXCEPT !.allowed = [t \in Txop |-> IF t \in T THEN allowed ELSE @[t]]]

StartRawbackoff(s) == StartAccessIfNeededRaw([s EXCEPT !.requested = NoTxop])

OutsideRawStart(s) ==
  StartAccessIfNeededRaw([AccessAllowedIfRaw(s, Txop, TRUE) EXCEPT !.requested = NoTxop])

-----------------------------------------------------------------------------
(* Sleep.  MacLow drops its exchange, and packets go back to the queues.   *)

Sleep(s) ==
  [Cancel(Cancel(s, "sent"), "startNext") EXCEPT
     !.awake = FALSE, !.inflight = Nobody, !.current = NoTxop,
     !.queued = [t \in Txop |-> @[t] + (IF s.current[t] THEN 1 ELSE 0)]]

WakeUp(s) ==
  IF s.awake THEN s
  ELSE Schedule([s EXCEPT !.awake = TRUE, !.requested = NoTxop], 1, "restart")

HasPacketsInQueue(s) == \E t \in Edca : s.queued[t] > 0

(* Fault: the slot ends with sleep whatever the station waits for. *)
GoToSleepBinaryAnyway(s) == IF s.associated /\ ~s.receivingBeacon THEN Sleep(s) ELSE s

GoToSleepBinary(s) ==
  IF s.associated /\ ~s.receivingBeacon /\ ~s.waitingack THEN Sleep(s) ELSE s

SleepIfQueueIsEmpty(s, value) ==
  LET w == [s EXCEPT !.waitingack = ~value] IN
  IF /\ w.associated /\ ~w.receivingBeacon
     /\ \/ ~HasPacketsInQueue(w) /\ ~w.waitingack
        \/ ~w.outsideraw /\ ~w.rawslot
  THEN Sleep(w) ELSE w

(* EdcaTxopN calls SleepIfQueueIsEmpty, DcaTxop does not. *)
SleepCallback(s, t, value) == IF t \in Edca THEN SleepIfQueueIsEmpty(s, value) ELSE s

-----------------------------------------------------------------------------
(* The scheduled events.                                                   *)

(* Fault: the end of an earlier slot stays scheduled. *)
RawSlotStartBackoffUncancelled(s) ==
  LET r == [Schedule(Schedule(s, s.slot, "inside"), 1, "postpone") EXCEPT !.rawslot = TRUE] IN
  Schedule(IF HasPacketsInQueue(r) THEN WakeUp(r) ELSE r, 1, "startRaw")

RawSlotStartBackoff(s) ==
  LET r == [Schedule(Schedule(Cancel(s, "inside"), s.slot, "inside"), 1, "postpone")
              EXCEPT !.rawslot = TRUE] IN
  Schedule(IF HasPacketsInQueue(r) THEN WakeUp(r) ELSE r, 1, "startRaw")

RawSlotStartBackoffPostpone(s) == AccessAllowedIfRaw(s, Txop, TRUE)

(* Fault: access is not taken away. *)
InsideBackoffAllowed(s) == GoToSleepBinary([s EXCEPT !.rawslot = FALSE])

InsideBackoff(s) ==
  GoToSleepBinary([AccessAllowedIfRaw(s, Txop, FALSE) EXCEPT !.rawslot = FALSE])

OutsideRawStartBackoff(s) ==
  LET o == [Cancel(s, "inside") EXCEPT !.outsideraw = TRUE] IN
  OutsideRawStart(Schedule(IF HasPacketsInQueue(o) THEN WakeUp(o) ELSE o, 1, "postpone"))

BeaconWakeUp(s) ==
  [Schedule(WakeUp(s), Period, "wake") EXCEPT !.receivingBeacon = TRUE]

StartTransmission(s, t) == Schedule([s EXCEPT !.inflight = t], Airtime, "sent")

(* A fragment follows only if its function may still send. *)
StartNext(s) ==
  IF s.inflight # Nobody /\ s.allowed[s.inflight]
    THEN StartTransmission(s, s.inflight) ELSE [s EXCEPT !.inflight = Nobody]

Fires(s, event) ==
  CASE event = "slotStart" -> RawSlotStartBackoff(s)
    [] event = "postpone"  -> RawSlotStartBackoffPostpone(s)
    [] event = "startRaw"  -> StartRawbackoff(s)
    [] event = "inside"    -> InsideBackoff(s)
    [] event = "outside"   -> OutsideRawStartBackoff(s)
    [] event = "restart"   -> RestartAccessIfNeeded(s, Txop)
    [] event = "wake"      -> BeaconWakeUp(s)
    [] event = "startNext" -> StartNext(s)
    [] event = "sent"      -> s

Due(i) ==
  /\ i \in DOMAIN sta.agenda
  /\ sta.agenda[i].in = 0
  /\ \A j \in 1..(i - 1) : sta.agenda[j].in > 0

Fire(event) ==
  /\ \E i \in DOMAIN sta.agenda :
       /\ Due(i)
       /\ sta.agenda[i].what = event
       /\ sta' = Fires([sta EXCEPT !.agenda = Removed(@, i)], event)
  /\ UNCHANGED <<since, raw>>

(* The access point defers its beacon while the station sends. *)
Tick ==
  /\ \/ since < Latest
     \/ since < Latest + Airtime /\ sta.inflight # Nobody
  /\ sta.inflight = Nobody \/ Scheduled(sta, "sent") \/ Scheduled(sta, "startNext")
  /\ \A i \in DOMAIN sta.agenda : sta.agenda[i].in > 0
  /\ since' = since + 1
  /\ sta' = [sta EXCEPT !.agenda = [i \in DOMAIN sta.agenda |->
                                    [sta.agenda[i] EXCEPT !.in = @ - 1]]]
  /\ UNCHANGED raw

-----------------------------------------------------------------------------
(* Beacons.                                                                *)

BeaconDue == since \in Intervals \/ since > Latest

S1gBeaconReceived(s, a) ==
  LET r == Cancel([s EXCEPT !.receivingBeacon = FALSE], "outside")
      x == AccessAllowedIfRaw(Schedule(r, a.end, "outside"), Txop, FALSE) IN
  IF ~s.hasAid THEN AccessAllowedIfRaw(r, Dca, TRUE)
  ELSE CASE a.kind = "own"     -> Schedule(x, a.start, "slotStart")
         [] a.kind = "unpaged" -> r
         [] OTHER              -> StartRawbackoff(x)

(* The first beacon also starts the series of BeaconWakeUp. *)
FirstBeacon(s) == IF Scheduled(s, "wake") THEN s ELSE Schedule(s, FirstWake, "wake")

(* Fault: the station still takes itself to be outside the RAW. *)
ReceivedOutside(s, a) ==
  [S1gBeaconReceived(FirstBeacon(s), a) EXCEPT
     !.waitingack = FALSE,
     !.slot = IF s.hasAid /\ a.kind # "other" THEN a.slot ELSE @]

Received(s, a) ==
  [S1gBeaconReceived(FirstBeacon(s), a) EXCEPT
     !.waitingack = FALSE, !.outsideraw = FALSE,
     !.slot = IF s.hasAid /\ a.kind # "other" THEN a.slot ELSE @]

ReceiveBeacon(a) ==
  /\ BeaconDue
  /\ sta.awake
  /\ sta.inflight = Nobody
  /\ sta' = Received(sta, a)
  /\ since' = 0
  /\ raw' = IF sta.hasAid THEN a ELSE NoRaw

MissBeacon ==
  /\ BeaconDue
  /\ \/ ~sta.awake \/ BeaconsLost
     \/ sta.inflight # Nobody /\ since = Latest + Airtime
  /\ since' = 0
  /\ raw' = Missed
  /\ UNCHANGED sta

-----------------------------------------------------------------------------
(* Packets.                                                                *)

Queue(s, t) == StartAccessIfNeeded([s EXCEPT !.queued[t] = @ + 1], t)

Enqueue ==
  LET s == IF sta.rawslot \/ sta.outsideraw THEN WakeUp(sta) ELSE sta IN
  /\ sta.queued[Data] < MaxQueue
  /\ sta' = IF s.associated THEN Queue(s, Data) ELSE s
  /\ UNCHANGED <<since, raw>>

(* An association or a repeated disassociation request. *)
SendRequest(t) ==
  /\ t \in Dca
  /\ ~sta.associated
  /\ sta.queued[t] < MaxQueue
  /\ sta' = Queue(sta, t)
  /\ UNCHANGED <<since, raw>>

NotifyAccessGranted(t) ==
  LET g == [sta EXCEPT !.requested[t] = FALSE]
      c == IF g.current[t] THEN g
           ELSE [g EXCEPT !.current[t] = TRUE, !.queued[t] = @ - 1]
      s == SleepCallback(c, t, FALSE) IN
  /\ sta.requested[t]
  /\ sta.awake
  /\ sta.inflight = Nobody
  /\ \/ /\ ~g.allowed[t] \/ ~HasPacket(g, t)
        /\ sta' = g
     \/ /\ g.allowed[t] /\ HasPacket(g, t)
        /\ sta' = IF s.awake THEN StartTransmission(s, t) ELSE s
  /\ UNCHANGED <<since, raw>>

Exchange(t) ==
  /\ sta.inflight = t
  /\ ~Scheduled(sta, "sent") /\ ~Scheduled(sta, "startNext")
  /\ UNCHANGED <<since, raw>>

Finished(s, t) == [s EXCEPT !.current[t] = FALSE, !.inflight = Nobody]

GotAck(t) ==
  /\ Exchange(t)
  /\ sta' = SleepCallback(RestartAccessIfNeeded(Finished(sta, t), {t}), t, TRUE)

(* Of a fragment that is not the last; MacLow then schedules StartNext. *)
GotAckOfFragment(t) ==
  /\ Fragments
  /\ Exchange(t)
  /\ sta' = Schedule(SleepCallback(sta, t, TRUE), 1, "startNext")

MissedAckRetransmit(t) ==
  /\ Exchange(t)
  /\ sta' = RestartAccessIfNeeded(SleepCallback([sta EXCEPT !.inflight = Nobody], t, FALSE), {t})

MissedAckFail(t) ==
  LET s == SleepCallback([sta EXCEPT !.inflight = Nobody], t, TRUE) IN
  /\ Exchange(t)
  /\ sta' = RestartAccessIfNeeded([s EXCEPT !.current[t] = FALSE], {t})

(* EdcaTxopN calls no SleepCallback here. *)
MissedCts(t) ==
  /\ Exchange(t)
  /\ \/ sta' = RestartAccessIfNeeded([sta EXCEPT !.inflight = Nobody], {t})
     \/ sta' = RestartAccessIfNeeded(Finished(sta, t), {t})

-----------------------------------------------------------------------------
(* Association, as far as it matters here: the details are in Association. *)

SetAID ==
  /\ ~sta.associated
  /\ sta.awake
  /\ ActiveProbing \/ Scheduled(sta, "wake")
  /\ \A t \in Dca : ~HasPacket(sta, t)
  /\ sta' = [sta EXCEPT !.associated = TRUE, !.hasAid = TRUE]
  /\ UNCHANGED <<since, raw>>

SendDisAssociationRequest(t) ==
  /\ MayLeave
  /\ sta.associated
  /\ t \in Dca
  /\ sta.queued[t] < MaxQueue
  /\ sta' = Queue([sta EXCEPT !.associated = FALSE, !.hasAid = FALSE], t)
  /\ UNCHANGED <<since, raw>>

MissedBeacons ==
  /\ raw = Missed
  /\ sta.associated
  /\ sta' = [sta EXCEPT !.associated = FALSE]
  /\ UNCHANGED <<since, raw>>

-----------------------------------------------------------------------------
Ends(t) == \/ GotAck(t) \/ GotAckOfFragment(t) \/ MissedAckRetransmit(t)
           \/ MissedAckFail(t) \/ MissedCts(t)

Next ==
  \/ \E e \in Events : Fire(e)
  \/ Tick
  \/ \E a \in Assignments : ReceiveBeacon(a)
  \/ MissBeacon
  \/ Enqueue
  \/ \E t \in Txop : \/ SendRequest(t) \/ NotifyAccessGranted(t) \/ Ends(t)
                     \/ SendDisAssociationRequest(t)
  \/ SetAID \/ MissedBeacons

Spec == Init /\ [][Next]_vars

(* Simulator runs on, beacons keep coming, exchanges end, and a request is *)
(* granted in the end if time and again it may be in a window: the         *)
(* backoffs are random.                                                    *)
Fairness ==
  /\ WF_vars(Tick)
  /\ \A e \in Events : WF_vars(Fire(e))
  /\ WF_vars(MissBeacon \/ \E a \in Assignments : ReceiveBeacon(a))
  /\ \A t \in Txop : /\ WF_vars(Ends(t))
                     /\ SF_vars(sta.allowed[t] /\ NotifyAccessGranted(t))

FairSpec == Spec /\ Fairness

-----------------------------------------------------------------------------
(* Properties.                                                             *)

Starts(t) == sta.inflight # t /\ sta'.inflight = t

InOwnSlot == raw.kind = "own" /\ raw.start <= since /\ since <= raw.start + raw.slot

(* A station respects the RAW of the beacon it received last: until its    *)
(* end it starts to send in its own slot only, or, paged, its PS-Poll.     *)
RawRespected ==
  [][\A t \in Txop : Starts(t) => \/ raw.kind \in {"none", "missed"}
                                  \/ since >= raw.end
                                  \/ InOwnSlot
                                  \/ ~sta.hasAid]_vars

(* "Prevent previous RAW from disabling current RAW": whatever earlier     *)
(* beacons scheduled, once its slot has begun the station may send until   *)
(* the slot ends.                                                          *)
OwnSlotOpen ==
  /\ raw.kind = "own" /\ sta.hasAid
  /\ raw.start + 1 < since /\ since < raw.start + raw.slot
  => \A t \in Txop : sta.allowed[t]

(* "Don't go to sleep after you send the packet, since it has to receive   *)
(* the ack": an exchange of EdcaTxopN ends with its answer or its timeout. *)
AwakeForAck == [][sta.inflight \in Edca /\ ~sta'.awake => Ends(sta.inflight)]_vars

(* A packet of EdcaTxopN is never stranded: if the station is awake and    *)
(* may send, access has been requested or soon will be.                    *)
NoneStranded ==
  \A t \in Edca :
    sta.awake /\ sta.allowed[t] /\ HasPacket(sta, t) /\ sta.inflight # t
      => sta.requested[t] \/ Scheduled(sta, "startRaw") \/ Scheduled(sta, "restart")

(* While the station is associated, a packet of EdcaTxopN leaves in the    *)
(* end, whichever slots the station sleeps through.                        *)
EdcaGetsOut ==
  \A t \in Edca : (HasPacket(sta, t) /\ sta.associated)
                    ~> (sta.inflight = t \/ ~HasPacket(sta, t) \/ ~sta.associated)

(* "In case of shared or own slot, the station wakes up" for a packet that *)
(* is queued: it does not in the slots of others.                          *)
WakesInItsSlots ==
  [][Enqueue /\ ~sta.awake /\ sta'.awake =>
       raw.kind \in {"none", "missed"} \/ since >= raw.end \/ InOwnSlot]_vars
=============================================================================
