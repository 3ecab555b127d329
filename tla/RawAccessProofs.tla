---------------------------- MODULE RawAccessProofs ----------------------------
(***************************************************************************)
(* Proofs about RawAccess.                                                 *)
(***************************************************************************)
EXTENDS RawAccess, SequenceTheorems, TLAPS

-----------------------------------------------------------------------------
(* Types.                                                                  *)

Event == [in : Nat, what : Events]

LEMMA LatestType == Latest \in Intervals /\ Latest \in Nat /\ \A j \in Intervals : j <= Latest
<1>1. PICK i \in Intervals : \A j \in Intervals : j <= i
  BY RawAssumption
<1>2. Latest \in Intervals /\ \A j \in Intervals : j <= Latest
  BY <1>1 DEF Latest
<1> QED BY <1>2, RawAssumption

(* What taking an event out of the agenda leaves. *)
LEMMA RemovedValue ==
  ASSUME NEW S, NEW a \in Seq(S), NEW i \in DOMAIN a
  PROVE  /\ Removed(a, i) \in Seq(S)
         /\ Len(Removed(a, i)) = Len(a) - 1
         /\ DOMAIN Removed(a, i) = 1..(Len(a) - 1)
         /\ \A k \in 1..(Len(a) - 1) :
              Removed(a, i)[k] = IF k < i THEN a[k] ELSE a[k + 1]
<1>1. Len(a) \in Nat /\ DOMAIN a = 1..Len(a) /\ i \in 1..Len(a)
  OBVIOUS
<1>2. SubSeq(a, 1, i - 1) \in Seq(S) /\ SubSeq(a, i + 1, Len(a)) \in Seq(S)
  BY <1>1
<1>3. Len(SubSeq(a, 1, i - 1)) = i - 1 /\ Len(SubSeq(a, i + 1, Len(a))) = Len(a) - i
  BY <1>1
<1>4. \A k \in 1..(i - 1) : SubSeq(a, 1, i - 1)[k] = a[k]
  BY <1>1
<1>5. \A k \in 1..(Len(a) - i) : SubSeq(a, i + 1, Len(a))[k] = a[k + i]
  BY <1>1
<1> DEFINE b == SubSeq(a, 1, i - 1)
           c == SubSeq(a, i + 1, Len(a))
<1>6. Removed(a, i) = b \o c
  BY DEF Removed
<1>7. b \in Seq(S) /\ c \in Seq(S) /\ Len(b) = i - 1 /\ Len(c) = Len(a) - i
      /\ (\A k \in 1..(i - 1) : b[k] = a[k])
      /\ (\A k \in 1..(Len(a) - i) : c[k] = a[k + i])
  BY <1>2, <1>3, <1>4, <1>5
<1> HIDE DEF b, c
<1>8. b \o c \in Seq(S) /\ Len(b \o c) = Len(a) - 1 /\ DOMAIN (b \o c) = 1..(Len(a) - 1)
  <2>1. Len(b) + Len(c) = Len(a) - 1 /\ Len(a) - 1 \in Nat
    BY <1>1, <1>7
  <2>2. b \o c \in Seq(S) /\ Len(b \o c) = Len(b) + Len(c)
    BY <1>7, ConcatProperties
  <2> DEFINE d == b \o c
  <2>3. d \in Seq(S) /\ Len(d) = Len(a) - 1
    BY <2>1, <2>2
  <2> HIDE DEF d
  <2>4. DOMAIN d = 1..Len(d)
    BY <2>3
  <2>5. d \in Seq(S) /\ Len(d) = Len(a) - 1 /\ DOMAIN d = 1..(Len(a) - 1)
    BY <2>3, <2>4
  <2> QED BY <2>5 DEF d
<1>9. \A k \in 1..(Len(a) - 1) : (b \o c)[k] = IF k < i THEN a[k] ELSE a[k + 1]
  <2> TAKE k \in 1..(Len(a) - 1)
  <2>1. (b \o c)[k] = IF k <= Len(b) THEN b[k] ELSE c[k - Len(b)]
    BY <1>1, <1>7, ConcatProperties
  <2>2. CASE k < i
    BY <2>1, <2>2, <1>1, <1>7
  <2>3. CASE ~(k < i)
    <3>1. k - (i - 1) \in 1..(Len(a) - i) /\ (k - (i - 1)) + i = k + 1
      BY <2>3, <1>1
    <3>2. c[k - (i - 1)] = a[k + 1]
      BY <3>1, <1>7
    <3> QED BY <2>1, <2>3, <3>2, <1>1, <1>7
  <2> QED BY <2>2, <2>3
<1> QED BY <1>6, <1>8, <1>9

LEMMA AgendaType ==
  ASSUME NEW s \in Station
  PROVE  s.agenda \in Seq(Event)
BY DEF Station, Event

LEMMA ScheduleType ==
  ASSUME NEW s \in Station, NEW d \in Nat, NEW e \in Events
  PROVE  Schedule(s, d, e) \in Station
<1>1. s.agenda \in Seq(Event) /\ [in |-> d, what |-> e] \in Event
  BY AgendaType DEF Event
<1>2. Append(s.agenda, [in |-> d, what |-> e]) \in Seq(Event)
  BY <1>1
<1> QED BY <1>2 DEF Station, Schedule, Event

LEMMA RemovedType ==
  ASSUME NEW s \in Station, NEW i \in DOMAIN s.agenda
  PROVE  [s EXCEPT !.agenda = Removed(@, i)] \in Station
<1>1. Removed(s.agenda, i) \in Seq(Event)
  BY AgendaType, RemovedValue
<1> QED BY <1>1 DEF Station, Event

(* What is cancelled is one event of the kind, or nothing. *)
LEMMA CancelValue ==
  ASSUME NEW s \in Station, NEW e
  PROVE  \/ Scheduled(s, e) /\ \E i \in DOMAIN s.agenda :
              /\ s.agenda[i].what = e
              /\ Cancel(s, e) = [s EXCEPT !.agenda = Removed(@, i)]
         \/ ~Scheduled(s, e) /\ Cancel(s, e) = s
<1>1. CASE Scheduled(s, e)
  <2> DEFINE c == CHOOSE i \in DOMAIN s.agenda : s.agenda[i].what = e
  <2>1. c \in DOMAIN s.agenda /\ s.agenda[c].what = e
    BY <1>1 DEF Scheduled
  <2>2. Cancel(s, e) = [s EXCEPT !.agenda = Removed(@, c)]
    BY <1>1 DEF Cancel
  <2> QED BY <1>1, <2>1, <2>2
<1>2. CASE ~Scheduled(s, e)
  BY <1>2 DEF Cancel
<1> QED BY <1>1, <1>2

LEMMA CancelType ==
  ASSUME NEW s \in Station, NEW e
  PROVE  Cancel(s, e) \in Station
BY CancelValue, RemovedType

LEMMA RequestType ==
  ASSUME NEW s \in Station, NEW T
  PROVE  Request(s, T) \in Station
<1>1. [t \in Txop |-> \/ s.requested[t] \/ (t \in T /\ s.allowed[t] /\ s.awake)] \in [Txop -> BOOLEAN]
  BY DEF Station
<1> QED BY <1>1 DEF Station, Request

LEMMA AllowedType ==
  ASSUME NEW s \in Station, NEW T, NEW b \in BOOLEAN
  PROVE  AccessAllowedIfRaw(s, T, b) \in Station
<1>1. [t \in Txop |-> IF t \in T THEN b ELSE s.allowed[t]] \in [Txop -> BOOLEAN]
  BY DEF Station
<1> QED BY <1>1 DEF Station, AccessAllowedIfRaw

LEMMA NoTxopType == NoTxop \in [Txop -> BOOLEAN]
BY DEF NoTxop

LEMMA RawbackoffType ==
  ASSUME NEW s \in Station
  PROVE  /\ StartAccessIfNeededRaw(s) \in Station
         /\ StartRawbackoff(s) \in Station
         /\ OutsideRawStart(s) \in Station
<1>1. \A r \in Station : StartAccessIfNeededRaw(r) \in Station
  BY RequestType DEF StartAccessIfNeededRaw
<1>2. \A r \in Station : [r EXCEPT !.requested = NoTxop] \in Station
  BY NoTxopType DEF Station
<1>3. AccessAllowedIfRaw(s, Txop, TRUE) \in Station
  BY AllowedType
<1> QED BY <1>1, <1>2, <1>3 DEF StartRawbackoff, OutsideRawStart

LEMMA RestartType ==
  ASSUME NEW s \in Station, NEW T, NEW t
  PROVE  RestartAccessIfNeeded(s, T) \in Station /\ StartAccessIfNeeded(s, t) \in Station
BY RequestType DEF RestartAccessIfNeeded, StartAccessIfNeeded

LEMMA SleepType ==
  ASSUME NEW s \in Station
  PROVE  Sleep(s) \in Station
<1> DEFINE c == Cancel(Cancel(s, "sent"), "startNext")
<1>1. c \in Station
  BY CancelType
<1>2. [t \in Txop |-> c.queued[t] + (IF s.current[t] THEN 1 ELSE 0)] \in [Txop -> Nat]
  BY <1>1 DEF Station
<1>3. Sleep(s) = [c EXCEPT !.awake = FALSE, !.inflight = Nobody, !.current = NoTxop,
     !.queued = [t \in Txop |-> c.queued[t] + (IF s.current[t] THEN 1 ELSE 0)]]
  BY Zenon DEF Sleep
<1> HIDE DEF c
<1> QED BY <1>1, <1>2, <1>3, NoTxopType DEF Station

LEMMA WakeUpType ==
  ASSUME NEW s \in Station
  PROVE  WakeUp(s) \in Station
<1>1. [s EXCEPT !.awake = TRUE, !.requested = NoTxop] \in Station
  BY NoTxopType DEF Station
<1> QED BY <1>1, ScheduleType DEF WakeUp, Events

LEMMA GoToSleepType ==
  ASSUME NEW s \in Station
  PROVE  GoToSleepBinary(s) \in Station
BY SleepType DEF GoToSleepBinary

LEMMA SleepCallbackType ==
  ASSUME NEW s \in Station, NEW t, NEW b \in BOOLEAN
  PROVE  SleepIfQueueIsEmpty(s, b) \in Station /\ SleepCallback(s, t, b) \in Station
<1>1. [s EXCEPT !.waitingack = ~b] \in Station
  BY DEF Station
<1>2. Sleep([s EXCEPT !.waitingack = ~b]) \in Station
  BY <1>1, SleepType
<1> QED BY <1>1, <1>2 DEF SleepIfQueueIsEmpty, SleepCallback

LEMMA SlotStartType ==
  ASSUME NEW s \in Station
  PROVE  RawSlotStartBackoff(s) \in Station
<1> DEFINE c == Cancel(s, "inside")
           d == Schedule(Schedule(c, s.slot, "inside"), 1, "postpone")
           r == [d EXCEPT !.rawslot = TRUE]
           w == IF HasPacketsInQueue(r) THEN WakeUp(r) ELSE r
<1>1. c \in Station /\ s.slot \in Nat
  BY CancelType DEF Station
<1>2. d \in Station
  BY <1>1, ScheduleType DEF Events
<1>3. r \in Station
  BY <1>2 DEF Station
<1>4. w \in Station
  BY <1>3, WakeUpType
<1>5. RawSlotStartBackoff(s) = Schedule(w, 1, "startRaw")
  BY DEF RawSlotStartBackoff
<1> HIDE DEF w
<1> QED BY <1>4, <1>5, ScheduleType DEF Events

LEMMA InsideType ==
  ASSUME NEW s \in Station
  PROVE  InsideBackoff(s) \in Station
<1>1. AccessAllowedIfRaw(s, Txop, FALSE) \in Station
  BY AllowedType
<1>2. [AccessAllowedIfRaw(s, Txop, FALSE) EXCEPT !.rawslot = FALSE] \in Station
  BY <1>1 DEF Station
<1> QED BY <1>2, GoToSleepType DEF InsideBackoff

LEMMA OutsideType ==
  ASSUME NEW s \in Station
  PROVE  OutsideRawStartBackoff(s) \in Station
<1> DEFINE o == [Cancel(s, "inside") EXCEPT !.outsideraw = TRUE]
           w == IF HasPacketsInQueue(o) THEN WakeUp(o) ELSE o
<1>1. o \in Station
  BY CancelType DEF Station
<1>2. w \in Station
  BY <1>1, WakeUpType
<1>3. OutsideRawStartBackoff(s) = OutsideRawStart(Schedule(w, 1, "postpone"))
  BY DEF OutsideRawStartBackoff
<1> HIDE DEF w
<1> QED BY <1>2, <1>3, ScheduleType, RawbackoffType DEF Events

LEMMA BeaconWakeUpType ==
  ASSUME NEW s \in Station
  PROVE  BeaconWakeUp(s) \in Station
<1>1. Period \in Nat
  BY RawAssumption
<1>2. Schedule(WakeUp(s), Period, "wake") \in Station
  BY <1>1, WakeUpType, ScheduleType DEF Events
<1> QED BY <1>2 DEF BeaconWakeUp, Station

LEMMA StartTransmissionType ==
  ASSUME NEW s \in Station, NEW t \in Txop
  PROVE  StartTransmission(s, t) \in Station
<1>1. [s EXCEPT !.inflight = t] \in Station /\ Airtime \in Nat
  BY RawAssumption DEF Station
<1> QED BY <1>1, ScheduleType DEF StartTransmission, Events

LEMMA StartNextType ==
  ASSUME NEW s \in Station
  PROVE  StartNext(s) \in Station
<1>1. CASE s.inflight # Nobody /\ s.allowed[s.inflight]
  <2>1. s.inflight \in Txop
    BY <1>1 DEF Station
  <2> QED BY <2>1, <1>1, StartTransmissionType DEF StartNext
<1>2. CASE ~(s.inflight # Nobody /\ s.allowed[s.inflight])
  BY <1>2 DEF StartNext, Station
<1> QED BY <1>1, <1>2

LEMMA FiresType ==
  ASSUME NEW s \in Station, NEW e \in Events
  PROVE  Fires(s, e) \in Station
<1>1. RawSlotStartBackoffPostpone(s) \in Station
  BY AllowedType DEF RawSlotStartBackoffPostpone
<1> QED BY <1>1, SlotStartType, RawbackoffType, InsideType, OutsideType, RestartType,
           BeaconWakeUpType, StartNextType DEF Fires, Events

LEMMA FirstBeaconType ==
  ASSUME NEW s \in Station
  PROVE  FirstBeacon(s) \in Station
<1>1. FirstWake \in Nat
  BY RawAssumption
<1> QED BY <1>1, ScheduleType DEF FirstBeacon, Events

LEMMA S1gBeaconType ==
  ASSUME NEW s \in Station, NEW a \in Assignments
  PROVE  S1gBeaconReceived(s, a) \in Station
<1> DEFINE r == Cancel([s EXCEPT !.receivingBeacon = FALSE], "outside")
           x == AccessAllowedIfRaw(Schedule(r, a.end, "outside"), Txop, FALSE)
<1>1. a.end \in Nat /\ a.start \in Nat
  BY RawAssumption
<1>2. [s EXCEPT !.receivingBeacon = FALSE] \in Station
  BY DEF Station
<1>3. r \in Station
  BY <1>2, CancelType
<1>4. x \in Station
  BY <1>1, <1>3, ScheduleType, AllowedType DEF Events
<1>5. AccessAllowedIfRaw(r, Dca, TRUE) \in Station
  BY <1>3, AllowedType
<1>6. Schedule(x, a.start, "slotStart") \in Station /\ StartRawbackoff(x) \in Station
  BY <1>1, <1>4, ScheduleType, RawbackoffType DEF Events
<1>7. S1gBeaconReceived(s, a) \in {AccessAllowedIfRaw(r, Dca, TRUE),
        Schedule(x, a.start, "slotStart"), r, StartRawbackoff(x)}
  BY DEF S1gBeaconReceived
<1> QED BY <1>3, <1>5, <1>6, <1>7

LEMMA ReceivedType ==
  ASSUME NEW s \in Station, NEW a \in Assignments
  PROVE  Received(s, a) \in Station
<1> DEFINE b == S1gBeaconReceived(FirstBeacon(s), a)
<1>1. b \in Station /\ a.slot \in Nat
  BY FirstBeaconType, S1gBeaconType, RawAssumption
<1>2. Received(s, a) = [b EXCEPT !.waitingack = FALSE, !.outsideraw = FALSE,
     !.slot = IF s.hasAid /\ a.kind # "other" THEN a.slot ELSE b.slot]
  BY DEF Received
<1> HIDE DEF b
<1> QED BY <1>1, <1>2 DEF Station

LEMMA QueueType ==
  ASSUME NEW s \in Station, NEW t \in Txop
  PROVE  Queue(s, t) \in Station
<1>1. [s.queued EXCEPT ![t] = @ + 1] \in [Txop -> Nat]
  BY DEF Station
<1>2. [s EXCEPT !.queued[t] = @ + 1] = [s EXCEPT !.queued = [s.queued EXCEPT ![t] = @ + 1]]
  OBVIOUS
<1>3. [s EXCEPT !.queued = [s.queued EXCEPT ![t] = @ + 1]] \in Station
  BY <1>1 DEF Station
<1> QED BY <1>2, <1>3, RestartType DEF Queue

(* What NotifyAccessGranted makes the current packet. *)
Taken(s, t) == [s EXCEPT !.current[t] = TRUE, !.queued[t] = @ - 1]

LEMMA TakenType ==
  ASSUME NEW s \in Station, NEW t \in Txop, s.queued[t] > 0
  PROVE  Taken(s, t) \in Station
<1>1. [s.queued EXCEPT ![t] = @ - 1] \in [Txop -> Nat]
  BY DEF Station
<1>2. [s.current EXCEPT ![t] = TRUE] \in [Txop -> BOOLEAN]
  BY DEF Station
<1>3. Taken(s, t) = [s EXCEPT !.current = [s.current EXCEPT ![t] = TRUE],
                              !.queued = [s.queued EXCEPT ![t] = @ - 1]]
  BY DEF Taken, Station
<1> QED BY <1>1, <1>2, <1>3 DEF Station

LEMMA FinishedType ==
  ASSUME NEW s \in Station, NEW t \in Txop
  PROVE  /\ Finished(s, t) \in Station
         /\ [s EXCEPT !.current[t] = FALSE] \in Station
         /\ [s EXCEPT !.inflight = Nobody] \in Station
         /\ [s EXCEPT !.requested[t] = FALSE] \in Station
<1>1. /\ [s.current EXCEPT ![t] = FALSE] \in [Txop -> BOOLEAN]
      /\ [s.requested EXCEPT ![t] = FALSE] \in [Txop -> BOOLEAN]
  BY DEF Station
<1>2. Finished(s, t) = [s EXCEPT !.current = [s.current EXCEPT ![t] = FALSE], !.inflight = Nobody]
  BY DEF Finished
<1>3. [s EXCEPT !.current[t] = FALSE] = [s EXCEPT !.current = [s.current EXCEPT ![t] = FALSE]]
  OBVIOUS
<1>4. [s EXCEPT !.requested[t] = FALSE] = [s EXCEPT !.requested = [s.requested EXCEPT ![t] = FALSE]]
  OBVIOUS
<1> QED BY <1>1, <1>2, <1>3, <1>4 DEF Station

(* The outcomes of NotifyAccessGranted, by name. *)
Refused(s, t) == [s EXCEPT !.requested[t] = FALSE]
Chosen(s, t) == IF s.current[t] THEN Refused(s, t) ELSE Taken(Refused(s, t), t)

LEMMA GrantedOutcome ==
  ASSUME NEW t \in Txop, TypeOK, NotifyAccessGranted(t)
  PROVE  /\ sta.requested[t] /\ sta.awake /\ sta.inflight = Nobody
         /\ UNCHANGED <<since, raw>>
         /\ \/ (~sta.allowed[t] \/ ~HasPacket(sta, t)) /\ sta' = Refused(sta, t)
            \/ /\ sta.allowed[t] /\ HasPacket(sta, t)
               /\ sta' = LET s == SleepCallback(Chosen(sta, t), t, FALSE) IN
                         IF s.awake THEN StartTransmission(s, t) ELSE s
<1> DEFINE g == [sta EXCEPT !.requested[t] = FALSE]
<1>1. g.current = sta.current /\ g.allowed = sta.allowed /\ (HasPacket(g, t) <=> HasPacket(sta, t))
  BY DEF HasPacket, TypeOK, Station
<1>2. Chosen(sta, t) = IF g.current[t] THEN g
           ELSE [g EXCEPT !.current[t] = TRUE, !.queued[t] = @ - 1]
  BY <1>1 DEF Chosen, Refused, Taken
<1> QED BY <1>1, <1>2 DEF NotifyAccessGranted, Refused

LEMMA ChosenType ==
  ASSUME NEW s \in Station, NEW t \in Txop, HasPacket(s, t)
  PROVE  Refused(s, t) \in Station /\ Chosen(s, t) \in Station
<1>1. Refused(s, t) \in Station
  BY FinishedType DEF Refused
<1>2. Refused(s, t).queued = s.queued
  BY DEF Refused, Station
<1>3. CASE ~s.current[t]
  <2>1. s.queued[t] > 0
    BY <1>3 DEF HasPacket
  <2>2. Taken(Refused(s, t), t) \in Station
    BY <1>1, <1>2, <2>1, TakenType
  <2> QED BY <1>1, <2>2, <1>3 DEF Chosen
<1> QED BY <1>1, <1>3 DEF Chosen

LEMMA TickType ==
  ASSUME NEW s \in Station, \A i \in DOMAIN s.agenda : s.agenda[i].in > 0
  PROVE  [s EXCEPT !.agenda = [i \in DOMAIN s.agenda |-> [s.agenda[i] EXCEPT !.in = @ - 1]]] \in Station
<1> DEFINE a == [i \in DOMAIN s.agenda |-> [s.agenda[i] EXCEPT !.in = @ - 1]]
<1>1. s.agenda \in Seq(Event)
  BY AgendaType
<1>2. DOMAIN s.agenda = 1..Len(s.agenda) /\ Len(s.agenda) \in Nat
  BY <1>1
<1>3. \A i \in DOMAIN s.agenda : [s.agenda[i] EXCEPT !.in = @ - 1] \in Event
  <2> TAKE i \in DOMAIN s.agenda
  <2>1. s.agenda[i] \in Event /\ s.agenda[i].in > 0
    BY <1>1
  <2> QED BY <2>1 DEF Event
<1>4. a \in [1..Len(s.agenda) -> Event]
  BY <1>2, <1>3
<1>5. a \in Seq(Event)
  BY <1>2, <1>4
<1>6. [s EXCEPT !.agenda = [i \in DOMAIN s.agenda |-> [s.agenda[i] EXCEPT !.in = @ - 1]]] = [s EXCEPT !.agenda = a]
  OBVIOUS
<1> HIDE DEF a
<1> QED BY <1>5, <1>6 DEF Station, Event

LEMMA InitType == Init => TypeOK
<1> SUFFICES ASSUME Init PROVE TypeOK
  OBVIOUS
<1>1. <<>> \in Seq(Event)
  OBVIOUS
<1>2. sta \in Station
  BY <1>1, NoTxopType DEF Init, Station, Event
<1> QED BY <1>2, LatestType, RawAssumption DEF Init, TypeOK

LEMMA EndsType ==
  ASSUME NEW t \in Txop, TypeOK, Ends(t)
  PROVE  sta' \in Station /\ UNCHANGED <<since, raw>>
<1>0. sta \in Station
  BY DEF TypeOK
<1> PICK s \in Station : s = sta
  BY <1>0
<1>1. CASE GotAck(t)
  <2>1. Finished(s, t) \in Station
    BY FinishedType
  <2> QED BY <1>1, <2>1, RestartType, SleepCallbackType DEF GotAck, Exchange
<1>2. CASE GotAckOfFragment(t)
  <2>1. SleepCallback(s, t, TRUE) \in Station
    BY SleepCallbackType
  <2> QED BY <1>2, <2>1, ScheduleType DEF GotAckOfFragment, Exchange, Events
<1>3. CASE MissedAckRetransmit(t)
  <2>1. [s EXCEPT !.inflight = Nobody] \in Station
    BY FinishedType
  <2> QED BY <1>3, <2>1, RestartType, SleepCallbackType DEF MissedAckRetransmit, Exchange
<1>4. CASE MissedAckFail(t)
  <2>1. [s EXCEPT !.inflight = Nobody] \in Station
    BY FinishedType
  <2> DEFINE w == SleepCallback([s EXCEPT !.inflight = Nobody], t, TRUE)
  <2>2. w \in Station
    BY <2>1, SleepCallbackType
  <2>3. sta' = RestartAccessIfNeeded([w EXCEPT !.current[t] = FALSE], {t}) /\ UNCHANGED <<since, raw>>
    BY <1>4 DEF MissedAckFail, Exchange
  <2> HIDE DEF w
  <2>4. [w EXCEPT !.current[t] = FALSE] \in Station
    BY <2>2, FinishedType
  <2> QED BY <2>3, <2>4, RestartType
<1>5. CASE MissedCts(t)
  <2>1. [s EXCEPT !.inflight = Nobody] \in Station /\ Finished(s, t) \in Station
    BY FinishedType
  <2> QED BY <1>5, <2>1, RestartType DEF MissedCts, Exchange
<1> QED BY <1>1, <1>2, <1>3, <1>4, <1>5 DEF Ends

LEMMA NextType == TypeOK /\ [Next]_vars => TypeOK'
<1> SUFFICES ASSUME TypeOK, [Next]_vars PROVE TypeOK'
  OBVIOUS
<1>0. sta \in Station /\ since \in 0..(Latest + Airtime) /\ raw \in Assignments \cup {NoRaw, Missed}
  BY DEF TypeOK
<1> PICK s \in Station : s = sta
  BY <1>0
<1>a. Latest + Airtime \in Nat /\ Latest \in Nat /\ Airtime \in Nat
  BY LatestType, RawAssumption
<1>1. CASE \E e \in Events : Fire(e)
  <2>1. PICK e \in Events : Fire(e)
    BY <1>1
  <2>2. PICK i \in DOMAIN s.agenda : sta' = Fires([s EXCEPT !.agenda = Removed(@, i)], e)
    BY <2>1 DEF Fire
  <2>3. [s EXCEPT !.agenda = Removed(@, i)] \in Station
    BY RemovedType
  <2>4. sta' \in Station
    BY <2>2, <2>3, FiresType
  <2> QED BY <2>1, <2>4, <1>0 DEF Fire, TypeOK
<1>2. CASE Tick
  <2>1. sta' \in Station
    BY <1>2, TickType DEF Tick
  <2> QED BY <1>2, <2>1, <1>0, <1>a DEF Tick, TypeOK
<1>3. CASE \E a \in Assignments : ReceiveBeacon(a)
  <2>1. PICK a \in Assignments : ReceiveBeacon(a)
    BY <1>3
  <2>2. sta' \in Station
    BY <2>1, ReceivedType DEF ReceiveBeacon
  <2> QED BY <2>1, <2>2, <1>a DEF ReceiveBeacon, TypeOK
<1>4. CASE MissBeacon
  BY <1>4, <1>0, <1>a DEF MissBeacon, TypeOK
<1>5. CASE Enqueue
  <2>1. PICK w \in Station : w = IF s.rawslot \/ s.outsideraw THEN WakeUp(s) ELSE s
    BY WakeUpType
  <2>2. sta' = (IF w.associated THEN Queue(w, Data) ELSE w) /\ UNCHANGED <<since, raw>>
    BY <1>5, <2>1 DEF Enqueue
  <2>3. sta' \in Station
    BY <2>2, QueueType, RawAssumption
  <2> QED BY <2>2, <2>3, <1>0 DEF TypeOK
<1>6. ASSUME NEW t \in Txop, SendRequest(t) PROVE TypeOK'
  <2>1. sta' \in Station
    BY <1>6, QueueType DEF SendRequest
  <2> QED BY <1>6, <2>1, <1>0 DEF SendRequest, TypeOK
<1>7. ASSUME NEW t \in Txop, NotifyAccessGranted(t) PROVE TypeOK'
  <2>1. PICK c : c = SleepCallback(Chosen(s, t), t, FALSE)
    OBVIOUS
  <2>2. UNCHANGED <<since, raw>>
        /\ (sta' = Refused(s, t) \/ (HasPacket(s, t) /\ sta' = IF c.awake THEN StartTransmission(c, t) ELSE c))
    BY <1>7, <2>1, GrantedOutcome
  <2>3. Refused(s, t) \in Station
    BY FinishedType DEF Refused
  <2>4. HasPacket(s, t) => c \in Station
    BY <2>1, ChosenType, SleepCallbackType
  <2>5. sta' \in Station
    BY <2>2, <2>3, <2>4, StartTransmissionType
  <2> QED BY <2>2, <2>5, <1>0 DEF TypeOK
<1>8. ASSUME NEW t \in Txop, Ends(t) PROVE TypeOK'
  BY <1>8, <1>0, EndsType DEF TypeOK
<1>9. ASSUME NEW t \in Txop, SendDisAssociationRequest(t) PROVE TypeOK'
  <2>1. [s EXCEPT !.associated = FALSE, !.hasAid = FALSE] \in Station
    BY DEF Station
  <2>2. sta' \in Station
    BY <1>9, <2>1, QueueType DEF SendDisAssociationRequest
  <2> QED BY <1>9, <2>2, <1>0 DEF SendDisAssociationRequest, TypeOK
<1>10. CASE SetAID
  BY <1>10, <1>0 DEF SetAID, TypeOK, Station
<1>11. CASE MissedBeacons
  BY <1>11, <1>0 DEF MissedBeacons, TypeOK, Station
<1>12. CASE UNCHANGED vars
  BY <1>12, <1>0 DEF vars, TypeOK
<1> QED BY <1>1, <1>2, <1>3, <1>4, <1>5, <1>6, <1>7, <1>8, <1>9, <1>10, <1>11, <1>12 DEF Next

(* The variables keep their types: in particular no function ever takes a  *)
(* packet out of an empty queue, and time never passes an event by.        *)
THEOREM TypeInvariant == Spec => []TypeOK
<1>1. Init => TypeOK
  BY InitType
<1>2. TypeOK /\ [Next]_vars => TypeOK'
  BY NextType
<1> QED BY <1>1, <1>2, PTL DEF Spec

-----------------------------------------------------------------------------
(* The agenda, as far as the invariants below look at it: which events are *)
(* planned, that at most one end of a slot is, and that every postponed    *)
(* grant has a restart of the backoffs behind it.                          *)

Planned(s, d, e) == \E i \in DOMAIN s.agenda : s.agenda[i].in = d /\ s.agenda[i].what = e

Once(s) ==
  \A i, j \in DOMAIN s.agenda :
    s.agenda[i].what = "inside" /\ s.agenda[j].what = "inside" => i = j

Trails(s, i) ==
  \E j \in DOMAIN s.agenda :
    /\ i < j
    /\ s.agenda[j].what = "startRaw"
    /\ s.agenda[j].in = s.agenda[i].in

Trailed(s) == \A i \in DOMAIN s.agenda : s.agenda[i].what = "postpone" => Trails(s, i)

(* The same but for the grants that have just been postponed. *)
Trailing(s) ==
  \A i \in DOMAIN s.agenda :
    s.agenda[i].what = "postpone" => Trails(s, i) \/ s.agenda[i].in = 1

(* Everything but the agenda is the same. *)
Alike(s, r) ==
  /\ r.awake = s.awake /\ r.allowed = s.allowed /\ r.requested = s.requested
  /\ r.current = s.current /\ r.queued = s.queued /\ r.inflight = s.inflight
  /\ r.rawslot = s.rawslot /\ r.outsideraw = s.outsideraw
  /\ r.waitingack = s.waitingack /\ r.receivingBeacon = s.receivingBeacon
  /\ r.associated = s.associated /\ r.hasAid = s.hasAid /\ r.slot = s.slot

WindowEvents == {"slotStart", "postpone", "startRaw", "inside", "outside"}

SameWindows(s, r) ==
  /\ \A d \in Nat : \A e \in WindowEvents : Planned(s, d, e) <=> Planned(r, d, e)
  /\ Once(s) => Once(r)
  /\ Trailed(s) => Trailed(r)
  /\ Trailing(s) => Trailing(r)

LEMMA AgendaShape ==
  ASSUME NEW s \in Station
  PROVE  /\ s.agenda \in Seq(Event) /\ Len(s.agenda) \in Nat
         /\ DOMAIN s.agenda = 1..Len(s.agenda)
         /\ \A i \in DOMAIN s.agenda : /\ i \in Nat
                                       /\ s.agenda[i].in \in Nat
                                       /\ s.agenda[i].what \in Events
<1>1. s.agenda \in Seq(Event)
  BY AgendaType
<1>2. \A i \in 1..Len(s.agenda) : s.agenda[i] \in Event
  BY <1>1
<1> QED BY <1>1, <1>2 DEF Event

LEMMA SameAgenda ==
  ASSUME NEW s, NEW r, r.agenda = s.agenda
  PROVE  SameWindows(s, r) /\ (\A d, e : Planned(s, d, e) <=> Planned(r, d, e))
         /\ (\A e : Scheduled(s, e) <=> Scheduled(r, e))
BY DEF SameWindows, Planned, Once, Trailed, Trailing, Trails, Scheduled

LEMMA SameWindowsTransitive ==
  ASSUME NEW s, NEW r, NEW q, SameWindows(s, r), SameWindows(r, q)
  PROVE  SameWindows(s, q)
BY DEF SameWindows

LEMMA PlannedScheduled ==
  ASSUME NEW s \in Station, NEW e
  PROVE  Scheduled(s, e) <=> \E d \in Nat : Planned(s, d, e)
BY AgendaShape DEF Scheduled, Planned

(* Schedule adds its event behind all others. *)
LEMMA ScheduleEffect ==
  ASSUME NEW s \in Station, NEW d \in Nat, NEW e \in Events
  PROVE  LET r == Schedule(s, d, e) IN
         /\ r \in Station /\ Alike(s, r)
         /\ \A c, f : Planned(r, c, f) <=> (Planned(s, c, f) \/ (c = d /\ f = e))
         /\ Once(s) /\ (e = "inside" => ~Scheduled(s, "inside")) => Once(r)
         /\ Trailed(s) /\ e # "postpone" => Trailed(r)
         /\ Trailing(s) /\ (e = "postpone" => d = 1) => Trailing(r)
         /\ Trailing(s) /\ e = "startRaw" /\ d = 1 => Trailed(r)
<1> DEFINE r == Schedule(s, d, e)
           n == Len(s.agenda)
<1>1. r \in Station
  BY ScheduleType
<1>2. Alike(s, r)
  BY DEF Alike, Schedule, Station
<1>3. s.agenda \in Seq(Event) /\ n \in Nat /\ DOMAIN s.agenda = 1..n
  BY AgendaShape
<1>4. r.agenda = Append(s.agenda, [in |-> d, what |-> e])
  BY DEF Schedule, Station
<1>5. /\ DOMAIN r.agenda = 1..(n + 1)
      /\ r.agenda[n + 1].in = d /\ r.agenda[n + 1].what = e
      /\ \A i \in 1..n : r.agenda[i] = s.agenda[i]
  <2>1. Append(s.agenda, [in |-> d, what |-> e])[n + 1] = [in |-> d, what |-> e]
    BY <1>3
  <2> QED BY <1>3, <1>4, <2>1
<1> HIDE DEF r, n
<1>6. \A c, f : Planned(r, c, f) <=> (Planned(s, c, f) \/ (c = d /\ f = e))
  BY <1>3, <1>5 DEF Planned
<1>7. ASSUME Once(s), e = "inside" => ~Scheduled(s, "inside") PROVE Once(r)
  <2> SUFFICES ASSUME NEW i \in 1..(n + 1), NEW j \in 1..(n + 1),
                      r.agenda[i].what = "inside", r.agenda[j].what = "inside"
               PROVE  i = j
    BY <1>5 DEF Once
  <2>1. CASE i \in 1..n /\ j \in 1..n
    BY <2>1, <1>3, <1>5, <1>7 DEF Once
  <2>2. CASE i = n + 1 /\ j \in 1..n
    BY <2>2, <1>3, <1>5, <1>7 DEF Scheduled
  <2>3. CASE j = n + 1 /\ i \in 1..n
    BY <2>3, <1>3, <1>5, <1>7 DEF Scheduled
  <2> QED BY <2>1, <2>2, <2>3, <1>3
<1>8. \A i \in 1..n : Trails(s, i) => Trails(r, i)
  <2> SUFFICES ASSUME NEW i \in 1..n, Trails(s, i) PROVE Trails(r, i)
    OBVIOUS
  <2>1. PICK j \in 1..n : i < j /\ s.agenda[j].what = "startRaw" /\ s.agenda[j].in = s.agenda[i].in
    BY <1>3 DEF Trails
  <2>2. j \in DOMAIN r.agenda /\ r.agenda[j] = s.agenda[j] /\ r.agenda[i] = s.agenda[i]
    BY <1>3, <1>5
  <2> QED BY <2>1, <2>2 DEF Trails
<1>9. Trailed(s) /\ e # "postpone" => Trailed(r)
  <2> SUFFICES ASSUME Trailed(s), e # "postpone", NEW i \in 1..(n + 1), r.agenda[i].what = "postpone"
               PROVE  Trails(r, i)
    BY <1>5 DEF Trailed
  <2>1. i \in 1..n
    BY <1>3, <1>5
  <2> QED BY <2>1, <1>3, <1>5, <1>8 DEF Trailed
<1>10. Trailing(s) /\ (e = "postpone" => d = 1) => Trailing(r)
  <2> SUFFICES ASSUME Trailing(s), e = "postpone" => d = 1, NEW i \in 1..(n + 1), r.agenda[i].what = "postpone"
               PROVE  Trails(r, i) \/ r.agenda[i].in = 1
    BY <1>5 DEF Trailing
  <2>1. CASE i \in 1..n
    BY <2>1, <1>3, <1>5, <1>8 DEF Trailing
  <2>2. CASE i = n + 1
    BY <2>2, <1>5
  <2> QED BY <2>1, <2>2, <1>3
<1>11. Trailing(s) /\ e = "startRaw" /\ d = 1 => Trailed(r)
  <2> SUFFICES ASSUME Trailing(s), e = "startRaw", d = 1, NEW i \in 1..(n + 1), r.agenda[i].what = "postpone"
               PROVE  Trails(r, i)
    BY <1>5 DEF Trailed
  <2>1. i \in 1..n
    BY <1>3, <1>5
  <2>2. CASE Trails(s, i)
    BY <2>1, <2>2, <1>8
  <2>3. CASE s.agenda[i].in = 1
    <3>1. i < n + 1 /\ n + 1 \in DOMAIN r.agenda /\ r.agenda[i].in = 1
      BY <2>1, <2>3, <1>3, <1>5
    <3> QED BY <3>1, <1>5 DEF Trails
  <2> QED BY <2>1, <2>2, <2>3, <1>3, <1>5 DEF Trailing
<1> QED BY <1>1, <1>2, <1>6, <1>7, <1>9, <1>10, <1>11 DEF r

LEMMA ScheduleOther ==
  ASSUME NEW s \in Station, NEW d \in Nat, NEW e \in Events \ WindowEvents
  PROVE  SameWindows(s, Schedule(s, d, e))
BY ScheduleEffect DEF SameWindows, WindowEvents

(* What is left when the event at i is taken out. *)
Dropped(s, i) == [s EXCEPT !.agenda = Removed(@, i)]

LEMMA DroppedEffect ==
  ASSUME NEW s \in Station, NEW i \in DOMAIN s.agenda
  PROVE  LET r == Dropped(s, i)
             e == s.agenda[i].what
         IN
         /\ r \in Station /\ Alike(s, r)
         /\ \A d, f : Planned(r, d, f) => Planned(s, d, f)
         /\ \A d, f : Planned(s, d, f) /\ (f # e \/ d # s.agenda[i].in) => Planned(r, d, f)
         /\ Once(s) => Once(r) /\ (e = "inside" => ~Scheduled(r, "inside"))
         /\ (e = "startRaw" => \A k \in 1..(i - 1) : s.agenda[k].in # s.agenda[i].in)
              => (Trailed(s) => Trailed(r)) /\ (Trailing(s) => Trailing(r))
<1> DEFINE r == Dropped(s, i)
           e == s.agenda[i].what
           n == Len(s.agenda)
           old == [k \in 1..(n - 1) |-> IF k < i THEN k ELSE k + 1]
<1>1. r \in Station
  BY RemovedType DEF Dropped
<1>2. Alike(s, r)
  BY DEF Alike, Dropped, Station
<1>3. s.agenda \in Seq(Event) /\ n \in Nat /\ DOMAIN s.agenda = 1..n /\ i \in 1..n
  BY AgendaShape
<1>4. r.agenda = Removed(s.agenda, i)
  BY DEF Dropped, Station
<1>5. DOMAIN r.agenda = 1..(n - 1) /\ \A k \in 1..(n - 1) : r.agenda[k] = s.agenda[old[k]]
  BY <1>3, <1>4, RemovedValue
<1>6. /\ \A k \in 1..(n - 1) : old[k] \in 1..n /\ old[k] # i
      /\ \A j, k \in 1..(n - 1) : j < k => old[j] < old[k]
      /\ \A k \in 1..(n - 1) : old[k] >= k
  BY <1>3
<1>7. \A k \in 1..n : k # i => \E j \in 1..(n - 1) : old[j] = k
  <2> SUFFICES ASSUME NEW k \in 1..n, k # i PROVE \E j \in 1..(n - 1) : old[j] = k
    OBVIOUS
  <2>1. CASE k < i
    <3>1. k \in 1..(n - 1) /\ old[k] = k
      BY <2>1, <1>3
    <3> QED BY <3>1
  <2>2. CASE k > i
    <3>1. k - 1 \in 1..(n - 1) /\ old[k - 1] = k
      BY <2>2, <1>3
    <3> QED BY <3>1
  <2> QED BY <2>1, <2>2, <1>3
<1> HIDE DEF r, n, old
<1>8. \A d, f : Planned(r, d, f) => Planned(s, d, f)
  BY <1>3, <1>5, <1>6 DEF Planned
<1>9. \A d, f : Planned(s, d, f) /\ (f # e \/ d # s.agenda[i].in) => Planned(r, d, f)
  <2> SUFFICES ASSUME NEW d, NEW f, Planned(s, d, f), f # e \/ d # s.agenda[i].in PROVE Planned(r, d, f)
    OBVIOUS
  <2>1. PICK k \in 1..n : s.agenda[k].in = d /\ s.agenda[k].what = f
    BY <1>3 DEF Planned
  <2>2. PICK j \in 1..(n - 1) : old[j] = k
    BY <2>1, <1>7
  <2> QED BY <2>1, <2>2, <1>5 DEF Planned
<1>10. Once(s) => Once(r) /\ (e = "inside" => ~Scheduled(r, "inside"))
  <2> SUFFICES ASSUME Once(s) PROVE Once(r) /\ (e = "inside" => ~Scheduled(r, "inside"))
    OBVIOUS
  <2>1. ASSUME NEW j \in 1..(n - 1), NEW k \in 1..(n - 1),
               r.agenda[j].what = "inside", r.agenda[k].what = "inside"
        PROVE  j = k
    <3>0. /\ old[j] \in DOMAIN s.agenda /\ old[k] \in DOMAIN s.agenda
          /\ s.agenda[old[j]].what = "inside" /\ s.agenda[old[k]].what = "inside"
      BY <2>1, <1>3, <1>5, <1>6
    <3>1. old[j] = old[k]
      BY <3>0 DEF Once
    <3> QED BY <3>1, <1>3, <1>6
  <2>2. ASSUME e = "inside", NEW k \in 1..(n - 1), r.agenda[k].what = "inside"
        PROVE  FALSE
    <3>1. old[k] = i
      BY <2>2, <1>3, <1>5, <1>6 DEF Once
    <3> QED BY <3>1, <1>6
  <2> QED BY <2>1, <2>2, <1>5 DEF Once, Scheduled
<1>11. ASSUME e = "startRaw" => \A k \in 1..(i - 1) : s.agenda[k].in # s.agenda[i].in,
              NEW k \in 1..(n - 1), Trails(s, old[k])
       PROVE  Trails(r, k)
  <2>1. PICK j \in 1..n : old[k] < j /\ s.agenda[j].what = "startRaw" /\ s.agenda[j].in = s.agenda[old[k]].in
    BY <1>3, <1>11 DEF Trails
  <2>2. j # i
    <3>1. ASSUME j = i PROVE FALSE
      <4>1. e = "startRaw" /\ old[k] \in 1..(i - 1)
        BY <3>1, <2>1, <1>3, <1>6
      <4> QED BY <4>1, <3>1, <2>1, <1>11
    <3> QED BY <3>1
  <2>3. PICK m \in 1..(n - 1) : old[m] = j
    BY <2>1, <2>2, <1>7
  <2>4. k < m
    <3>1. ASSUME ~(k < m) PROVE FALSE
      <4>1. m = k \/ m < k
        BY <3>1, <1>3
      <4>2. old[m] <= old[k]
        BY <4>1, <1>6, <1>3
      <4> QED BY <4>2, <2>1, <2>3, <1>3, <1>6
    <3> QED BY <3>1
  <2> QED BY <2>1, <2>3, <2>4, <1>5 DEF Trails
<1>12. ASSUME e = "startRaw" => \A k \in 1..(i - 1) : s.agenda[k].in # s.agenda[i].in
       PROVE  (Trailed(s) => Trailed(r)) /\ (Trailing(s) => Trailing(r))
  <2>1. ASSUME Trailed(s), NEW k \in 1..(n - 1), r.agenda[k].what = "postpone" PROVE Trails(r, k)
    BY <2>1, <1>12, <1>3, <1>5, <1>6, <1>11 DEF Trailed
  <2>2. ASSUME Trailing(s), NEW k \in 1..(n - 1), r.agenda[k].what = "postpone"
        PROVE  Trails(r, k) \/ r.agenda[k].in = 1
    BY <2>2, <1>12, <1>3, <1>5, <1>6, <1>11 DEF Trailing
  <2> QED BY <2>1, <2>2, <1>5 DEF Trailed, Trailing
<1> QED BY <1>1, <1>2, <1>8, <1>9, <1>10, <1>12 DEF r

LEMMA DroppedOther ==
  ASSUME NEW s \in Station, NEW i \in DOMAIN s.agenda, s.agenda[i].what \notin WindowEvents
  PROVE  SameWindows(s, Dropped(s, i))
<1>1. s.agenda[i].what # "startRaw"
  BY DEF WindowEvents
<1> QED BY <1>1, DroppedEffect DEF SameWindows

(* Cancel takes one event of the kind out; of the ends of slots that is    *)
(* the only one.                                                           *)
LEMMA CancelEffect ==
  ASSUME NEW s \in Station, NEW e
  PROVE  LET r == Cancel(s, e) IN
         /\ r \in Station /\ Alike(s, r)
         /\ \A d, f : Planned(r, d, f) => Planned(s, d, f)
         /\ \A d, f : Planned(s, d, f) /\ f # e => Planned(r, d, f)
         /\ Once(s) => Once(r) /\ (e = "inside" => ~Scheduled(r, "inside"))
         /\ e # "startRaw" => (Trailed(s) => Trailed(r)) /\ (Trailing(s) => Trailing(r))
<1>1. CASE Scheduled(s, e)
  <2>1. PICK i \in DOMAIN s.agenda : s.agenda[i].what = e /\ Cancel(s, e) = Dropped(s, i)
    BY <1>1, CancelValue DEF Dropped
  <2> QED BY <2>1, DroppedEffect
<1>2. CASE ~Scheduled(s, e)
  <2>1. Cancel(s, e) = s
    BY <1>2, CancelValue
  <2> QED BY <2>1, <1>2 DEF Alike
<1> QED BY <1>1, <1>2

LEMMA CancelOther ==
  ASSUME NEW s \in Station, NEW e \in Events \ WindowEvents
  PROVE  SameWindows(s, Cancel(s, e))
BY CancelEffect DEF SameWindows, WindowEvents

-----------------------------------------------------------------------------
(* The invariants, as predicates on a station s, the time and the RAW a of *)
(* the last beacon.                                                        *)

(* The slot of the station is still to come, or nothing scheduled takes    *)
(* access away before it ends, and access is granted or about to be.       *)
SlotAhead(s, now, a) == \E d \in Nat : Planned(s, d, "slotStart") /\ now + d = a.start

SlotOpened(s, now, a) ==
  /\ a.start <= now
  /\ \/ a.start + a.slot <= now
     \/ \A t \in Txop : s.allowed[t]
     \/ \E d \in Nat : Planned(s, d, "postpone") /\ now + d <= a.start + 1
  /\ \A d \in Nat : Planned(s, d, "inside") => a.start + a.slot <= now + d

OwnSlot(s, now, a) ==
  /\ Once(s)
  /\ a.kind = "own" => /\ s.slot = a.slot
                       /\ SlotAhead(s, now, a) \/ SlotOpened(s, now, a)

(* An EdcaTxopN function keeps the station awake, and waiting for an       *)
(* answer, as long as its exchange lasts.                                  *)
Awaiting(s) == s.inflight \in Edca => s.awake /\ s.waitingack

(* RAWs that are over, grant and all, before the next beacon comes; slots  *)
(* longer than the postponement of the grant; no RAW for paged stations    *)
(* that leaves the station as it was.                                      *)
RegularRaws ==
  /\ \A a \in Assignments : a.kind # "unpaged" /\ 1 < a.slot
  /\ \A a \in Assignments : \A i \in Intervals : a.end + 1 < i

Real(a) == a.kind \in {"own", "other", "paged"}

(* What is scheduled belongs to the RAW of the last beacon, and to the     *)
(* place in it.                                                            *)
Timed(s, now, a) ==
  \A d \in Nat :
    /\ Planned(s, d, "slotStart") => a.kind = "own" /\ now + d = a.start
    /\ Planned(s, d, "inside") =>
         a.kind = "own" /\ a.start <= now /\ now + d = a.start + a.slot
    /\ Planned(s, d, "outside") => Real(a) /\ now + d = a.end
    /\ Planned(s, d, "postpone") =>
         \/ /\ a.kind = "own" /\ a.start <= now /\ now + d = a.start + 1
            /\ Scheduled(s, "inside")
         \/ /\ Real(a) /\ a.end <= now /\ now + d = a.end + 1
            /\ ~Scheduled(s, "inside")

(* Until the end of the RAW, outside its slot, the station may not send;   *)
(* before its slot, or without one, it is awake and idle.                  *)
Closed(s, now, a) ==
  Real(a) /\ now < a.end =>
    /\ ~s.outsideraw
    /\ a.kind # "own" \/ Scheduled(s, "slotStart") =>
         s.awake /\ s.inflight = Nobody /\ \A t \in Txop : ~s.allowed[t]
    /\ a.kind = "own" /\ ~Scheduled(s, "slotStart") /\ ~Scheduled(s, "inside") =>
         ~s.rawslot /\ \A t \in Txop : ~s.allowed[t]

(* A grant that is to come restarts the backoffs of packets of EdcaTxopN,  *)
(* or changes nothing for them.                                            *)
Followed(s) == Trailed(s) \/ \A t \in Edca : s.allowed[t]

OwnSlotInv == TypeOK /\ OwnSlot(sta, since, raw)

AwaitingInv == OwnSlotInv /\ Awaiting(sta)

WindowInv == OwnSlotInv /\ Timed(sta, since, raw) /\ Closed(sta, since, raw)

StrandedInv == WindowInv /\ Followed(sta) /\ NoneStranded

-----------------------------------------------------------------------------
(* What the operations of the station change.                              *)

(* Nothing that opens or closes a window. *)
Steady(s, r) ==
  /\ SameWindows(s, r)
  /\ r.allowed = s.allowed /\ r.slot = s.slot
  /\ r.rawslot = s.rawslot /\ r.outsideraw = s.outsideraw

Restarts(s, r) == Scheduled(s, "restart") => Scheduled(r, "restart")

LEMMA SteadyTransitive ==
  ASSUME NEW s, NEW r, NEW q, Steady(s, r), Steady(r, q)
  PROVE  Steady(s, q)
BY SameWindowsTransitive DEF Steady

LEMMA SteadyScheduled ==
  ASSUME NEW s \in Station, NEW r \in Station, SameWindows(s, r), NEW e \in WindowEvents
  PROVE  Scheduled(s, e) <=> Scheduled(r, e)
BY PlannedScheduled DEF SameWindows

LEMMA ScheduleSteady ==
  ASSUME NEW s \in Station, NEW d \in Nat, NEW e \in Events \ WindowEvents
  PROVE  /\ Steady(s, Schedule(s, d, e)) /\ Restarts(s, Schedule(s, d, e))
         /\ Scheduled(Schedule(s, d, e), e)
<1> DEFINE r == Schedule(s, d, e)
<1>1. /\ r \in Station /\ Alike(s, r)
      /\ \A c, f : Planned(r, c, f) <=> (Planned(s, c, f) \/ (c = d /\ f = e))
  BY ScheduleEffect
<1>2. SameWindows(s, r)
  BY ScheduleOther
<1> HIDE DEF r
<1>3. Scheduled(r, e) /\ Restarts(s, r)
  BY <1>1, PlannedScheduled DEF Restarts
<1> QED BY <1>1, <1>2, <1>3 DEF r, Steady, Alike

LEMMA RequestEffect ==
  ASSUME NEW s \in Station, NEW T
  PROVE  LET r == Request(s, T) IN
         /\ r \in Station /\ Steady(s, r) /\ Restarts(s, r)
         /\ \A e : Scheduled(s, e) <=> Scheduled(r, e)
         /\ r.awake = s.awake /\ r.inflight = s.inflight /\ r.waitingack = s.waitingack
         /\ r.queued = s.queued /\ r.current = s.current
         /\ \A t \in Txop : r.requested[t] <=> (s.requested[t] \/ (t \in T /\ s.allowed[t] /\ s.awake))
<1> DEFINE r == Request(s, T)
<1>1. r \in Station
  BY RequestType
<1>2. /\ r.agenda = s.agenda /\ r.allowed = s.allowed /\ r.slot = s.slot
      /\ r.rawslot = s.rawslot /\ r.outsideraw = s.outsideraw
      /\ r.awake = s.awake /\ r.inflight = s.inflight /\ r.waitingack = s.waitingack
      /\ r.queued = s.queued /\ r.current = s.current
      /\ r.requested = [t \in Txop |-> \/ s.requested[t] \/ (t \in T /\ s.allowed[t] /\ s.awake)]
  BY DEF Request, Station
<1> HIDE DEF r
<1>3. SameWindows(s, r) /\ \A e : Scheduled(s, e) <=> Scheduled(r, e)
  BY <1>2, SameAgenda
<1> QED BY <1>1, <1>2, <1>3 DEF r, Steady, Restarts

(* A station that is put to sleep drops its exchange. *)
LEMMA SleepEffect ==
  ASSUME NEW s \in Station
  PROVE  LET r == Sleep(s) IN
         /\ r \in Station /\ Steady(s, r) /\ Restarts(s, r)
         /\ ~r.awake /\ r.inflight = Nobody
<1> DEFINE b == Cancel(s, "sent")
           c == Cancel(b, "startNext")
           r == Sleep(s)
<1>1. b \in Station /\ Alike(s, b) /\ SameWindows(s, b) /\ Restarts(s, b)
  <2>1. /\ b \in Station /\ Alike(s, b)
        /\ \A d, f : Planned(s, d, f) /\ f # "sent" => Planned(b, d, f)
    BY CancelEffect
  <2>2. SameWindows(s, b)
    BY CancelOther DEF Events, WindowEvents
  <2> HIDE DEF b
  <2> QED BY <2>1, <2>2, PlannedScheduled DEF Restarts
<1>2. c \in Station /\ Alike(b, c) /\ SameWindows(b, c) /\ Restarts(b, c)
  <2> HIDE DEF b
  <2>1. /\ c \in Station /\ Alike(b, c)
        /\ \A d, f : Planned(b, d, f) /\ f # "startNext" => Planned(c, d, f)
    BY <1>1, CancelEffect
  <2>2. SameWindows(b, c)
    BY <1>1, CancelOther DEF Events, WindowEvents
  <2> HIDE DEF c
  <2> QED BY <1>1, <2>1, <2>2, PlannedScheduled DEF Restarts
<1>3. r \in Station
  BY SleepType
<1>4. r = [c EXCEPT !.awake = FALSE, !.inflight = Nobody, !.current = NoTxop,
     !.queued = [t \in Txop |-> c.queued[t] + (IF s.current[t] THEN 1 ELSE 0)]]
  BY Zenon DEF Sleep
<1> HIDE DEF b, c, r
<1>5. /\ r.agenda = c.agenda /\ r.allowed = c.allowed /\ r.slot = c.slot
      /\ r.rawslot = c.rawslot /\ r.outsideraw = c.outsideraw
      /\ ~r.awake /\ r.inflight = Nobody
  BY <1>2, <1>4 DEF Station
<1>6. SameWindows(c, r) /\ Restarts(c, r)
  BY <1>5, SameAgenda DEF Restarts
<1>7. SameWindows(s, c)
  BY <1>1, <1>2, SameWindowsTransitive
<1>8. SameWindows(s, r)
  BY <1>7, <1>6, SameWindowsTransitive
<1>9. Restarts(s, r)
  BY <1>1, <1>2, <1>6 DEF Restarts
<1>10. r.allowed = s.allowed /\ r.slot = s.slot
       /\ r.rawslot = s.rawslot /\ r.outsideraw = s.outsideraw
  BY <1>1, <1>2, <1>5 DEF Alike
<1> QED BY <1>3, <1>5, <1>8, <1>9, <1>10 DEF r, Steady

(* A station that wakes up has its backoffs restarted. *)
LEMMA WakeUpEffect ==
  ASSUME NEW s \in Station
  PROVE  LET r == WakeUp(s) IN
         /\ r \in Station /\ Steady(s, r) /\ Restarts(s, r)
         /\ r.awake /\ r.inflight = s.inflight /\ r.waitingack = s.waitingack
         /\ r.queued = s.queued /\ r.current = s.current /\ r.associated = s.associated
         /\ s.awake => r = s
         /\ ~s.awake => Scheduled(r, "restart")
<1>1. CASE s.awake
  <2>1. WakeUp(s) = s
    BY <1>1 DEF WakeUp
  <2> QED BY <2>1, <1>1, SameAgenda DEF Steady, Restarts
<1>2. CASE ~s.awake
  <2> DEFINE w == [s EXCEPT !.awake = TRUE, !.requested = NoTxop]
             r == WakeUp(s)
  <2>1. w \in Station
    BY NoTxopType DEF Station
  <2>2. /\ w.agenda = s.agenda /\ w.allowed = s.allowed /\ w.slot = s.slot
        /\ w.rawslot = s.rawslot /\ w.outsideraw = s.outsideraw
        /\ w.awake /\ w.inflight = s.inflight /\ w.waitingack = s.waitingack
        /\ w.queued = s.queued /\ w.current = s.current /\ w.associated = s.associated
    BY DEF Station
  <2>3. r = Schedule(w, 1, "restart")
    BY <1>2 DEF WakeUp
  <2> HIDE DEF w, r
  <2>4. "restart" \in Events \ WindowEvents
    BY DEF Events, WindowEvents
  <2>5. r \in Station /\ Alike(w, r)
    BY <2>1, <2>3, <2>4, ScheduleEffect
  <2>6. Steady(w, r) /\ Restarts(w, r) /\ Scheduled(r, "restart")
    BY <2>1, <2>3, <2>4, ScheduleSteady
  <2>7. Steady(s, w) /\ Restarts(s, w)
    BY <2>2, SameAgenda DEF Steady, Restarts
  <2>8. Steady(s, r) /\ Restarts(s, r)
    BY <2>6, <2>7, SteadyTransitive DEF Restarts
  <2> QED BY <1>2, <2>2, <2>5, <2>6, <2>8 DEF r, Alike
<1> QED BY <1>1, <1>2

LEMMA GoToSleepEffect ==
  ASSUME NEW s \in Station
  PROVE  LET r == GoToSleepBinary(s) IN
         /\ r \in Station /\ Steady(s, r) /\ Restarts(s, r)
         /\ r = s \/ (~s.waitingack /\ ~r.awake /\ r.inflight = Nobody)
<1>1. Steady(s, s) /\ Restarts(s, s)
  BY SameAgenda DEF Steady, Restarts
<1>2. GoToSleepBinary(s) = s \/ (~s.waitingack /\ GoToSleepBinary(s) = Sleep(s))
  BY DEF GoToSleepBinary
<1> QED BY <1>1, <1>2, SleepEffect

(* The callback may put the station to sleep; only EdcaTxopN calls it. *)
LEMMA SleepCallbackEffect ==
  ASSUME NEW s \in Station, NEW t \in Txop, NEW b \in BOOLEAN
  PROVE  LET r == SleepCallback(s, t, b) IN
         /\ r \in Station /\ Steady(s, r) /\ Restarts(s, r)
         /\ \/ /\ r.awake = s.awake /\ r.inflight = s.inflight
               /\ r.current = s.current /\ r.queued = s.queued /\ r.requested = s.requested
               /\ r.waitingack = IF t \in Edca THEN ~b ELSE s.waitingack
            \/ t \in Edca /\ ~r.awake /\ r.inflight = Nobody
<1>1. Steady(s, s) /\ Restarts(s, s)
  BY SameAgenda DEF Steady, Restarts
<1>2. CASE t \notin Edca
  <2>1. SleepCallback(s, t, b) = s
    BY <1>2 DEF SleepCallback
  <2> QED BY <1>1, <1>2, <2>1
<1>3. CASE t \in Edca
  <2> DEFINE w == [s EXCEPT !.waitingack = ~b]
             r == SleepCallback(s, t, b)
  <2>1. w \in Station
    BY DEF Station
  <2>2. /\ w.agenda = s.agenda /\ w.allowed = s.allowed /\ w.slot = s.slot
        /\ w.rawslot = s.rawslot /\ w.outsideraw = s.outsideraw
        /\ w.awake = s.awake /\ w.inflight = s.inflight /\ w.waitingack = ~b
        /\ w.queued = s.queued /\ w.current = s.current /\ w.requested = s.requested
    BY DEF Station
  <2>3. r = w \/ r = Sleep(w)
    BY <1>3 DEF SleepCallback, SleepIfQueueIsEmpty
  <2> HIDE DEF w, r
  <2>4. Steady(s, w) /\ Restarts(s, w)
    BY <2>2, SameAgenda DEF Steady, Restarts
  <2>5. CASE r = w
    BY <2>5, <2>1, <2>2, <2>4, <1>3 DEF r
  <2>6. CASE r = Sleep(w)
    <3>1. r \in Station /\ Steady(w, r) /\ Restarts(w, r) /\ ~r.awake /\ r.inflight = Nobody
      BY <2>1, <2>6, SleepEffect
    <3>2. Steady(s, r) /\ Restarts(s, r)
      BY <2>4, <3>1, SteadyTransitive DEF Restarts
    <3> QED BY <3>1, <3>2, <1>3 DEF r
  <2> QED BY <2>3, <2>5, <2>6
<1> QED BY <1>2, <1>3

-----------------------------------------------------------------------------
(* The steps that open and close no window.                                *)

Idle(s)   == s.awake /\ s.inflight = Nobody
Barred(s) == \A t \in Txop : ~s.allowed[t]

(* NoneStranded, of a function. *)
Served(s, t) ==
  s.awake /\ s.allowed[t] /\ HasPacket(s, t) /\ s.inflight # t
    => s.requested[t] \/ Scheduled(s, "startRaw") \/ Scheduled(s, "restart")

Quiet(s, r) ==
  /\ r \in Station
  /\ Steady(s, r)
  /\ Idle(s) /\ Barred(s) => Idle(r)
  /\ ~Fragments /\ Awaiting(s) => Awaiting(r)
  /\ \A t \in Edca : Served(s, t) => Served(r, t)
  /\ \A t \in Txop : r.inflight = t => s.inflight = t \/ s.allowed[t]

(* The station does not fall asleep before the answer of an EdcaTxopN. *)
Staying(s, r) == s.inflight \in Edca /\ Awaiting(s) => r.awake

LEMMA NobodyElse == Nobody \notin Txop /\ Edca \subseteq Txop /\ Dca \subseteq Txop /\ Dca \cap Edca = {}
BY RawAssumption DEF Nobody, Txop

LEMMA ServedAgain ==
  ASSUME NEW s \in Station, NEW r \in Station, NEW t \in Edca, Served(s, t),
         Steady(s, r), Restarts(s, r),
         r.awake => s.awake,
         r.awake /\ s.allowed[t] /\ HasPacket(r, t) /\ r.inflight # t /\ ~r.requested[t]
           => HasPacket(s, t) /\ s.inflight # t /\ ~s.requested[t]
  PROVE  Served(r, t)
<1>1. Scheduled(s, "startRaw") => Scheduled(r, "startRaw")
  BY SteadyScheduled DEF Steady, WindowEvents
<1>2. Scheduled(s, "restart") => Scheduled(r, "restart")
  BY DEF Restarts
<1>3. r.allowed = s.allowed
  BY DEF Steady
<1> QED BY <1>1, <1>2, <1>3 DEF Served

LEMMA ServedAsleep ==
  ASSUME NEW s, NEW t, ~s.awake \/ Scheduled(s, "restart")
  PROVE  Served(s, t)
BY DEF Served

(* A new packet has access requested for it. *)
LEMMA QueueEffect ==
  ASSUME NEW s \in Station, NEW t \in Txop
  PROVE  LET r == Queue(s, t) IN
         /\ r \in Station /\ Steady(s, r) /\ Restarts(s, r)
         /\ r.awake = s.awake /\ r.inflight = s.inflight /\ r.waitingack = s.waitingack
         /\ \A u \in Edca : Served(s, u) => Served(r, u)
<1> DEFINE q == [s EXCEPT !.queued[t] = @ + 1]
           r == Queue(s, t)
<1>1. [s.queued EXCEPT ![t] = @ + 1] \in [Txop -> Nat]
  BY DEF Station
<1>2. q = [s EXCEPT !.queued = [s.queued EXCEPT ![t] = @ + 1]]
  OBVIOUS
<1>3. q \in Station
  BY <1>1, <1>2 DEF Station
<1>4. /\ q.agenda = s.agenda /\ q.allowed = s.allowed /\ q.slot = s.slot
      /\ q.rawslot = s.rawslot /\ q.outsideraw = s.outsideraw
      /\ q.awake = s.awake /\ q.inflight = s.inflight /\ q.waitingack = s.waitingack
      /\ q.current = s.current /\ q.requested = s.requested
      /\ q.queued[t] > 0 /\ \A u \in Txop : u # t => q.queued[u] = s.queued[u]
  <2>1. [s.queued EXCEPT ![t] = @ + 1][t] > 0
    BY DEF Station
  <2>2. \A u \in Txop : u # t => [s.queued EXCEPT ![t] = @ + 1][u] = s.queued[u]
    BY DEF Station
  <2> QED BY <1>2, <2>1, <2>2 DEF Station
<1>5. r = IF ~q.current[t] THEN Request(q, {t}) ELSE q
  BY <1>4 DEF Queue, StartAccessIfNeeded
<1> HIDE DEF q, r
<1>6. Steady(s, q) /\ Restarts(s, q)
  BY <1>4, SameAgenda DEF Steady, Restarts
<1>7. CASE q.current[t]
  <2>1. r = q
    BY <1>5, <1>7
  <2>2. ASSUME NEW u \in Edca, Served(s, u) PROVE Served(r, u)
    <3>1. u \in Txop
      BY NobodyElse
    <3>2. HasPacket(q, u) => HasPacket(s, u)
      BY <1>4, <1>7, <3>1 DEF HasPacket
    <3> QED BY <2>1, <2>2, <3>2, <1>3, <1>4, <1>6, ServedAgain
  <2> QED BY <2>1, <2>2, <1>3, <1>4, <1>6 DEF r
<1>8. CASE ~q.current[t]
  <2>1. r = Request(q, {t})
    BY <1>5, <1>8
  <2>2. /\ r \in Station /\ Steady(q, r) /\ Restarts(q, r)
        /\ r.awake = q.awake /\ r.inflight = q.inflight /\ r.waitingack = q.waitingack
        /\ r.queued = q.queued /\ r.current = q.current
        /\ \A u \in Txop : r.requested[u] <=> (q.requested[u] \/ (u \in {t} /\ q.allowed[u] /\ q.awake))
    BY <2>1, <1>3, RequestEffect
  <2>3. Steady(s, r) /\ Restarts(s, r)
    BY <1>6, <2>2, SteadyTransitive DEF Restarts
  <2>4. ASSUME NEW u \in Edca, Served(s, u) PROVE Served(r, u)
    <3>1. u \in Txop
      BY NobodyElse
    <3>2. r.awake = s.awake
      BY <2>2, <1>4
    <3>3. ASSUME r.awake, s.allowed[u], HasPacket(r, u), r.inflight # u, ~r.requested[u]
          PROVE  HasPacket(s, u) /\ s.inflight # u /\ ~s.requested[u]
      <4>1. u # t
        BY <3>1, <3>3, <2>2, <1>4
      <4>2. r.queued[u] = s.queued[u] /\ r.current[u] = s.current[u]
        BY <4>1, <3>1, <2>2, <1>4
      <4>3. HasPacket(s, u)
        BY <3>3, <4>2 DEF HasPacket
      <4>4. s.inflight # u /\ ~s.requested[u]
        BY <3>1, <3>3, <2>2, <1>4
      <4> QED BY <4>3, <4>4
    <3> QED BY <2>2, <2>3, <2>4, <3>2, <3>3, ServedAgain
  <2> QED BY <2>2, <2>3, <2>4, <1>4 DEF r
<1> QED BY <1>7, <1>8

(* A station that only learns about its association does not stir. *)
LEMMA AssociationQuiet ==
  ASSUME NEW s \in Station, NEW b \in BOOLEAN, NEW h \in BOOLEAN
  PROVE  LET r == [s EXCEPT !.associated = b, !.hasAid = h] IN
         /\ r \in Station /\ Steady(s, r) /\ Restarts(s, r)
         /\ r.awake = s.awake /\ r.inflight = s.inflight /\ r.waitingack = s.waitingack
         /\ \A u \in Edca : Served(s, u) => Served(r, u)
<1> DEFINE r == [s EXCEPT !.associated = b, !.hasAid = h]
<1>1. r \in Station
  BY DEF Station
<1>2. /\ r.agenda = s.agenda /\ r.allowed = s.allowed /\ r.slot = s.slot
      /\ r.rawslot = s.rawslot /\ r.outsideraw = s.outsideraw
      /\ r.awake = s.awake /\ r.inflight = s.inflight /\ r.waitingack = s.waitingack
      /\ r.current = s.current /\ r.requested = s.requested /\ r.queued = s.queued
  BY DEF Station
<1> HIDE DEF r
<1>3. Steady(s, r) /\ Restarts(s, r)
  BY <1>2, SameAgenda DEF Steady, Restarts
<1>4. ASSUME NEW u \in Edca, Served(s, u) PROVE Served(r, u)
  <2>1. HasPacket(r, u) => HasPacket(s, u)
    BY <1>2 DEF HasPacket
  <2> QED BY <2>1, <1>1, <1>2, <1>3, <1>4, ServedAgain
<1> QED BY <1>1, <1>2, <1>3, <1>4 DEF r

LEMMA UnchangedQuiet ==
  ASSUME NEW s \in Station
  PROVE  Quiet(s, s) /\ Staying(s, s)
BY SameAgenda DEF Quiet, Steady, Staying, Awaiting

LEMMA QuietFrom ==
  ASSUME NEW s \in Station, NEW r \in Station, Steady(s, r),
         r.awake = s.awake \/ r.awake, r.inflight = s.inflight, r.waitingack = s.waitingack,
         \A u \in Edca : Served(s, u) => Served(r, u)
  PROVE  Quiet(s, r) /\ Staying(s, r)
BY DEF Quiet, Idle, Awaiting, Staying

LEMMA EnqueueQuiet ==
  ASSUME TypeOK, Enqueue
  PROVE  Quiet(sta, sta') /\ Staying(sta, sta') /\ UNCHANGED <<since, raw>>
<1>1. PICK s \in Station : s = sta
  BY DEF TypeOK
<1>2. PICK w : w = IF s.rawslot \/ s.outsideraw THEN WakeUp(s) ELSE s
  OBVIOUS
<1>3. sta' = (IF w.associated THEN Queue(w, Data) ELSE w) /\ UNCHANGED <<since, raw>>
  BY <1>1, <1>2 DEF Enqueue
<1>4. /\ w \in Station /\ Steady(s, w) /\ (w.awake = s.awake \/ w.awake)
      /\ w.inflight = s.inflight /\ w.waitingack = s.waitingack
      /\ \A u \in Edca : Served(s, u) => Served(w, u)
  <2>1. CASE w = s
    BY <2>1, SameAgenda DEF Steady
  <2>2. CASE w = WakeUp(s)
    <3>1. ~s.awake => \A u \in Edca : Served(w, u)
      BY <2>2, WakeUpEffect, ServedAsleep
    <3>2. s.awake => w = s
      BY <2>2, WakeUpEffect
    <3> QED BY <2>2, <3>1, <3>2, WakeUpEffect
  <2> QED BY <1>2, <2>1, <2>2
<1>5. PICK r : r = IF w.associated THEN Queue(w, Data) ELSE w
  OBVIOUS
<1>6. /\ r \in Station /\ Steady(w, r)
      /\ r.awake = w.awake /\ r.inflight = w.inflight /\ r.waitingack = w.waitingack
      /\ \A u \in Edca : Served(w, u) => Served(r, u)
  <2>1. CASE r = w
    BY <2>1, <1>4, SameAgenda DEF Steady
  <2>2. CASE r = Queue(w, Data)
    BY <2>2, <1>4, QueueEffect, RawAssumption
  <2> QED BY <1>5, <2>1, <2>2
<1>7. Steady(s, r)
  BY <1>4, <1>6, SteadyTransitive
<1>8. Quiet(s, r) /\ Staying(s, r)
  BY <1>4, <1>6, <1>7, QuietFrom
<1> QED BY <1>1, <1>3, <1>5, <1>8

LEMMA RequestQuiet ==
  ASSUME NEW t \in Txop, TypeOK, SendRequest(t) \/ SendDisAssociationRequest(t)
  PROVE  Quiet(sta, sta') /\ Staying(sta, sta') /\ UNCHANGED <<since, raw>>
<1>1. PICK s \in Station : s = sta
  BY DEF TypeOK
<1>2. PICK w : w = [s EXCEPT !.associated = FALSE, !.hasAid = FALSE]
  OBVIOUS
<1>3. /\ w \in Station /\ Steady(s, w) /\ w.awake = s.awake
      /\ w.inflight = s.inflight /\ w.waitingack = s.waitingack
      /\ \A u \in Edca : Served(s, u) => Served(w, u)
  BY <1>2, AssociationQuiet
<1>4. (sta' = Queue(s, t) \/ sta' = Queue(w, t)) /\ UNCHANGED <<since, raw>>
  BY <1>1, <1>2 DEF SendRequest, SendDisAssociationRequest
<1>5. Quiet(s, Queue(s, t)) /\ Staying(s, Queue(s, t))
  BY QueueEffect, QuietFrom
<1>6. Quiet(s, Queue(w, t)) /\ Staying(s, Queue(w, t))
  <2> DEFINE r == Queue(w, t)
  <2>1. /\ r \in Station /\ Steady(w, r)
        /\ r.awake = w.awake /\ r.inflight = w.inflight /\ r.waitingack = w.waitingack
        /\ \A u \in Edca : Served(w, u) => Served(r, u)
    BY <1>3, QueueEffect
  <2> HIDE DEF r
  <2>2. Steady(s, r)
    BY <1>3, <2>1, SteadyTransitive
  <2>3. Quiet(s, r) /\ Staying(s, r)
    BY <1>3, <2>1, <2>2, QuietFrom
  <2> QED BY <2>3 DEF r
<1> QED BY <1>1, <1>4, <1>5, <1>6

LEMMA AssociateQuiet ==
  ASSUME TypeOK, SetAID \/ MissedBeacons
  PROVE  Quiet(sta, sta') /\ Staying(sta, sta') /\ UNCHANGED <<since, raw>>
<1>1. PICK s \in Station : s = sta
  BY DEF TypeOK
<1>2. \E b, h \in BOOLEAN : sta' = [s EXCEPT !.associated = b, !.hasAid = h]
  <2>1. CASE SetAID
    BY <2>1, <1>1 DEF SetAID
  <2>2. CASE MissedBeacons
    <3>1. s.hasAid \in BOOLEAN
      BY DEF Station
    <3>2. [s EXCEPT !.associated = FALSE] = [s EXCEPT !.associated = FALSE, !.hasAid = s.hasAid]
      BY DEF Station
    <3> QED BY <2>2, <3>1, <3>2, <1>1 DEF MissedBeacons
  <2> QED BY <2>1, <2>2
<1>3. PICK b \in BOOLEAN, h \in BOOLEAN : sta' = [s EXCEPT !.associated = b, !.hasAid = h]
  BY <1>2
<1>4. PICK r : r = [s EXCEPT !.associated = b, !.hasAid = h]
  OBVIOUS
<1>5. Quiet(s, r) /\ Staying(s, r)
  BY <1>4, AssociationQuiet, QuietFrom
<1> QED BY <1>1, <1>3, <1>4, <1>5 DEF SetAID, MissedBeacons

LEMMA GrantedQuiet ==
  ASSUME NEW t \in Txop, TypeOK, NotifyAccessGranted(t)
  PROVE  Quiet(sta, sta') /\ Staying(sta, sta') /\ UNCHANGED <<since, raw>>
<1>1. PICK s \in Station : s = sta
  BY DEF TypeOK
<1>2. /\ s.requested[t] /\ s.awake /\ s.inflight = Nobody
      /\ UNCHANGED <<since, raw>>
      /\ \/ (~s.allowed[t] \/ ~HasPacket(s, t)) /\ sta' = Refused(s, t)
         \/ /\ s.allowed[t] /\ HasPacket(s, t)
            /\ sta' = LET k == SleepCallback(Chosen(s, t), t, FALSE) IN
                      IF k.awake THEN StartTransmission(k, t) ELSE k
  BY <1>1, GrantedOutcome
<1>3. Staying(s, sta')
  BY <1>2, NobodyElse DEF Staying
<1>4. PICK g : g = Refused(s, t)
  OBVIOUS
<1>5. /\ g \in Station
      /\ g.agenda = s.agenda /\ g.allowed = s.allowed /\ g.slot = s.slot
      /\ g.rawslot = s.rawslot /\ g.outsideraw = s.outsideraw
      /\ g.awake = s.awake /\ g.inflight = s.inflight /\ g.waitingack = s.waitingack
      /\ g.current = s.current /\ g.queued = s.queued
      /\ \A u \in Txop : u # t => g.requested[u] = s.requested[u]
  <2>1. [s.requested EXCEPT ![t] = FALSE] \in [Txop -> BOOLEAN]
    BY DEF Station
  <2>2. \A u \in Txop : u # t => [s.requested EXCEPT ![t] = FALSE][u] = s.requested[u]
    BY DEF Station
  <2>3. g = [s EXCEPT !.requested = [s.requested EXCEPT ![t] = FALSE]]
    BY <1>4 DEF Refused
  <2> QED BY <2>1, <2>2, <2>3 DEF Station
<1>6. Steady(s, g) /\ Restarts(s, g)
  BY <1>5, SameAgenda DEF Steady, Restarts
<1>7. CASE (~s.allowed[t] \/ ~HasPacket(s, t)) /\ sta' = g
  <2>1. ASSUME NEW u \in Edca, Served(s, u) PROVE Served(g, u)
    <3>1. u \in Txop
      BY NobodyElse
    <3>2. HasPacket(g, u) <=> HasPacket(s, u)
      BY <1>5 DEF HasPacket
    <3>3. CASE u = t
      BY <3>2, <3>3, <1>5, <1>7 DEF Served
    <3>4. CASE u # t
      BY <3>1, <3>2, <3>4, <1>5, <1>6, <2>1, ServedAgain
    <3> QED BY <3>3, <3>4
  <2>2. Quiet(s, g)
    BY <2>1, <1>5, <1>6, QuietFrom
  <2> QED BY <2>2, <1>1, <1>2, <1>3, <1>7
<1>8. CASE s.allowed[t] /\ HasPacket(s, t)
           /\ sta' = LET k == SleepCallback(Chosen(s, t), t, FALSE) IN
                     IF k.awake THEN StartTransmission(k, t) ELSE k
  <2>1. PICK c : c = Chosen(s, t)
    OBVIOUS
  <2>2. c \in Station
    BY <2>1, <1>8, ChosenType
  <2>3. /\ c.agenda = s.agenda /\ c.allowed = s.allowed /\ c.slot = s.slot
        /\ c.rawslot = s.rawslot /\ c.outsideraw = s.outsideraw
        /\ c.awake = s.awake /\ c.inflight = s.inflight /\ c.waitingack = s.waitingack
        /\ \A u \in Txop : u # t => /\ c.requested[u] = s.requested[u]
                                    /\ c.current[u] = s.current[u] /\ c.queued[u] = s.queued[u]
    <3>1. CASE s.current[t]
      <4>1. c = g
        BY <2>1, <1>4, <3>1 DEF Chosen
      <4> QED BY <4>1, <1>5
    <3>2. CASE ~s.current[t]
      <4>1. c = [g EXCEPT !.current[t] = TRUE, !.queued[t] = @ - 1]
        BY <2>1, <1>4, <3>2 DEF Chosen, Taken
      <4>2. c = [g EXCEPT !.current = [g.current EXCEPT ![t] = TRUE],
                          !.queued = [g.queued EXCEPT ![t] = @ - 1]]
        BY <4>1, <1>5 DEF Station
      <4>3. /\ c.current = [g.current EXCEPT ![t] = TRUE]
            /\ c.queued = [g.queued EXCEPT ![t] = @ - 1]
            /\ c.agenda = g.agenda /\ c.allowed = g.allowed /\ c.slot = g.slot
            /\ c.rawslot = g.rawslot /\ c.outsideraw = g.outsideraw
            /\ c.awake = g.awake /\ c.inflight = g.inflight /\ c.waitingack = g.waitingack
            /\ c.requested = g.requested
        BY <4>2, <1>5 DEF Station
      <4>4. \A u \in Txop : u # t => c.current[u] = g.current[u] /\ c.queued[u] = g.queued[u]
        BY <4>3, <1>5 DEF Station
      <4> QED BY <4>3, <4>4, <1>5
    <3> QED BY <3>1, <3>2
  <2>4. PICK k : k = SleepCallback(c, t, FALSE)
    OBVIOUS
  <2>5. /\ k \in Station /\ Steady(c, k) /\ Restarts(c, k)
        /\ \/ /\ k.awake = c.awake /\ k.inflight = c.inflight
              /\ k.current = c.current /\ k.queued = c.queued /\ k.requested = c.requested
              /\ k.waitingack = IF t \in Edca THEN ~FALSE ELSE c.waitingack
           \/ t \in Edca /\ ~k.awake /\ k.inflight = Nobody
    BY <2>2, <2>4, SleepCallbackEffect
  <2>6. Steady(s, c) /\ Restarts(s, c)
    BY <2>3, SameAgenda DEF Steady, Restarts
  <2>7. Steady(s, k) /\ Restarts(s, k)
    BY <2>5, <2>6, SteadyTransitive DEF Restarts
  <2>8. sta' = IF k.awake THEN StartTransmission(k, t) ELSE k
    BY <1>8, <2>1, <2>4
  <2>9. CASE ~k.awake
    <3>1. k.inflight = Nobody
      BY <2>5, <2>9, <2>3, <1>2
    <3>2. \A u \in Edca : Served(k, u)
      BY <2>9, ServedAsleep
    <3>3. Quiet(s, k)
      BY <3>1, <3>2, <2>5, <2>7, <1>8, NobodyElse DEF Quiet, Barred, Awaiting
    <3> QED BY <3>3, <2>8, <2>9, <1>1, <1>2, <1>3
  <2>10. CASE k.awake
    <3>1. PICK m : m = [k EXCEPT !.inflight = t]
      OBVIOUS
    <3>2. /\ m \in Station /\ m.inflight = t
          /\ m.agenda = k.agenda /\ m.allowed = k.allowed /\ m.slot = k.slot
          /\ m.rawslot = k.rawslot /\ m.outsideraw = k.outsideraw
          /\ m.awake = k.awake /\ m.waitingack = k.waitingack
          /\ m.current = k.current /\ m.queued = k.queued /\ m.requested = k.requested
      BY <3>1, <2>5 DEF Station
    <3>3. PICK r : r = Schedule(m, Airtime, "sent")
      OBVIOUS
    <3>4. "sent" \in Events \ WindowEvents /\ Airtime \in Nat
      BY RawAssumption DEF Events, WindowEvents
    <3>5. r \in Station /\ Alike(m, r) /\ Steady(m, r) /\ Restarts(m, r)
      BY <3>2, <3>3, <3>4, ScheduleEffect, ScheduleSteady
    <3>6. Steady(k, m) /\ Restarts(k, m)
      BY <3>2, SameAgenda DEF Steady, Restarts
    <3>7. Steady(k, r)
      BY <3>5, <3>6, SteadyTransitive
    <3>8. Steady(s, r)
      BY <3>7, <2>7, SteadyTransitive
    <3>9. Restarts(s, r)
      BY <2>7, <3>5, <3>6 DEF Restarts
    <3>10. r.inflight = t /\ r.awake /\ r.waitingack = k.waitingack
           /\ r.current = k.current /\ r.queued = k.queued /\ r.requested = k.requested
      BY <3>2, <3>5, <2>10 DEF Alike
    <3>11. ASSUME NEW u \in Edca, Served(s, u) PROVE Served(r, u)
      <4>1. CASE u = t
        BY <4>1, <3>10 DEF Served
      <4>2. CASE u # t
        <5>1. u \in Txop /\ u # Nobody
          BY NobodyElse
        <5>2. k.current = c.current /\ k.queued = c.queued /\ k.requested = c.requested
          BY <2>5, <2>10
        <5>3. r.current[u] = s.current[u] /\ r.queued[u] = s.queued[u] /\ r.requested[u] = s.requested[u]
          BY <5>1, <5>2, <4>2, <3>10, <2>3
        <5>4. HasPacket(r, u) => HasPacket(s, u)
          BY <5>3 DEF HasPacket
        <5> QED BY <5>1, <5>3, <5>4, <3>5, <3>8, <3>9, <3>11, <1>2, ServedAgain
      <4> QED BY <4>1, <4>2
    <3>12. Awaiting(r)
      BY <3>10, <2>5, <2>10 DEF Awaiting
    <3>13. Quiet(s, r)
      BY <3>5, <3>8, <3>10, <3>11, <3>12, <1>8 DEF Quiet, Barred
    <3>14. sta' = r
      BY <2>8, <2>10, <3>1, <3>3 DEF StartTransmission
    <3> QED BY <3>13, <3>14, <1>1, <1>2, <1>3
  <2> QED BY <2>9, <2>10
<1> QED BY <1>2, <1>4, <1>7, <1>8

(* The exchange of t is over; the others have what they had. *)
Over(s, r, t) ==
  /\ r \in Station /\ Steady(s, r) /\ Restarts(s, r)
  /\ r.inflight = Nobody
  /\ r.awake => /\ s.awake
                /\ \A u \in Txop : u # t => /\ r.current[u] = s.current[u]
                                            /\ r.queued[u] = s.queued[u]
                                            /\ s.requested[u] => r.requested[u]

LEMMA OverQuiet ==
  ASSUME NEW s \in Station, NEW r, NEW t \in Txop, s.inflight = t, Over(s, r, t),
         t \in Edca => Served(r, t)
  PROVE  Quiet(s, r)
<1>1. r \in Station /\ Steady(s, r) /\ Restarts(s, r) /\ r.inflight = Nobody
  BY DEF Over
<1>2. ASSUME NEW u \in Edca, Served(s, u) PROVE Served(r, u)
  <2>1. u \in Txop
    BY NobodyElse
  <2>2. CASE u = t
    BY <2>2
  <2>3. CASE u # t
    <3>1. r.awake => s.awake /\ r.current[u] = s.current[u] /\ r.queued[u] = s.queued[u]
                    /\ (s.requested[u] => r.requested[u])
      BY <2>1, <2>3 DEF Over
    <3>2. r.awake /\ HasPacket(r, u) => HasPacket(s, u)
      BY <3>1 DEF HasPacket
    <3> QED BY <1>1, <1>2, <2>3, <3>1, <3>2, ServedAgain
  <2> QED BY <2>2, <2>3
<1> QED BY <1>1, <1>2, NobodyElse DEF Quiet, Idle, Awaiting

LEMMA FinishedOver ==
  ASSUME NEW s \in Station, NEW t \in Txop
  PROVE  Over(s, Finished(s, t), t) /\ Over(s, [s EXCEPT !.inflight = Nobody], t)
<1>1. PICK f : f = Finished(s, t)
  OBVIOUS
<1>2. /\ f \in Station
      /\ f.agenda = s.agenda /\ f.allowed = s.allowed /\ f.slot = s.slot
      /\ f.rawslot = s.rawslot /\ f.outsideraw = s.outsideraw
      /\ f.awake = s.awake /\ f.inflight = Nobody
      /\ f.requested = s.requested /\ f.queued = s.queued
      /\ \A u \in Txop : u # t => f.current[u] = s.current[u]
  <2>1. \A u \in Txop : u # t => [s.current EXCEPT ![t] = FALSE][u] = s.current[u]
    BY DEF Station
  <2>2. f = [s EXCEPT !.current = [s.current EXCEPT ![t] = FALSE], !.inflight = Nobody]
    BY <1>1 DEF Finished
  <2>3. f \in Station
    BY <1>1, FinishedType
  <2> QED BY <2>1, <2>2, <2>3 DEF Station
<1>3. PICK g : g = [s EXCEPT !.inflight = Nobody]
  OBVIOUS
<1>4. /\ g \in Station
      /\ g.agenda = s.agenda /\ g.allowed = s.allowed /\ g.slot = s.slot
      /\ g.rawslot = s.rawslot /\ g.outsideraw = s.outsideraw
      /\ g.awake = s.awake /\ g.inflight = Nobody
      /\ g.requested = s.requested /\ g.queued = s.queued /\ g.current = s.current
  BY <1>3 DEF Station
<1>5. Steady(s, f) /\ Restarts(s, f) /\ Steady(s, g) /\ Restarts(s, g)
  BY <1>2, <1>4, SameAgenda DEF Steady, Restarts
<1>6. Over(s, f, t)
  BY <1>2, <1>5 DEF Over
<1>7. Over(s, g, t)
  BY <1>4, <1>5 DEF Over
<1> QED BY <1>1, <1>3, <1>6, <1>7

(* A packet that is left has access requested for it. *)
LEMMA RestartOver ==
  ASSUME NEW s \in Station, NEW g, NEW t \in Txop, Over(s, g, t)
  PROVE  LET r == RestartAccessIfNeeded(g, {t}) IN Over(s, r, t) /\ Served(r, t)
<1>1. g \in Station /\ Steady(s, g) /\ Restarts(s, g) /\ g.inflight = Nobody
  BY DEF Over
<1>2. PICK r : r = RestartAccessIfNeeded(g, {t})
  OBVIOUS
<1>3. PICK T : T = {u \in {t} : HasPacket(g, u)}
  OBVIOUS
<1>4. r = Request(g, T)
  BY <1>2, <1>3 DEF RestartAccessIfNeeded
<1>5. /\ r \in Station /\ Steady(g, r) /\ Restarts(g, r)
      /\ r.awake = g.awake /\ r.inflight = g.inflight
      /\ r.queued = g.queued /\ r.current = g.current
      /\ \A u \in Txop : r.requested[u] <=> (g.requested[u] \/ (u \in T /\ g.allowed[u] /\ g.awake))
  BY <1>1, <1>4, RequestEffect
<1>6. Steady(s, r) /\ Restarts(s, r)
  BY <1>1, <1>5, SteadyTransitive DEF Restarts
<1>7. Over(s, r, t)
  BY <1>1, <1>5, <1>6 DEF Over
<1>8. Served(r, t)
  <2>1. HasPacket(r, t) => t \in T
    BY <1>3, <1>5 DEF HasPacket
  <2>2. r.allowed = g.allowed
    BY <1>5 DEF Steady
  <2> QED BY <1>5, <2>1, <2>2 DEF Served
<1> QED BY <1>2, <1>7, <1>8

LEMMA CallbackOver ==
  ASSUME NEW s \in Station, NEW g, NEW t \in Txop, NEW b \in BOOLEAN, Over(s, g, t)
  PROVE  LET r == SleepCallback(g, t, b) IN
         Over(s, r, t) /\ (t \in Edca /\ Served(g, t) => Served(r, t))
<1>1. g \in Station /\ Steady(s, g) /\ Restarts(s, g) /\ g.inflight = Nobody
  BY DEF Over
<1>2. PICK r : r = SleepCallback(g, t, b)
  OBVIOUS
<1>3. /\ r \in Station /\ Steady(g, r) /\ Restarts(g, r)
      /\ \/ /\ r.awake = g.awake /\ r.inflight = g.inflight
            /\ r.current = g.current /\ r.queued = g.queued /\ r.requested = g.requested
            /\ r.waitingack = IF t \in Edca THEN ~b ELSE g.waitingack
         \/ t \in Edca /\ ~r.awake /\ r.inflight = Nobody
  BY <1>1, <1>2, SleepCallbackEffect
<1>4. Steady(s, r) /\ Restarts(s, r)
  BY <1>1, <1>3, SteadyTransitive DEF Restarts
<1>5. Over(s, r, t)
  BY <1>1, <1>3, <1>4 DEF Over
<1>6. ASSUME t \in Edca, Served(g, t) PROVE Served(r, t)
  <2>1. CASE ~r.awake
    BY <2>1, ServedAsleep
  <2>2. CASE r.awake
    <3>1. HasPacket(r, t) => HasPacket(g, t)
      BY <2>2, <1>3 DEF HasPacket
    <3> QED BY <3>1, <2>2, <1>1, <1>3, <1>6, ServedAgain
  <2> QED BY <2>1, <2>2
<1> QED BY <1>2, <1>5, <1>6

LEMMA DiscardOver ==
  ASSUME NEW s \in Station, NEW g, NEW t \in Txop, Over(s, g, t)
  PROVE  Over(s, [g EXCEPT !.current[t] = FALSE], t)
<1>1. g \in Station /\ Steady(s, g) /\ Restarts(s, g) /\ g.inflight = Nobody
  BY DEF Over
<1>2. PICK f : f = [g EXCEPT !.current[t] = FALSE]
  OBVIOUS
<1>3. /\ f \in Station
      /\ f.agenda = g.agenda /\ f.allowed = g.allowed /\ f.slot = g.slot
      /\ f.rawslot = g.rawslot /\ f.outsideraw = g.outsideraw
      /\ f.awake = g.awake /\ f.inflight = Nobody
      /\ f.requested = g.requested /\ f.queued = g.queued
      /\ \A u \in Txop : u # t => f.current[u] = g.current[u]
  <2>1. \A u \in Txop : u # t => [g.current EXCEPT ![t] = FALSE][u] = g.current[u]
    BY <1>1 DEF Station
  <2>2. f = [g EXCEPT !.current = [g.current EXCEPT ![t] = FALSE]]
    BY <1>2
  <2>3. f \in Station
    BY <1>1, <1>2, FinishedType
  <2> QED BY <1>1, <2>1, <2>2, <2>3 DEF Station
<1>4. Steady(g, f) /\ Restarts(g, f)
  BY <1>3, SameAgenda DEF Steady, Restarts
<1>5. Steady(s, f) /\ Restarts(s, f)
  BY <1>1, <1>4, SteadyTransitive DEF Restarts
<1>6. Over(s, f, t)
  BY <1>3, <1>5 DEF Over
<1> QED BY <1>2, <1>6

LEMMA EndsQuiet ==
  ASSUME NEW t \in Txop, TypeOK, Ends(t)
  PROVE  Quiet(sta, sta') /\ UNCHANGED <<since, raw>>
<1>0. UNCHANGED <<since, raw>>
  BY EndsType
<1>1. PICK s \in Station : s = sta
  BY DEF TypeOK
<1>2. s.inflight = t
  BY <1>1 DEF Ends, GotAck, GotAckOfFragment, MissedAckRetransmit, MissedAckFail, MissedCts, Exchange
<1>3. PICK f : f = Finished(s, t)
  OBVIOUS
<1>4. PICK g : g = [s EXCEPT !.inflight = Nobody]
  OBVIOUS
<1>5. Over(s, f, t) /\ Over(s, g, t)
  BY <1>3, <1>4, FinishedOver
<1>6. CASE GotAck(t)
  <2>1. PICK q : q = RestartAccessIfNeeded(f, {t})
    OBVIOUS
  <2>2. Over(s, q, t) /\ Served(q, t)
    BY <2>1, <1>5, RestartOver
  <2>3. PICK r : r = SleepCallback(q, t, TRUE)
    OBVIOUS
  <2>4. Over(s, r, t) /\ (t \in Edca => Served(r, t))
    BY <2>2, <2>3, CallbackOver
  <2>5. sta' = r
    BY <1>6, <1>1, <1>3, <2>1, <2>3 DEF GotAck
  <2>6. Quiet(s, r)
    BY <1>2, <2>4, OverQuiet
  <2> QED BY <2>5, <2>6, <1>0, <1>1
<1>7. CASE GotAckOfFragment(t)
  <2>1. PICK k : k = SleepCallback(s, t, TRUE)
    OBVIOUS
  <2>2. /\ k \in Station /\ Steady(s, k) /\ Restarts(s, k)
        /\ \/ /\ k.awake = s.awake /\ k.inflight = s.inflight
              /\ k.current = s.current /\ k.queued = s.queued /\ k.requested = s.requested
              /\ k.waitingack = IF t \in Edca THEN ~TRUE ELSE s.waitingack
           \/ t \in Edca /\ ~k.awake /\ k.inflight = Nobody
    BY <2>1, SleepCallbackEffect
  <2>3. PICK r : r = Schedule(k, 1, "startNext")
    OBVIOUS
  <2>4. "startNext" \in Events \ WindowEvents
    BY DEF Events, WindowEvents
  <2>5. r \in Station /\ Alike(k, r) /\ Steady(k, r) /\ Restarts(k, r)
    BY <2>2, <2>3, <2>4, ScheduleEffect, ScheduleSteady
  <2>6. Steady(s, r) /\ Restarts(s, r)
    BY <2>2, <2>5, SteadyTransitive DEF Restarts
  <2>7. ASSUME NEW u \in Edca, Served(s, u) PROVE Served(r, u)
    <3>1. CASE ~r.awake
      BY <3>1, ServedAsleep
    <3>2. CASE r.awake
      <4>1. /\ r.awake = s.awake /\ r.inflight = s.inflight
            /\ r.current = s.current /\ r.queued = s.queued /\ r.requested = s.requested
        BY <3>2, <2>2, <2>5 DEF Alike
      <4>2. HasPacket(r, u) => HasPacket(s, u)
        BY <4>1 DEF HasPacket
      <4> QED BY <4>1, <4>2, <2>5, <2>6, <2>7, ServedAgain
    <3> QED BY <3>1, <3>2
  <2>8. \A u \in Txop : r.inflight = u => s.inflight = u
    BY <2>2, <2>5, NobodyElse DEF Alike
  <2>9. Fragments /\ sta' = r
    BY <1>7, <1>1, <2>1, <2>3 DEF GotAckOfFragment
  <2>10. ~Idle(s)
    BY <1>2, NobodyElse DEF Idle
  <2>11. Quiet(s, r)
    BY <2>5, <2>6, <2>7, <2>8, <2>9, <2>10 DEF Quiet
  <2> QED BY <2>9, <2>11, <1>0, <1>1
<1>8. CASE MissedAckRetransmit(t)
  <2>1. PICK k : k = SleepCallback(g, t, FALSE)
    OBVIOUS
  <2>2. Over(s, k, t)
    BY <2>1, <1>5, CallbackOver
  <2>3. PICK r : r = RestartAccessIfNeeded(k, {t})
    OBVIOUS
  <2>4. Over(s, r, t) /\ Served(r, t)
    BY <2>2, <2>3, RestartOver
  <2>5. sta' = r
    BY <1>8, <1>1, <1>4, <2>1, <2>3 DEF MissedAckRetransmit
  <2>6. Quiet(s, r)
    BY <1>2, <2>4, OverQuiet
  <2> QED BY <2>5, <2>6, <1>0, <1>1
<1>9. CASE MissedAckFail(t)
  <2>1. PICK k : k = SleepCallback(g, t, TRUE)
    OBVIOUS
  <2>2. Over(s, k, t)
    BY <2>1, <1>5, CallbackOver
  <2>3. PICK c : c = [k EXCEPT !.current[t] = FALSE]
    OBVIOUS
  <2>4. Over(s, c, t)
    BY <2>2, <2>3, DiscardOver
  <2>5. PICK r : r = RestartAccessIfNeeded(c, {t})
    OBVIOUS
  <2>6. Over(s, r, t) /\ Served(r, t)
    BY <2>4, <2>5, RestartOver
  <2>7. sta' = r
    BY <1>9, <1>1, <1>4, <2>1, <2>3, <2>5 DEF MissedAckFail
  <2>8. Quiet(s, r)
    BY <1>2, <2>6, OverQuiet
  <2> QED BY <2>7, <2>8, <1>0, <1>1
<1>10. CASE MissedCts(t)
  <2>1. PICK q : q = RestartAccessIfNeeded(f, {t})
    OBVIOUS
  <2>2. PICK r : r = RestartAccessIfNeeded(g, {t})
    OBVIOUS
  <2>3. Over(s, q, t) /\ Served(q, t) /\ Over(s, r, t) /\ Served(r, t)
    BY <2>1, <2>2, <1>5, RestartOver
  <2>4. Quiet(s, q) /\ Quiet(s, r)
    BY <2>3, <1>2, OverQuiet
  <2>5. sta' = q \/ sta' = r
    BY <1>10, <1>1, <1>3, <1>4, <2>1, <2>2 DEF MissedCts
  <2> QED BY <2>4, <2>5, <1>0, <1>1
<1> QED BY <1>6, <1>7, <1>8, <1>9, <1>10 DEF Ends

(* The scheduled events that have nothing to do with windows. *)
LEMMA FireEvent ==
  ASSUME NEW e, TypeOK, Fire(e)
  PROVE  /\ UNCHANGED <<since, raw>>
         /\ \E i \in DOMAIN sta.agenda :
              /\ sta.agenda[i].what = e /\ sta.agenda[i].in = 0
              /\ \A j \in 1..(i - 1) : sta.agenda[j].in > 0
              /\ sta' = Fires(Dropped(sta, i), e)
BY DEF Fire, Due, Dropped

LEMMA FireQuiet ==
  ASSUME NEW e \in {"restart", "wake", "sent", "startNext"}, TypeOK, Fire(e)
  PROVE  Quiet(sta, sta') /\ Staying(sta, sta') /\ UNCHANGED <<since, raw>>
<1>1. PICK s \in Station : s = sta
  BY DEF TypeOK
<1>2. UNCHANGED <<since, raw>>
  BY FireEvent
<1>3. PICK i \in DOMAIN s.agenda : s.agenda[i].what = e /\ sta' = Fires(Dropped(s, i), e)
  BY <1>1, FireEvent
<1>4. PICK d : d = Dropped(s, i)
  OBVIOUS
<1>5. /\ d \in Station /\ Alike(s, d)
      /\ \A c, f : Planned(s, c, f) /\ (f # e \/ c # s.agenda[i].in) => Planned(d, c, f)
  BY <1>3, <1>4, DroppedEffect
<1>6. Steady(s, d)
  BY <1>3, <1>4, <1>5, DroppedOther DEF Steady, Alike, WindowEvents
<1>7. e # "restart" => Restarts(s, d)
  BY <1>5, PlannedScheduled DEF Restarts
<1>8. /\ d.awake = s.awake /\ d.inflight = s.inflight /\ d.waitingack = s.waitingack
      /\ d.current = s.current /\ d.queued = s.queued /\ d.requested = s.requested
      /\ d.allowed = s.allowed
  BY <1>5 DEF Alike
<1>9. ASSUME e # "restart", NEW u \in Edca, Served(s, u) PROVE Served(d, u)
  <2>1. HasPacket(d, u) => HasPacket(s, u)
    BY <1>8 DEF HasPacket
  <2> QED BY <2>1, <1>5, <1>6, <1>7, <1>8, <1>9, ServedAgain
<1>10. CASE e = "restart"
  <2>1. PICK T : T = {u \in Txop : HasPacket(d, u)}
    OBVIOUS
  <2>2. PICK r : r = Request(d, T)
    OBVIOUS
  <2>3. sta' = r
    BY <1>3, <1>4, <1>10, <2>1, <2>2 DEF Fires, RestartAccessIfNeeded
  <2>4. /\ r \in Station /\ Steady(d, r)
        /\ r.awake = d.awake /\ r.inflight = d.inflight /\ r.waitingack = d.waitingack
        /\ r.queued = d.queued /\ r.current = d.current
        /\ \A t \in Txop : r.requested[t] <=> (d.requested[t] \/ (t \in T /\ d.allowed[t] /\ d.awake))
    BY <2>2, <1>5, RequestEffect
  <2>5. Steady(s, r)
    BY <1>6, <2>4, SteadyTransitive
  <2>6. ASSUME NEW u \in Edca PROVE Served(r, u)
    <3>1. u \in Txop
      BY NobodyElse
    <3>2. HasPacket(r, u) => u \in T
      BY <3>1, <2>1, <2>4 DEF HasPacket
    <3>3. r.allowed = d.allowed
      BY <2>4 DEF Steady
    <3> QED BY <3>1, <3>2, <3>3, <2>4 DEF Served
  <2>7. Quiet(s, r) /\ Staying(s, r)
    BY <1>8, <2>4, <2>5, <2>6, QuietFrom
  <2> QED BY <2>3, <2>7, <1>1, <1>2
<1>11. CASE e = "wake"
  <2>1. PICK w : w = WakeUp(d)
    OBVIOUS
  <2>2. /\ w \in Station /\ Steady(d, w) /\ Restarts(d, w)
        /\ w.awake /\ w.inflight = d.inflight /\ w.waitingack = d.waitingack
        /\ (d.awake => w = d) /\ (~d.awake => Scheduled(w, "restart"))
    BY <2>1, <1>5, WakeUpEffect
  <2>3. PICK v : v = Schedule(w, Period, "wake")
    OBVIOUS
  <2>4. "wake" \in Events \ WindowEvents /\ Period \in Nat
    BY RawAssumption DEF Events, WindowEvents
  <2>5. v \in Station /\ Alike(w, v) /\ Steady(w, v) /\ Restarts(w, v)
    BY <2>2, <2>3, <2>4, ScheduleEffect, ScheduleSteady
  <2>6. PICK r : r = [v EXCEPT !.receivingBeacon = TRUE]
    OBVIOUS
  <2>7. /\ r \in Station
        /\ r.agenda = v.agenda /\ r.allowed = v.allowed /\ r.slot = v.slot
        /\ r.rawslot = v.rawslot /\ r.outsideraw = v.outsideraw
        /\ r.awake = v.awake /\ r.inflight = v.inflight /\ r.waitingack = v.waitingack
        /\ r.requested = v.requested /\ r.queued = v.queued /\ r.current = v.current
    BY <2>5, <2>6 DEF Station
  <2>8. Steady(v, r) /\ Restarts(v, r)
    BY <2>7, SameAgenda DEF Steady, Restarts
  <2>9. Steady(w, r) /\ Restarts(w, r)
    BY <2>5, <2>8, SteadyTransitive DEF Restarts
  <2>10. Steady(s, w)
    BY <1>6, <2>2, SteadyTransitive
  <2>11. Steady(s, r)
    BY <2>9, <2>10, SteadyTransitive
  <2>12. ASSUME NEW u \in Edca, Served(w, u) PROVE Served(r, u)
    <3>1. /\ r.awake = w.awake /\ r.inflight = w.inflight
          /\ r.requested = w.requested /\ r.queued = w.queued /\ r.current = w.current
      BY <2>5, <2>7 DEF Alike
    <3>2. HasPacket(r, u) => HasPacket(w, u)
      BY <3>1 DEF HasPacket
    <3> QED BY <3>1, <3>2, <2>2, <2>7, <2>9, <2>12, ServedAgain
  <2>13. ASSUME NEW u \in Edca, Served(s, u) PROVE Served(w, u)
    <3>1. CASE d.awake
      BY <3>1, <2>2, <2>13, <1>9, <1>11
    <3>2. CASE ~d.awake
      BY <3>2, <2>2, ServedAsleep
    <3> QED BY <3>1, <3>2
  <2>14. r.awake /\ r.inflight = s.inflight /\ r.waitingack = s.waitingack
    BY <2>2, <2>5, <2>7, <1>8 DEF Alike
  <2>15. Quiet(s, r) /\ Staying(s, r)
    BY <2>7, <2>11, <2>12, <2>13, <2>14, QuietFrom
  <2>16. sta' = r
    BY <1>3, <1>4, <1>11, <2>1, <2>3, <2>6 DEF Fires, BeaconWakeUp
  <2> QED BY <2>15, <2>16, <1>1, <1>2
<1>12. CASE e = "sent"
  <2>1. sta' = d
    BY <1>3, <1>4, <1>12 DEF Fires
  <2>2. Quiet(s, d) /\ Staying(s, d)
    BY <1>5, <1>6, <1>8, <1>9, <1>12, QuietFrom
  <2> QED BY <2>1, <2>2, <1>1, <1>2
<1>13. CASE e = "startNext"
  <2>1. sta' = StartNext(d)
    BY <1>3, <1>4, <1>13 DEF Fires
  <2>2. CASE d.inflight # Nobody /\ d.allowed[d.inflight]
    <3>1. [d EXCEPT !.inflight = d.inflight] = d
      BY <1>5 DEF Station
    <3>2. PICK r : r = Schedule(d, Airtime, "sent")
      OBVIOUS
    <3>3. sta' = r
      BY <2>1, <2>2, <3>1, <3>2 DEF StartNext, StartTransmission
    <3>4. "sent" \in Events \ WindowEvents /\ Airtime \in Nat
      BY RawAssumption DEF Events, WindowEvents
    <3>5. r \in Station /\ Alike(d, r) /\ Steady(d, r) /\ Restarts(d, r)
      BY <1>5, <3>2, <3>4, ScheduleEffect, ScheduleSteady
    <3>6. Steady(s, r)
      BY <1>6, <3>5, SteadyTransitive
    <3>7. ASSUME NEW u \in Edca, Served(d, u) PROVE Served(r, u)
      <4>1. HasPacket(r, u) => HasPacket(d, u)
        BY <3>5 DEF HasPacket, Alike
      <4> QED BY <4>1, <1>5, <3>5, <3>7, ServedAgain DEF Alike
    <3>8. r.awake = s.awake /\ r.inflight = s.inflight /\ r.waitingack = s.waitingack
      BY <3>5, <1>8 DEF Alike
    <3>9. Quiet(s, r) /\ Staying(s, r)
      BY <1>9, <1>13, <3>5, <3>6, <3>7, <3>8, QuietFrom
    <3> QED BY <3>3, <3>9, <1>1, <1>2
  <2>3. CASE ~(d.inflight # Nobody /\ d.allowed[d.inflight])
    <3>1. PICK r : r = [d EXCEPT !.inflight = Nobody]
      OBVIOUS
    <3>2. sta' = r
      BY <2>1, <2>3, <3>1 DEF StartNext
    <3>3. /\ r \in Station
          /\ r.agenda = d.agenda /\ r.allowed = d.allowed /\ r.slot = d.slot
          /\ r.rawslot = d.rawslot /\ r.outsideraw = d.outsideraw
          /\ r.awake = d.awake /\ r.inflight = Nobody /\ r.waitingack = d.waitingack
          /\ r.requested = d.requested /\ r.queued = d.queued /\ r.current = d.current
      BY <1>5, <3>1 DEF Station
    <3>4. Steady(d, r) /\ Restarts(d, r)
      BY <3>3, SameAgenda DEF Steady, Restarts
    <3>5. Steady(s, r)
      BY <1>6, <3>4, SteadyTransitive
    <3>6. ASSUME NEW u \in Edca, Served(d, u) PROVE Served(r, u)
      <4>1. HasPacket(r, u) => HasPacket(d, u)
        BY <3>3 DEF HasPacket
      <4>2. u # Nobody
        BY NobodyElse
      <4>3. CASE d.inflight = u
        BY <4>2, <4>3, <2>3, <3>3 DEF Served
      <4>4. CASE d.inflight # u
        BY <4>1, <4>4, <1>5, <3>3, <3>4, <3>6, ServedAgain
      <4> QED BY <4>3, <4>4
    <3>7. Staying(s, r)
      BY <3>3, <1>8 DEF Staying, Awaiting
    <3>8. Quiet(s, r)
      BY <3>3, <3>5, <3>6, <1>8, <1>9, <1>13, NobodyElse DEF Quiet, Idle, Awaiting
    <3> QED BY <3>2, <3>7, <3>8, <1>1, <1>2
  <2> QED BY <2>2, <2>3
<1> QED BY <1>10, <1>11, <1>12, <1>13

-----------------------------------------------------------------------------
(* The steps that open and close windows.                                  *)

(* AccessAllowedIfRaw touches nothing but the permissions. *)
LEMMA AllowedEffect ==
  ASSUME NEW s \in Station, NEW f \in [Txop -> BOOLEAN]
  PROVE  LET r == [s EXCEPT !.allowed = f] IN
         /\ r \in Station /\ r.agenda = s.agenda /\ SameWindows(s, r) /\ r.allowed = f
         /\ \A e : Scheduled(s, e) <=> Scheduled(r, e)
         /\ r.awake = s.awake /\ r.inflight = s.inflight /\ r.waitingack = s.waitingack
         /\ r.rawslot = s.rawslot /\ r.outsideraw = s.outsideraw /\ r.slot = s.slot
         /\ r.queued = s.queued /\ r.current = s.current /\ r.requested = s.requested
<1>1. PICK r : r = [s EXCEPT !.allowed = f]
  OBVIOUS
<1>2. /\ r \in Station /\ r.agenda = s.agenda /\ r.allowed = f
      /\ r.awake = s.awake /\ r.inflight = s.inflight /\ r.waitingack = s.waitingack
      /\ r.rawslot = s.rawslot /\ r.outsideraw = s.outsideraw /\ r.slot = s.slot
      /\ r.queued = s.queued /\ r.current = s.current /\ r.requested = s.requested
  BY <1>1 DEF Station
<1>3. SameWindows(s, r) /\ \A e : Scheduled(s, e) <=> Scheduled(r, e)
  BY <1>2, SameAgenda
<1> QED BY <1>1, <1>2, <1>3

(* Every packet of EdcaTxopN has access requested, if it is allowed. *)
LEMMA RawbackoffEffect ==
  ASSUME NEW s \in Station
  PROVE  LET r == StartRawbackoff(s) IN
         /\ r \in Station /\ Steady(s, r)
         /\ r.awake = s.awake /\ r.inflight = s.inflight /\ r.waitingack = s.waitingack
         /\ \A u \in Edca : Served(r, u)
<1>1. PICK w : w = [s EXCEPT !.requested = NoTxop]
  OBVIOUS
<1>2. /\ w \in Station
      /\ w.agenda = s.agenda /\ w.allowed = s.allowed /\ w.slot = s.slot
      /\ w.rawslot = s.rawslot /\ w.outsideraw = s.outsideraw
      /\ w.awake = s.awake /\ w.inflight = s.inflight /\ w.waitingack = s.waitingack
  BY <1>1, NoTxopType DEF Station
<1>3. PICK T : T = {t \in Txop : w.queued[t] > 0 \/ (t \in Edca /\ w.current[t])}
  OBVIOUS
<1>4. PICK r : r = Request(w, T)
  OBVIOUS
<1>5. StartRawbackoff(s) = r
  BY <1>1, <1>3, <1>4 DEF StartRawbackoff, StartAccessIfNeededRaw
<1>6. /\ r \in Station /\ Steady(w, r)
      /\ r.awake = w.awake /\ r.inflight = w.inflight /\ r.waitingack = w.waitingack
      /\ r.queued = w.queued /\ r.current = w.current
      /\ \A t \in Txop : r.requested[t] <=> (w.requested[t] \/ (t \in T /\ w.allowed[t] /\ w.awake))
  BY <1>2, <1>4, RequestEffect
<1>7. Steady(s, w)
  BY <1>2, SameAgenda DEF Steady
<1>8. Steady(s, r)
  BY <1>6, <1>7, SteadyTransitive
<1>9. ASSUME NEW u \in Edca PROVE Served(r, u)
  <2>1. u \in Txop
    BY NobodyElse
  <2>2. HasPacket(r, u) => u \in T
    BY <2>1, <1>3, <1>6 DEF HasPacket
  <2>3. r.allowed = w.allowed
    BY <1>6 DEF Steady
  <2> QED BY <2>1, <2>2, <2>3, <1>6 DEF Served
<1> QED BY <1>2, <1>5, <1>6, <1>8, <1>9

LEMMA InsideEffect ==
  ASSUME NEW s \in Station
  PROVE  LET r == InsideBackoff(s) IN
         /\ r \in Station /\ SameWindows(s, r) /\ Barred(r) /\ ~r.rawslot
         /\ r.slot = s.slot /\ r.outsideraw = s.outsideraw
         /\ Awaiting(s) => Awaiting(r)
         /\ Staying(s, r)
         /\ r.inflight = s.inflight \/ r.inflight = Nobody
<1>1. PICK x : x = AccessAllowedIfRaw(s, Txop, FALSE)
  OBVIOUS
<1>2. /\ x \in Station /\ x.agenda = s.agenda /\ Barred(x)
      /\ x.awake = s.awake /\ x.inflight = s.inflight /\ x.waitingack = s.waitingack
      /\ x.outsideraw = s.outsideraw /\ x.slot = s.slot
  <2> DEFINE f == [t \in Txop |-> IF t \in Txop THEN FALSE ELSE s.allowed[t]]
  <2>1. f \in [Txop -> BOOLEAN] /\ x = [s EXCEPT !.allowed = f]
    BY <1>1 DEF AccessAllowedIfRaw
  <2>2. x.allowed = f
    BY <2>1, AllowedEffect
  <2>3. Barred(x)
    BY <2>2 DEF Barred
  <2> HIDE DEF f
  <2>4. /\ x \in Station /\ x.agenda = s.agenda
        /\ x.awake = s.awake /\ x.inflight = s.inflight /\ x.waitingack = s.waitingack
        /\ x.outsideraw = s.outsideraw /\ x.slot = s.slot
    BY <2>1, AllowedEffect
  <2> QED BY <2>3, <2>4
<1>3. PICK y : y = [x EXCEPT !.rawslot = FALSE]
  OBVIOUS
<1>4. /\ y \in Station /\ y.agenda = s.agenda /\ y.allowed = x.allowed
      /\ y.awake = s.awake /\ y.inflight = s.inflight /\ y.waitingack = s.waitingack
      /\ y.outsideraw = s.outsideraw /\ y.slot = s.slot /\ y.rawslot = FALSE
  BY <1>2, <1>3 DEF Station
<1>5. PICK r : r = GoToSleepBinary(y)
  OBVIOUS
<1>6. InsideBackoff(s) = r
  BY <1>1, <1>3, <1>5 DEF InsideBackoff
<1>7. /\ r \in Station /\ Steady(y, r)
      /\ r = y \/ (~y.waitingack /\ ~r.awake /\ r.inflight = Nobody)
  BY <1>4, <1>5, GoToSleepEffect
<1>8. SameWindows(s, y)
  BY <1>4, SameAgenda
<1>9. SameWindows(s, r)
  BY <1>7, <1>8, SameWindowsTransitive DEF Steady
<1>10. Barred(r) /\ ~r.rawslot /\ r.slot = s.slot /\ r.outsideraw = s.outsideraw
  BY <1>2, <1>4, <1>7 DEF Steady, Barred
<1>11. (Awaiting(s) => Awaiting(r)) /\ Staying(s, r)
  BY <1>4, <1>7, NobodyElse DEF Awaiting, Staying
<1>12. r.inflight = s.inflight \/ r.inflight = Nobody
  BY <1>4, <1>7
<1> QED BY <1>6, <1>7, <1>9, <1>10, <1>11, <1>12

LEMMA SlotStartEffect ==
  ASSUME NEW s \in Station, Once(s)
  PROVE  LET r == RawSlotStartBackoff(s) IN
         /\ r \in Station
         /\ r.allowed = s.allowed /\ r.slot = s.slot /\ r.outsideraw = s.outsideraw
         /\ r.inflight = s.inflight /\ r.waitingack = s.waitingack
         /\ s.awake => r.awake
         /\ \A d \in Nat :
              /\ Planned(r, d, "slotStart") <=> Planned(s, d, "slotStart")
              /\ Planned(r, d, "outside") <=> Planned(s, d, "outside")
              /\ Planned(r, d, "inside") <=> d = s.slot
              /\ Planned(r, d, "postpone") <=> (Planned(s, d, "postpone") \/ d = 1)
         /\ Once(r) /\ Scheduled(r, "startRaw")
         /\ Trailed(s) => Trailed(r)
<1>1. PICK b : b = Cancel(s, "inside")
  OBVIOUS
<1>2. /\ b \in Station /\ Alike(s, b)
      /\ \A d, f : Planned(b, d, f) => Planned(s, d, f)
      /\ \A d, f : Planned(s, d, f) /\ f # "inside" => Planned(b, d, f)
      /\ Once(b) /\ ~Scheduled(b, "inside")
      /\ (Trailed(s) => Trailed(b))
  BY <1>1, CancelEffect
<1>3. \A d \in Nat : ~Planned(b, d, "inside")
  BY <1>2, PlannedScheduled
<1>4. s.slot \in Nat /\ {"inside", "postpone", "startRaw"} \subseteq Events
  BY DEF Station, Events
<1>5. PICK c : c = Schedule(b, s.slot, "inside")
  OBVIOUS
<1>6. /\ c \in Station /\ Alike(b, c)
      /\ \A d, f : Planned(c, d, f) <=> (Planned(b, d, f) \/ (d = s.slot /\ f = "inside"))
      /\ Once(c) /\ (Trailed(b) => Trailed(c))
  BY <1>2, <1>4, <1>5, ScheduleEffect
<1>7. PICK e : e = Schedule(c, 1, "postpone")
  OBVIOUS
<1>8. /\ e \in Station /\ Alike(c, e)
      /\ \A d, f : Planned(e, d, f) <=> (Planned(c, d, f) \/ (d = 1 /\ f = "postpone"))
      /\ Once(e) /\ (Trailing(c) => Trailing(e))
  BY <1>4, <1>6, <1>7, ScheduleEffect
<1>9. Trailed(c) => Trailing(c)
  BY DEF Trailed, Trailing
<1>10. PICK g : g = [e EXCEPT !.rawslot = TRUE]
  OBVIOUS
<1>11. /\ g \in Station /\ g.agenda = e.agenda /\ g.allowed = e.allowed
       /\ g.awake = e.awake /\ g.inflight = e.inflight /\ g.waitingack = e.waitingack
       /\ g.outsideraw = e.outsideraw /\ g.slot = e.slot
  BY <1>8, <1>10 DEF Station
<1>12. SameWindows(e, g)
  BY <1>11, SameAgenda
<1>13. PICK w : w = IF HasPacketsInQueue(g) THEN WakeUp(g) ELSE g
  OBVIOUS
<1>14. /\ w \in Station /\ Steady(g, w) /\ (g.awake => w.awake)
       /\ w.inflight = g.inflight /\ w.waitingack = g.waitingack
  <2>1. CASE w = g
    BY <2>1, <1>11, SameAgenda DEF Steady
  <2>2. CASE w = WakeUp(g)
    BY <2>2, <1>11, WakeUpEffect
  <2> QED BY <1>13, <2>1, <2>2
<1>15. SameWindows(e, w)
  BY <1>12, <1>14, SameWindowsTransitive DEF Steady
<1>16. PICK r : r = Schedule(w, 1, "startRaw")
  OBVIOUS
<1>17. /\ r \in Station /\ Alike(w, r)
       /\ \A d, f : Planned(r, d, f) <=> (Planned(w, d, f) \/ (d = 1 /\ f = "startRaw"))
       /\ (Once(w) => Once(r)) /\ (Trailing(w) => Trailed(r))
  BY <1>4, <1>14, <1>16, ScheduleEffect
<1>18. RawSlotStartBackoff(s) = r
  <2>1. [Schedule(Schedule(Cancel(s, "inside"), s.slot, "inside"), 1, "postpone")
              EXCEPT !.rawslot = TRUE] = g
    BY <1>1, <1>5, <1>7, <1>10
  <2> QED BY <2>1, <1>13, <1>16 DEF RawSlotStartBackoff
<1>19. /\ r.allowed = s.allowed /\ r.slot = s.slot /\ r.outsideraw = s.outsideraw
       /\ r.inflight = s.inflight /\ r.waitingack = s.waitingack
       /\ s.awake => r.awake
  BY <1>2, <1>6, <1>8, <1>11, <1>14, <1>17 DEF Alike, Steady
<1>20. \A d \in Nat : \A f \in WindowEvents :
         Planned(w, d, f) <=> \/ Planned(b, d, f) \/ (d = s.slot /\ f = "inside")
                             \/ (d = 1 /\ f = "postpone")
  BY <1>6, <1>8, <1>15 DEF SameWindows
<1>21. \A d \in Nat :
              /\ Planned(r, d, "slotStart") <=> Planned(s, d, "slotStart")
              /\ Planned(r, d, "outside") <=> Planned(s, d, "outside")
              /\ Planned(r, d, "inside") <=> d = s.slot
              /\ Planned(r, d, "postpone") <=> (Planned(s, d, "postpone") \/ d = 1)
  <2> TAKE d \in Nat
  <2>1. /\ Planned(r, d, "slotStart") <=> Planned(w, d, "slotStart")
        /\ Planned(r, d, "outside") <=> Planned(w, d, "outside")
        /\ Planned(r, d, "inside") <=> Planned(w, d, "inside")
        /\ Planned(r, d, "postpone") <=> Planned(w, d, "postpone")
    BY <1>17
  <2>2. /\ Planned(w, d, "slotStart") <=> Planned(b, d, "slotStart")
        /\ Planned(w, d, "outside") <=> Planned(b, d, "outside")
        /\ Planned(w, d, "inside") <=> d = s.slot
        /\ Planned(w, d, "postpone") <=> (Planned(b, d, "postpone") \/ d = 1)
    BY <1>3, <1>20 DEF WindowEvents
  <2>3. /\ Planned(b, d, "slotStart") <=> Planned(s, d, "slotStart")
        /\ Planned(b, d, "outside") <=> Planned(s, d, "outside")
        /\ Planned(b, d, "postpone") <=> Planned(s, d, "postpone")
    BY <1>2
  <2> QED BY <2>1, <2>2, <2>3
<1>22. Once(r)
  BY <1>8, <1>15, <1>17 DEF SameWindows
<1>23. Trailed(s) => Trailed(r)
  BY <1>2, <1>6, <1>8, <1>9, <1>15, <1>17 DEF SameWindows
<1>24. Scheduled(r, "startRaw")
  BY <1>17, PlannedScheduled
<1> QED BY <1>17, <1>18, <1>19, <1>21, <1>22, <1>23, <1>24

LEMMA OutsideEffect ==
  ASSUME NEW s \in Station, Once(s)
  PROVE  LET r == OutsideRawStartBackoff(s) IN
         /\ r \in Station
         /\ \A t \in Txop : r.allowed[t]
         /\ r.slot = s.slot /\ r.inflight = s.inflight /\ r.waitingack = s.waitingack
         /\ s.awake => r.awake
         /\ \A d \in Nat :
              /\ Planned(r, d, "slotStart") <=> Planned(s, d, "slotStart")
              /\ Planned(r, d, "outside") <=> Planned(s, d, "outside")
              /\ ~Planned(r, d, "inside")
              /\ Planned(r, d, "postpone") <=> (Planned(s, d, "postpone") \/ d = 1)
         /\ Once(r)
         /\ \A u \in Edca : Served(r, u)
<1>1. PICK b : b = Cancel(s, "inside")
  OBVIOUS
<1>2. /\ b \in Station /\ Alike(s, b)
      /\ \A d, f : Planned(b, d, f) => Planned(s, d, f)
      /\ \A d, f : Planned(s, d, f) /\ f # "inside" => Planned(b, d, f)
      /\ Once(b) /\ ~Scheduled(b, "inside")
  BY <1>1, CancelEffect
<1>3. \A d \in Nat : ~Planned(b, d, "inside")
  BY <1>2, PlannedScheduled
<1>4. PICK o : o = [b EXCEPT !.outsideraw = TRUE]
  OBVIOUS
<1>5. /\ o \in Station /\ o.agenda = b.agenda
      /\ o.awake = b.awake /\ o.inflight = b.inflight /\ o.waitingack = b.waitingack
      /\ o.slot = b.slot
  BY <1>2, <1>4 DEF Station
<1>6. SameWindows(b, o)
  BY <1>5, SameAgenda
<1>7. PICK w : w = IF HasPacketsInQueue(o) THEN WakeUp(o) ELSE o
  OBVIOUS
<1>8. /\ w \in Station /\ Steady(o, w) /\ (o.awake => w.awake)
      /\ w.inflight = o.inflight /\ w.waitingack = o.waitingack
  <2>1. CASE w = o
    BY <2>1, <1>5, SameAgenda DEF Steady
  <2>2. CASE w = WakeUp(o)
    BY <2>2, <1>5, WakeUpEffect
  <2> QED BY <1>7, <2>1, <2>2
<1>9. SameWindows(b, w)
  BY <1>6, <1>8, SameWindowsTransitive DEF Steady
<1>10. PICK p : p = Schedule(w, 1, "postpone")
  OBVIOUS
<1>11. "postpone" \in Events
  BY DEF Events
<1>12. /\ p \in Station /\ Alike(w, p)
       /\ \A d, f : Planned(p, d, f) <=> (Planned(w, d, f) \/ (d = 1 /\ f = "postpone"))
       /\ (Once(w) => Once(p))
  BY <1>8, <1>10, <1>11, ScheduleEffect
<1>13. PICK x : x = AccessAllowedIfRaw(p, Txop, TRUE)
  OBVIOUS
<1>14. /\ x \in Station /\ SameWindows(p, x) /\ (\A t \in Txop : x.allowed[t])
       /\ x.awake = p.awake /\ x.inflight = p.inflight /\ x.waitingack = p.waitingack
       /\ x.slot = p.slot
  <2> DEFINE f == [t \in Txop |-> IF t \in Txop THEN TRUE ELSE p.allowed[t]]
  <2>1. f \in [Txop -> BOOLEAN] /\ x = [p EXCEPT !.allowed = f]
    BY <1>12, <1>13 DEF AccessAllowedIfRaw
  <2>2. x.allowed = f
    BY <2>1, <1>12, AllowedEffect
  <2>3. \A t \in Txop : x.allowed[t]
    BY <2>2
  <2> HIDE DEF f
  <2>4. /\ x \in Station /\ SameWindows(p, x)
        /\ x.awake = p.awake /\ x.inflight = p.inflight /\ x.waitingack = p.waitingack
        /\ x.slot = p.slot
    BY <1>12, <2>1, AllowedEffect
  <2> QED BY <2>3, <2>4
<1>15. PICK r : r = StartRawbackoff(x)
  OBVIOUS
<1>16. OutsideRawStartBackoff(s) = r
  <2>1. OutsideRawStartBackoff(s) = OutsideRawStart(p)
    BY <1>1, <1>4, <1>7, <1>10 DEF OutsideRawStartBackoff
  <2>2. OutsideRawStart(p) = StartAccessIfNeededRaw([x EXCEPT !.requested = NoTxop])
    BY <1>13 DEF OutsideRawStart
  <2> QED BY <2>1, <2>2, <1>15 DEF StartRawbackoff
<1>17. /\ r \in Station /\ Steady(x, r)
       /\ r.awake = x.awake /\ r.inflight = x.inflight /\ r.waitingack = x.waitingack
       /\ \A u \in Edca : Served(r, u)
  BY <1>14, <1>15, RawbackoffEffect
<1>18. SameWindows(p, r)
  BY <1>14, <1>17, SameWindowsTransitive DEF Steady
<1>19. \A d \in Nat :
              /\ Planned(r, d, "slotStart") <=> Planned(s, d, "slotStart")
              /\ Planned(r, d, "outside") <=> Planned(s, d, "outside")
              /\ ~Planned(r, d, "inside")
              /\ Planned(r, d, "postpone") <=> (Planned(s, d, "postpone") \/ d = 1)
  <2> TAKE d \in Nat
  <2>1. \A f \in WindowEvents : Planned(r, d, f) <=> (Planned(b, d, f) \/ (d = 1 /\ f = "postpone"))
    BY <1>9, <1>12, <1>18 DEF SameWindows
  <2>2. /\ Planned(b, d, "slotStart") <=> Planned(s, d, "slotStart")
        /\ Planned(b, d, "outside") <=> Planned(s, d, "outside")
        /\ Planned(b, d, "postpone") <=> Planned(s, d, "postpone")
    BY <1>2
  <2> QED BY <2>1, <2>2, <1>3 DEF WindowEvents
<1>20. Once(r)
  BY <1>2, <1>9, <1>12, <1>18 DEF SameWindows
<1>21. /\ \A t \in Txop : r.allowed[t]
       /\ r.slot = s.slot /\ r.inflight = s.inflight /\ r.waitingack = s.waitingack
       /\ s.awake => r.awake
  BY <1>2, <1>5, <1>8, <1>12, <1>14, <1>17 DEF Alike, Steady
<1> QED BY <1>16, <1>17, <1>19, <1>20, <1>21

LEMMA FirstBeaconEffect ==
  ASSUME NEW s \in Station
  PROVE  LET r == FirstBeacon(s) IN
         r \in Station /\ Alike(s, r) /\ SameWindows(s, r) /\ Restarts(s, r)
<1>1. CASE Scheduled(s, "wake")
  <2>1. FirstBeacon(s) = s
    BY <1>1 DEF FirstBeacon
  <2> QED BY <2>1, SameAgenda DEF Alike, Restarts
<1>2. CASE ~Scheduled(s, "wake")
  <2>1. FirstBeacon(s) = Schedule(s, FirstWake, "wake")
    BY <1>2 DEF FirstBeacon
  <2>2. FirstWake \in Nat /\ "wake" \in Events \ WindowEvents
    BY RawAssumption DEF Events, WindowEvents
  <2> QED BY <2>1, <2>2, ScheduleEffect, ScheduleSteady DEF Steady
<1> QED BY <1>1, <1>2

(* The end of a RAW that was scheduled before is cancelled. *)
LEMMA ForgetEffect ==
  ASSUME NEW s \in Station
  PROVE  LET b == Cancel([s EXCEPT !.receivingBeacon = FALSE], "outside") IN
         /\ b \in Station
         /\ b.allowed = s.allowed /\ b.awake = s.awake /\ b.inflight = s.inflight
         /\ b.rawslot = s.rawslot /\ b.requested = s.requested
         /\ b.queued = s.queued /\ b.current = s.current
         /\ \A d, f : Planned(b, d, f) => Planned(s, d, f)
         /\ \A d, f : Planned(s, d, f) /\ f # "outside" => Planned(b, d, f)
         /\ Once(s) => Once(b)
         /\ Trailed(s) => Trailed(b)
         /\ Restarts(s, b)
<1>1. PICK k : k = [s EXCEPT !.receivingBeacon = FALSE]
  OBVIOUS
<1>2. /\ k \in Station /\ k.agenda = s.agenda
      /\ k.allowed = s.allowed /\ k.awake = s.awake /\ k.inflight = s.inflight
      /\ k.rawslot = s.rawslot /\ k.requested = s.requested
      /\ k.queued = s.queued /\ k.current = s.current
  BY <1>1 DEF Station
<1>3. SameWindows(s, k) /\ \A d, f : Planned(s, d, f) <=> Planned(k, d, f)
  BY <1>2, SameAgenda
<1>4. PICK b : b = Cancel(k, "outside")
  OBVIOUS
<1>5. /\ b \in Station /\ Alike(k, b)
      /\ \A d, f : Planned(b, d, f) => Planned(k, d, f)
      /\ \A d, f : Planned(k, d, f) /\ f # "outside" => Planned(b, d, f)
      /\ (Once(k) => Once(b)) /\ (Trailed(k) => Trailed(b))
  BY <1>2, <1>4, CancelEffect
<1>6. \A d \in Nat : Planned(s, d, "restart") => Planned(b, d, "restart")
  BY <1>3, <1>5
<1>7. Restarts(s, b)
  BY <1>5, <1>6, PlannedScheduled DEF Restarts
<1> QED BY <1>1, <1>2, <1>3, <1>4, <1>5, <1>7 DEF Alike, SameWindows

LEMMA S1gBeaconEffect ==
  ASSUME NEW s \in Station, NEW a \in Assignments
  PROVE  LET z == S1gBeaconReceived(s, a) IN
         /\ z \in Station
         /\ z.awake = s.awake /\ z.inflight = s.inflight
         /\ Once(s) => Once(z)
         /\ Trailed(s) => Trailed(z)
         /\ \A d \in Nat :
              /\ Planned(z, d, "inside") <=> Planned(s, d, "inside")
              /\ Planned(z, d, "postpone") <=> Planned(s, d, "postpone")
              /\ Planned(z, d, "outside") => Planned(s, d, "outside") \/ (s.hasAid /\ d = a.end)
              /\ Planned(z, d, "slotStart") <=>
                   (Planned(s, d, "slotStart") \/ (s.hasAid /\ a.kind = "own" /\ d = a.start))
         /\ s.hasAid /\ a.kind # "unpaged" => Barred(z)
         /\ ~s.hasAid => /\ \A t \in Edca : z.allowed[t] = s.allowed[t]
                         /\ z.requested = s.requested /\ z.queued = s.queued
                         /\ z.current = s.current /\ Restarts(s, z)
                         /\ Scheduled(s, "startRaw") => Scheduled(z, "startRaw")
<1>1. PICK b : b = Cancel([s EXCEPT !.receivingBeacon = FALSE], "outside")
  OBVIOUS
<1>2. /\ b \in Station
      /\ b.allowed = s.allowed /\ b.awake = s.awake /\ b.inflight = s.inflight
      /\ b.requested = s.requested /\ b.queued = s.queued /\ b.current = s.current
      /\ \A d, f : Planned(b, d, f) => Planned(s, d, f)
      /\ \A d, f : Planned(s, d, f) /\ f # "outside" => Planned(b, d, f)
      /\ (Once(s) => Once(b)) /\ (Trailed(s) => Trailed(b)) /\ Restarts(s, b)
  BY <1>1, ForgetEffect
<1>3. \A d \in Nat :
        /\ Planned(b, d, "inside") <=> Planned(s, d, "inside")
        /\ Planned(b, d, "postpone") <=> Planned(s, d, "postpone")
        /\ Planned(b, d, "slotStart") <=> Planned(s, d, "slotStart")
        /\ Planned(s, d, "startRaw") => Planned(b, d, "startRaw")
        /\ Planned(b, d, "outside") => Planned(s, d, "outside")
  BY <1>2
<1>4. a.end \in Nat /\ a.start \in Nat /\ a.kind \in Kinds /\ {"outside", "slotStart"} \subseteq Events
  BY RawAssumption DEF Events
<1>5. CASE ~s.hasAid
  <2> DEFINE f == [t \in Txop |-> IF t \in Dca THEN TRUE ELSE b.allowed[t]]
  <2>1. PICK z : z = [b EXCEPT !.allowed = f]
    OBVIOUS
  <2>2. S1gBeaconReceived(s, a) = z
    BY <1>1, <1>5, <2>1 DEF S1gBeaconReceived, AccessAllowedIfRaw
  <2>3. f \in [Txop -> BOOLEAN]
    BY <1>2 DEF Station
  <2>4. \A t \in Edca : f[t] = s.allowed[t]
    BY <1>2, NobodyElse
  <2> HIDE DEF f
  <2>5. /\ z \in Station /\ SameWindows(b, z) /\ z.allowed = f
        /\ \A e : Scheduled(b, e) <=> Scheduled(z, e)
        /\ z.awake = b.awake /\ z.inflight = b.inflight
        /\ z.queued = b.queued /\ z.current = b.current /\ z.requested = b.requested
    BY <1>2, <2>1, <2>3, AllowedEffect
  <2>6. \A d \in Nat :
          /\ Planned(z, d, "inside") <=> Planned(s, d, "inside")
          /\ Planned(z, d, "postpone") <=> Planned(s, d, "postpone")
          /\ Planned(z, d, "slotStart") <=> Planned(s, d, "slotStart")
          /\ Planned(z, d, "outside") => Planned(s, d, "outside")
    BY <1>3, <2>5 DEF SameWindows, WindowEvents
  <2>7. Restarts(s, z)
    BY <1>2, <2>5 DEF Restarts
  <2>8. Scheduled(s, "startRaw") => Scheduled(z, "startRaw")
    BY <1>2, <1>3, <2>5, PlannedScheduled
  <2>9. (Once(s) => Once(z)) /\ (Trailed(s) => Trailed(z))
    BY <1>2, <2>5 DEF SameWindows
  <2>10. \A t \in Edca : z.allowed[t] = s.allowed[t]
    BY <2>4, <2>5
  <2> QED BY <1>2, <1>5, <2>2, <2>5, <2>6, <2>7, <2>8, <2>9, <2>10
<1>6. CASE s.hasAid /\ a.kind = "unpaged"
  <2>1. S1gBeaconReceived(s, a) = b
    BY <1>1, <1>6 DEF S1gBeaconReceived
  <2> QED BY <2>1, <1>2, <1>3, <1>6
<1>7. CASE s.hasAid /\ a.kind # "unpaged"
  <2>1. PICK o : o = Schedule(b, a.end, "outside")
    OBVIOUS
  <2>2. /\ o \in Station /\ Alike(b, o)
        /\ \A d, f : Planned(o, d, f) <=> (Planned(b, d, f) \/ (d = a.end /\ f = "outside"))
        /\ (Once(b) => Once(o)) /\ (Trailed(b) => Trailed(o))
    BY <1>2, <1>4, <2>1, ScheduleEffect
  <2> DEFINE f == [t \in Txop |-> IF t \in Txop THEN FALSE ELSE o.allowed[t]]
  <2>3. PICK x : x = [o EXCEPT !.allowed = f]
    OBVIOUS
  <2>4. f \in [Txop -> BOOLEAN] /\ \A t \in Txop : ~f[t]
    OBVIOUS
  <2>5. x = AccessAllowedIfRaw(o, Txop, FALSE)
    BY <2>3 DEF AccessAllowedIfRaw
  <2> HIDE DEF f
  <2>6. /\ x \in Station /\ SameWindows(o, x) /\ x.allowed = f
        /\ x.awake = o.awake /\ x.inflight = o.inflight
    BY <2>2, <2>3, <2>4, AllowedEffect
  <2>7. \A d \in Nat :
          /\ Planned(x, d, "inside") <=> Planned(s, d, "inside")
          /\ Planned(x, d, "postpone") <=> Planned(s, d, "postpone")
          /\ Planned(x, d, "slotStart") <=> Planned(s, d, "slotStart")
          /\ Planned(x, d, "outside") => Planned(s, d, "outside") \/ d = a.end
    BY <1>3, <2>2, <2>6 DEF SameWindows, WindowEvents
  <2>8. (Once(s) => Once(x)) /\ (Trailed(s) => Trailed(x))
    BY <1>2, <2>2, <2>6 DEF SameWindows
  <2>9. Barred(x) /\ x.awake = s.awake /\ x.inflight = s.inflight
    BY <1>2, <2>2, <2>4, <2>6 DEF Barred, Alike
  <2>10. CASE a.kind = "own"
    <3>1. PICK z : z = Schedule(x, a.start, "slotStart")
      OBVIOUS
    <3>2. S1gBeaconReceived(s, a) = z
      BY <1>1, <1>7, <2>1, <2>5, <2>10, <3>1 DEF S1gBeaconReceived
    <3>3. /\ z \in Station /\ Alike(x, z)
          /\ \A d, e : Planned(z, d, e) <=> (Planned(x, d, e) \/ (d = a.start /\ e = "slotStart"))
          /\ (Once(x) => Once(z)) /\ (Trailed(x) => Trailed(z))
      BY <1>4, <2>6, <3>1, ScheduleEffect
    <3>4. \A d \in Nat :
            /\ Planned(z, d, "inside") <=> Planned(s, d, "inside")
            /\ Planned(z, d, "postpone") <=> Planned(s, d, "postpone")
            /\ Planned(z, d, "slotStart") <=> (Planned(s, d, "slotStart") \/ d = a.start)
            /\ Planned(z, d, "outside") => Planned(s, d, "outside") \/ d = a.end
      BY <2>7, <3>3
    <3>5. Barred(z) /\ z.awake = s.awake /\ z.inflight = s.inflight
      BY <2>9, <3>3 DEF Barred, Alike
    <3> QED BY <1>7, <2>8, <2>10, <3>2, <3>3, <3>4, <3>5
  <2>11. CASE a.kind # "own"
    <3>1. PICK z : z = StartRawbackoff(x)
      OBVIOUS
    <3>2. S1gBeaconReceived(s, a) = z
      BY <1>1, <1>7, <2>1, <2>5, <2>11, <3>1 DEF S1gBeaconReceived
    <3>3. z \in Station /\ Steady(x, z) /\ z.awake = x.awake /\ z.inflight = x.inflight
      BY <2>6, <3>1, RawbackoffEffect
    <3>4. \A d \in Nat :
            /\ Planned(z, d, "inside") <=> Planned(s, d, "inside")
            /\ Planned(z, d, "postpone") <=> Planned(s, d, "postpone")
            /\ Planned(z, d, "slotStart") <=> Planned(s, d, "slotStart")
            /\ Planned(z, d, "outside") => Planned(s, d, "outside") \/ d = a.end
      BY <2>7, <3>3 DEF Steady, SameWindows, WindowEvents
    <3>5. Barred(z) /\ z.awake = s.awake /\ z.inflight = s.inflight
          /\ (Once(x) => Once(z)) /\ (Trailed(x) => Trailed(z))
      BY <2>9, <3>3 DEF Barred, Steady, SameWindows
    <3> QED BY <1>7, <2>8, <2>11, <3>2, <3>3, <3>4, <3>5
  <2> QED BY <2>10, <2>11
<1> QED BY <1>5, <1>6, <1>7

LEMMA BeaconEffect ==
  ASSUME NEW s \in Station, NEW a \in Assignments
  PROVE  LET r == Received(s, a) IN
         /\ r \in Station
         /\ r.awake = s.awake /\ r.inflight = s.inflight /\ ~r.outsideraw
         /\ Once(s) => Once(r)
         /\ Trailed(s) => Trailed(r)
         /\ \A d \in Nat :
              /\ Planned(r, d, "inside") <=> Planned(s, d, "inside")
              /\ Planned(r, d, "postpone") <=> Planned(s, d, "postpone")
              /\ Planned(r, d, "outside") => Planned(s, d, "outside") \/ (s.hasAid /\ d = a.end)
              /\ Planned(r, d, "slotStart") <=>
                   (Planned(s, d, "slotStart") \/ (s.hasAid /\ a.kind = "own" /\ d = a.start))
         /\ s.hasAid /\ a.kind # "unpaged" => Barred(r)
         /\ s.hasAid /\ a.kind # "other" => r.slot = a.slot
         /\ ~s.hasAid => \A u \in Edca : /\ r.allowed[u] = s.allowed[u]
                                         /\ Served(s, u) => Served(r, u)
<1>1. PICK h : h = FirstBeacon(s)
  OBVIOUS
<1>2. h \in Station /\ Alike(s, h) /\ SameWindows(s, h) /\ Restarts(s, h)
  BY <1>1, FirstBeaconEffect
<1>3. \A d \in Nat :
        /\ Planned(h, d, "inside") <=> Planned(s, d, "inside")
        /\ Planned(h, d, "postpone") <=> Planned(s, d, "postpone")
        /\ Planned(h, d, "outside") <=> Planned(s, d, "outside")
        /\ Planned(h, d, "slotStart") <=> Planned(s, d, "slotStart")
  BY <1>2 DEF SameWindows, WindowEvents
<1>4. PICK z : z = S1gBeaconReceived(h, a)
  OBVIOUS
<1>5. /\ z \in Station
      /\ z.awake = h.awake /\ z.inflight = h.inflight
      /\ (Once(h) => Once(z)) /\ (Trailed(h) => Trailed(z))
      /\ \A d \in Nat :
           /\ Planned(z, d, "inside") <=> Planned(h, d, "inside")
           /\ Planned(z, d, "postpone") <=> Planned(h, d, "postpone")
           /\ Planned(z, d, "outside") => Planned(h, d, "outside") \/ (h.hasAid /\ d = a.end)
           /\ Planned(z, d, "slotStart") <=>
                (Planned(h, d, "slotStart") \/ (h.hasAid /\ a.kind = "own" /\ d = a.start))
      /\ (h.hasAid /\ a.kind # "unpaged" => Barred(z))
      /\ (~h.hasAid => /\ \A t \in Edca : z.allowed[t] = h.allowed[t]
                       /\ z.requested = h.requested /\ z.queued = h.queued
                       /\ z.current = h.current /\ Restarts(h, z)
                       /\ (Scheduled(h, "startRaw") => Scheduled(z, "startRaw")))
  BY <1>2, <1>4, S1gBeaconEffect
<1>6. PICK n : n = IF s.hasAid /\ a.kind # "other" THEN a.slot ELSE z.slot
  OBVIOUS
<1>7. PICK r : r = [z EXCEPT !.waitingack = FALSE, !.outsideraw = FALSE, !.slot = n]
  OBVIOUS
<1>8. Received(s, a) = r
  BY <1>1, <1>4, <1>6, <1>7 DEF Received
<1>9. n \in Nat
  BY <1>5, <1>6, RawAssumption DEF Station
<1>10. /\ r \in Station /\ r.agenda = z.agenda /\ r.allowed = z.allowed
       /\ r.awake = z.awake /\ r.inflight = z.inflight /\ r.outsideraw = FALSE /\ r.slot = n
       /\ r.requested = z.requested /\ r.queued = z.queued /\ r.current = z.current
  BY <1>5, <1>7, <1>9 DEF Station
<1>11. SameWindows(z, r) /\ (\A d, e : Planned(z, d, e) <=> Planned(r, d, e))
       /\ (\A e : Scheduled(z, e) <=> Scheduled(r, e))
  BY <1>10, SameAgenda
<1>12. \A d \in Nat :
         /\ Planned(r, d, "inside") <=> Planned(s, d, "inside")
         /\ Planned(r, d, "postpone") <=> Planned(s, d, "postpone")
         /\ Planned(r, d, "outside") => Planned(s, d, "outside") \/ (s.hasAid /\ d = a.end)
         /\ Planned(r, d, "slotStart") <=>
              (Planned(s, d, "slotStart") \/ (s.hasAid /\ a.kind = "own" /\ d = a.start))
  <2>1. h.hasAid = s.hasAid
    BY <1>2 DEF Alike
  <2> QED BY <2>1, <1>3, <1>5, <1>11
<1>13. r.awake = s.awake /\ r.inflight = s.inflight /\ ~r.outsideraw
  BY <1>2, <1>5, <1>10 DEF Alike
<1>14. (Once(s) => Once(r)) /\ (Trailed(s) => Trailed(r))
  BY <1>2, <1>5, <1>11 DEF SameWindows
<1>15. s.hasAid /\ a.kind # "unpaged" => Barred(r)
  BY <1>2, <1>5, <1>10 DEF Barred, Alike
<1>16. s.hasAid /\ a.kind # "other" => r.slot = a.slot
  BY <1>6, <1>10
<1>17. ASSUME ~s.hasAid, NEW u \in Edca
       PROVE  r.allowed[u] = s.allowed[u] /\ (Served(s, u) => Served(r, u))
  <2>1. ~h.hasAid
    BY <1>2, <1>17 DEF Alike
  <2>2. r.allowed[u] = s.allowed[u]
    BY <2>1, <1>2, <1>5, <1>10 DEF Alike
  <2>3. r.requested = s.requested /\ r.queued = s.queued /\ r.current = s.current
    BY <2>1, <1>2, <1>5, <1>10 DEF Alike
  <2>4. Scheduled(s, "startRaw") => Scheduled(r, "startRaw")
    BY <2>1, <1>2, <1>5, <1>11, SteadyScheduled DEF WindowEvents
  <2>5. Scheduled(s, "restart") => Scheduled(r, "restart")
    BY <2>1, <1>2, <1>5, <1>11 DEF Restarts
  <2>6. HasPacket(r, u) => HasPacket(s, u)
    BY <2>3 DEF HasPacket
  <2> QED BY <2>2, <2>3, <2>4, <2>5, <2>6, <1>13 DEF Served
<1> QED BY <1>8, <1>10, <1>12, <1>13, <1>14, <1>15, <1>16, <1>17

(* The passing of time. *)
LEMMA TickEffect ==
  ASSUME TypeOK, Tick
  PROVE  /\ sta' \in Station /\ Alike(sta, sta')
         /\ \A d \in Nat : \A e : Planned(sta', d, e) <=> Planned(sta, d + 1, e)
         /\ \A e : ~Planned(sta, 0, e)
         /\ \A e : Scheduled(sta', e) <=> Scheduled(sta, e)
         /\ Once(sta) => Once(sta')
         /\ Trailed(sta) => Trailed(sta')
         /\ since' = since + 1 /\ raw' = raw
<1>1. PICK s \in Station : s = sta
  BY DEF TypeOK
<1>2. \A i \in DOMAIN s.agenda : s.agenda[i].in > 0
  BY <1>1 DEF Tick
<1>3. PICK r : r = [s EXCEPT !.agenda = [i \in DOMAIN s.agenda |-> [s.agenda[i] EXCEPT !.in = @ - 1]]]
  OBVIOUS
<1>4. sta' = r /\ since' = since + 1 /\ raw' = raw
  BY <1>1, <1>3 DEF Tick
<1>5. r \in Station
  BY <1>2, <1>3, TickType
<1>6. Alike(s, r)
  BY <1>3 DEF Alike, Station
<1>7. r.agenda = [i \in DOMAIN s.agenda |-> [s.agenda[i] EXCEPT !.in = @ - 1]]
  BY <1>3 DEF Station
<1>8. s.agenda \in Seq(Event) /\ DOMAIN s.agenda = 1..Len(s.agenda)
      /\ \A i \in DOMAIN s.agenda : s.agenda[i].in \in Nat
  BY AgendaShape
<1>9. /\ DOMAIN r.agenda = DOMAIN s.agenda
      /\ \A i \in DOMAIN s.agenda : /\ r.agenda[i].what = s.agenda[i].what
                                    /\ r.agenda[i].in = s.agenda[i].in - 1
  <2>1. \A i \in DOMAIN s.agenda : s.agenda[i] \in Event
    BY <1>8
  <2> QED BY <1>7, <2>1 DEF Event
<1>10. \A d \in Nat : \A e : Planned(r, d, e) <=> Planned(s, d + 1, e)
  <2>1. ASSUME NEW d \in Nat, NEW i \in DOMAIN s.agenda
        PROVE  (r.agenda[i].in = d) <=> (s.agenda[i].in = d + 1)
    <3>1. s.agenda[i].in \in Nat /\ r.agenda[i].in = s.agenda[i].in - 1
      BY <1>8, <1>9
    <3> QED BY <3>1
  <2> QED BY <2>1, <1>9 DEF Planned
<1>11. \A e : ~Planned(s, 0, e)
  BY <1>2 DEF Planned
<1>12. (\A e : Scheduled(r, e) <=> Scheduled(s, e)) /\ (Once(s) => Once(r))
  BY <1>9 DEF Scheduled, Once
<1>13. ASSUME Trailed(s) PROVE Trailed(r)
  <2> SUFFICES ASSUME NEW i \in DOMAIN r.agenda, r.agenda[i].what = "postpone" PROVE Trails(r, i)
    BY DEF Trailed
  <2>1. i \in DOMAIN s.agenda /\ Trails(s, i)
    BY <1>9, <1>13 DEF Trailed
  <2>2. PICK j \in DOMAIN s.agenda : i < j /\ s.agenda[j].what = "startRaw" /\ s.agenda[j].in = s.agenda[i].in
    BY <2>1 DEF Trails
  <2>3. j \in DOMAIN r.agenda /\ r.agenda[j].what = "startRaw" /\ r.agenda[j].in = r.agenda[i].in
    BY <2>1, <2>2, <1>9
  <2> QED BY <2>2, <2>3 DEF Trails
<1> QED BY <1>1, <1>4, <1>5, <1>6, <1>10, <1>11, <1>12, <1>13

(* What a scheduled event finds when it fires. *)
LEMMA Fired ==
  ASSUME NEW e, TypeOK, Fire(e)
  PROVE  /\ UNCHANGED <<since, raw>>
         /\ \E d \in Station :
              /\ sta' = Fires(d, e)
              /\ Alike(sta, d)
              /\ Planned(sta, 0, e)
              /\ \A c, f : Planned(d, c, f) => Planned(sta, c, f)
              /\ \A c, f : Planned(sta, c, f) /\ (f # e \/ c # 0) => Planned(d, c, f)
              /\ Once(sta) => Once(d) /\ (e = "inside" => ~Scheduled(d, "inside"))
              /\ Trailed(sta) => Trailed(d)
<1>1. PICK s \in Station : s = sta
  BY DEF TypeOK
<1>2. UNCHANGED <<since, raw>>
  BY FireEvent
<1>3. PICK i \in DOMAIN s.agenda :
        /\ s.agenda[i].what = e /\ s.agenda[i].in = 0
        /\ \A j \in 1..(i - 1) : s.agenda[j].in > 0
        /\ sta' = Fires(Dropped(s, i), e)
  BY <1>1, FireEvent
<1>4. PICK d : d = Dropped(s, i)
  OBVIOUS
<1>5. /\ d \in Station /\ Alike(s, d)
      /\ \A c, f : Planned(d, c, f) => Planned(s, c, f)
      /\ \A c, f : Planned(s, c, f) /\ (f # e \/ c # 0) => Planned(d, c, f)
      /\ (Once(s) => Once(d) /\ (e = "inside" => ~Scheduled(d, "inside")))
  BY <1>3, <1>4, DroppedEffect
<1>6. \A j \in 1..(i - 1) : s.agenda[j].in # s.agenda[i].in
  <2> SUFFICES ASSUME NEW j \in 1..(i - 1) PROVE s.agenda[j].in # s.agenda[i].in
    OBVIOUS
  <2>1. s.agenda[j].in > 0 /\ s.agenda[i].in = 0
    BY <1>3
  <2> QED BY <2>1
<1>7. Trailed(s) => Trailed(d)
  BY <1>4, <1>6, DroppedEffect
<1>8. Planned(s, 0, e)
  BY <1>3 DEF Planned
<1> QED BY <1>1, <1>2, <1>3, <1>4, <1>5, <1>7, <1>8

QuietStep ==
  /\ Quiet(sta, sta') /\ UNCHANGED <<since, raw>>
  /\ Staying(sta, sta') \/ \E t \in Txop : Ends(t)

(* The steps, as the proofs below take them. *)
LEMMA Steps ==
  ASSUME TypeOK, [Next]_vars
  PROVE  \/ QuietStep
         \/ Fire("slotStart") \/ Fire("postpone") \/ Fire("startRaw")
         \/ Fire("inside") \/ Fire("outside")
         \/ Tick
         \/ \E a \in Assignments : ReceiveBeacon(a)
         \/ MissBeacon
<1>1. CASE Enqueue
  BY <1>1, EnqueueQuiet DEF QuietStep
<1>2. ASSUME NEW t \in Txop, SendRequest(t) \/ SendDisAssociationRequest(t) PROVE QuietStep
  BY <1>2, RequestQuiet DEF QuietStep
<1>3. ASSUME NEW t \in Txop, NotifyAccessGranted(t) PROVE QuietStep
  BY <1>3, GrantedQuiet DEF QuietStep
<1>4. ASSUME NEW t \in Txop, Ends(t) PROVE QuietStep
  BY <1>4, EndsQuiet DEF QuietStep
<1>5. CASE SetAID \/ MissedBeacons
  BY <1>5, AssociateQuiet DEF QuietStep
<1>6. ASSUME NEW e \in {"restart", "wake", "sent", "startNext"}, Fire(e) PROVE QuietStep
  BY <1>6, FireQuiet DEF QuietStep
<1>7. CASE UNCHANGED vars
  <2>1. sta \in Station /\ sta' = sta /\ UNCHANGED <<since, raw>>
    BY <1>7 DEF vars, TypeOK
  <2> QED BY <2>1, UnchangedQuiet DEF QuietStep
<1>8. CASE \E e \in Events : Fire(e)
  BY <1>8, <1>6 DEF Events
<1> QED BY <1>1, <1>2, <1>3, <1>4, <1>5, <1>7, <1>8 DEF Next

LEMMA RawType ==
  ASSUME TypeOK
  PROVE  /\ since \in Nat /\ raw.start \in Nat /\ raw.slot \in Nat \ {0} /\ raw.end \in Nat
         /\ raw.kind \in Kinds => raw \in Assignments
         /\ raw \in Assignments => raw.start + raw.slot <= raw.end
<1>1. since \in Nat
  BY LatestType, RawAssumption DEF TypeOK
<1> QED BY <1>1, RawAssumption DEF TypeOK, NoRaw, Missed, Kinds

-----------------------------------------------------------------------------
(* The slot of the station is open.                                        *)

LEMMA OwnSlotSteady ==
  ASSUME NEW s, NEW r, NEW now, NEW a, OwnSlot(s, now, a), Steady(s, r)
  PROVE  OwnSlot(r, now, a)
<1>1. \A d \in Nat : /\ Planned(s, d, "slotStart") <=> Planned(r, d, "slotStart")
                     /\ Planned(s, d, "postpone") <=> Planned(r, d, "postpone")
                     /\ Planned(s, d, "inside") <=> Planned(r, d, "inside")
  BY DEF Steady, SameWindows, WindowEvents
<1>2. r.allowed = s.allowed /\ r.slot = s.slot /\ (Once(s) => Once(r))
  BY DEF Steady, SameWindows
<1> QED BY <1>1, <1>2 DEF OwnSlot, SlotAhead, SlotOpened

(* An event other than the start of the slot leaves it ahead. *)
LEMMA StaysAhead ==
  ASSUME NEW s, NEW r, NEW now, NEW a, SlotAhead(s, now, a),
         \A d \in Nat : Planned(s, d, "slotStart") => Planned(r, d, "slotStart")
  PROVE  SlotAhead(r, now, a)
BY DEF SlotAhead

LEMMA OwnSlotFires ==
  ASSUME NEW e \in WindowEvents, TypeOK, OwnSlot(sta, since, raw), Fire(e)
  PROVE  OwnSlot(sta', since', raw')
<1>1. PICK s \in Station : s = sta
  BY DEF TypeOK
<1>2. PICK now \in Nat : now = since
  BY RawType
<1>3. PICK a : a = raw
  OBVIOUS
<1>4. a.start \in Nat /\ a.slot \in Nat
  BY <1>3, RawType
<1>5. since' = now /\ raw' = a
  BY <1>2, <1>3, Fired
<1>6. PICK d \in Station :
        /\ sta' = Fires(d, e) /\ Alike(s, d) /\ Planned(s, 0, e)
        /\ \A c, f : Planned(d, c, f) => Planned(s, c, f)
        /\ \A c, f : Planned(s, c, f) /\ (f # e \/ c # 0) => Planned(d, c, f)
        /\ Once(s) => Once(d) /\ (e = "inside" => ~Scheduled(d, "inside"))
  BY <1>1, Fired
<1>7. OwnSlot(s, now, a)
  BY <1>1, <1>2, <1>3
<1>8. Once(d)
  BY <1>6, <1>7 DEF OwnSlot
<1>9. d.allowed = s.allowed /\ d.slot = s.slot
  BY <1>6 DEF Alike
<1>10. PICK r : r = Fires(d, e)
  OBVIOUS
<1> SUFFICES OwnSlot(r, now, a)
  BY <1>5, <1>6, <1>10
<1>11. CASE e = "slotStart"
  <2>1. r = RawSlotStartBackoff(d)
    BY <1>10, <1>11 DEF Fires
  <2>2. /\ r.allowed = d.allowed /\ r.slot = d.slot /\ Once(r)
        /\ \A c \in Nat :
             /\ Planned(r, c, "slotStart") <=> Planned(d, c, "slotStart")
             /\ Planned(r, c, "inside") <=> c = d.slot
             /\ Planned(r, c, "postpone") <=> (Planned(d, c, "postpone") \/ c = 1)
    BY <2>1, <1>8, SlotStartEffect
  <2>3. ASSUME a.kind = "own" PROVE r.slot = a.slot /\ (SlotAhead(r, now, a) \/ SlotOpened(r, now, a))
    <3>1. s.slot = a.slot /\ r.slot = a.slot
      BY <2>2, <2>3, <1>7, <1>9 DEF OwnSlot
    <3>2. ASSUME a.start <= now PROVE \A c \in Nat : Planned(r, c, "inside") => a.start + a.slot <= now + c
      BY <3>1, <3>2, <2>2, <1>4, <1>9
    <3>3. CASE SlotAhead(s, now, a)
      <4>1. PICK c \in Nat : Planned(s, c, "slotStart") /\ now + c = a.start
        BY <3>3 DEF SlotAhead
      <4>2. CASE c # 0
        <5>1. Planned(r, c, "slotStart")
          BY <4>1, <4>2, <1>6, <2>2
        <5> QED BY <5>1, <4>1, <3>1 DEF SlotAhead
      <4>3. CASE c = 0
        <5>1. a.start = now
          BY <4>1, <4>3
        <5>2. Planned(r, 1, "postpone") /\ now + 1 <= a.start + 1
          BY <5>1, <2>2
        <5>3. SlotOpened(r, now, a)
          BY <5>1, <5>2, <3>2 DEF SlotOpened
        <5> QED BY <5>3, <3>1
      <4> QED BY <4>2, <4>3
    <3>4. CASE SlotOpened(s, now, a)
      <4>1. \A c \in Nat : Planned(s, c, "postpone") => Planned(r, c, "postpone")
        BY <1>6, <1>11, <2>2
      <4>2. r.allowed = s.allowed
        BY <2>2, <1>9
      <4>3. SlotOpened(r, now, a)
        BY <4>1, <4>2, <3>2, <3>4 DEF SlotOpened
      <4> QED BY <4>3, <3>1
    <3> QED BY <3>3, <3>4, <2>3, <1>7 DEF OwnSlot
  <2> QED BY <2>2, <2>3 DEF OwnSlot
<1>12. CASE e # "slotStart"
  <2>1. \A c \in Nat : Planned(s, c, "slotStart") => Planned(d, c, "slotStart")
    BY <1>6, <1>12
  <2>2. CASE e = "postpone"
    <3>1. r = RawSlotStartBackoffPostpone(d)
      BY <1>10, <2>2 DEF Fires
    <3> DEFINE f == [t \in Txop |-> IF t \in Txop THEN TRUE ELSE d.allowed[t]]
    <3>2. f \in [Txop -> BOOLEAN] /\ r = [d EXCEPT !.allowed = f] /\ \A t \in Txop : f[t]
      BY <3>1 DEF RawSlotStartBackoffPostpone, AccessAllowedIfRaw
    <3> HIDE DEF f
    <3>3. SameWindows(d, r) /\ r.allowed = f /\ r.slot = d.slot
      BY <3>2, AllowedEffect
    <3>4. \A c \in Nat : /\ Planned(s, c, "slotStart") => Planned(r, c, "slotStart")
                         /\ Planned(r, c, "inside") => Planned(s, c, "inside")
      BY <3>3, <2>1, <1>6 DEF SameWindows, WindowEvents
    <3>5. Once(r) /\ \A t \in Txop : r.allowed[t]
      BY <3>2, <3>3, <1>8 DEF SameWindows
    <3> QED BY <3>3, <3>4, <3>5, <1>7, <1>9, StaysAhead DEF OwnSlot, SlotOpened
  <2>3. CASE e = "startRaw"
    <3>1. r = StartRawbackoff(d)
      BY <1>10, <2>3 DEF Fires
    <3>2. Steady(d, r)
      BY <3>1, RawbackoffEffect
    <3>3. \A c \in Nat : Planned(s, c, "postpone") => Planned(d, c, "postpone")
      BY <1>6, <2>3
    <3>4. OwnSlot(d, now, a)
      BY <3>3, <2>1, <1>6, <1>7, <1>8, <1>9, StaysAhead DEF OwnSlot, SlotOpened
    <3> QED BY <3>2, <3>4, OwnSlotSteady
  <2>4. CASE e = "inside"
    <3>1. r = InsideBackoff(d)
      BY <1>10, <2>4 DEF Fires
    <3>2. SameWindows(d, r) /\ r.slot = d.slot
      BY <3>1, InsideEffect
    <3>3. \A c \in Nat : /\ Planned(s, c, "slotStart") => Planned(r, c, "slotStart")
                         /\ Planned(r, c, "inside") => Planned(s, c, "inside")
      BY <3>2, <2>1, <1>6 DEF SameWindows, WindowEvents
    <3>4. Once(r)
      BY <3>2, <1>8 DEF SameWindows
    <3>5. SlotOpened(s, now, a) => a.start + a.slot <= now + 0
      BY <1>6, <2>4 DEF SlotOpened
    <3>6. SlotOpened(s, now, a) => a.start + a.slot <= now
      BY <3>5, <1>4
    <3> QED BY <3>2, <3>3, <3>4, <3>6, <1>7, <1>9, StaysAhead DEF OwnSlot, SlotOpened
  <2>5. CASE e = "outside"
    <3>1. r = OutsideRawStartBackoff(d)
      BY <1>10, <2>5 DEF Fires
    <3>2. /\ (\A t \in Txop : r.allowed[t]) /\ r.slot = d.slot /\ Once(r)
          /\ \A c \in Nat : /\ Planned(r, c, "slotStart") <=> Planned(d, c, "slotStart")
                            /\ ~Planned(r, c, "inside")
      BY <3>1, <1>8, OutsideEffect
    <3> QED BY <3>2, <2>1, <1>7, <1>9, StaysAhead DEF OwnSlot, SlotOpened
  <2> QED BY <2>2, <2>3, <2>4, <2>5, <1>12 DEF WindowEvents
<1> QED BY <1>11, <1>12

LEMMA OwnSlotTick ==
  ASSUME TypeOK, OwnSlot(sta, since, raw), Tick
  PROVE  OwnSlot(sta', since', raw')
<1>1. PICK s \in Station : s = sta
  BY DEF TypeOK
<1>2. PICK now \in Nat : now = since
  BY RawType
<1>3. PICK a : a = raw
  OBVIOUS
<1>4. a.start \in Nat /\ a.slot \in Nat
  BY <1>3, RawType
<1>5. PICK r : r = sta'
  OBVIOUS
<1>6. /\ Alike(s, r)
      /\ \A d \in Nat : \A e : Planned(r, d, e) <=> Planned(s, d + 1, e)
      /\ \A e : ~Planned(s, 0, e)
      /\ Once(s) => Once(r)
      /\ since' = now + 1 /\ raw' = a
  BY <1>1, <1>2, <1>3, <1>5, TickEffect
<1>7. OwnSlot(s, now, a)
  BY <1>1, <1>2, <1>3
<1>8. r.allowed = s.allowed /\ r.slot = s.slot
  BY <1>6 DEF Alike
<1>9. ASSUME NEW d \in Nat, NEW e, Planned(s, d, e)
      PROVE  \E c \in Nat : d = c + 1 /\ Planned(r, c, e)
  <2>1. d # 0
    BY <1>6, <1>9
  <2>2. d - 1 \in Nat /\ d = (d - 1) + 1
    BY <2>1
  <2>3. Planned(r, d - 1, e)
    BY <2>2, <1>6, <1>9
  <2> QED BY <2>2, <2>3
<1>10. ASSUME SlotAhead(s, now, a) PROVE SlotAhead(r, now + 1, a)
  <2>1. PICK d \in Nat : Planned(s, d, "slotStart") /\ now + d = a.start
    BY <1>10 DEF SlotAhead
  <2>2. PICK c \in Nat : d = c + 1 /\ Planned(r, c, "slotStart")
    BY <2>1, <1>9
  <2> QED BY <2>1, <2>2 DEF SlotAhead
<1>11. ASSUME SlotOpened(s, now, a) PROVE SlotOpened(r, now + 1, a)
  <2>1. a.start <= now + 1
    BY <1>4, <1>11 DEF SlotOpened
  <2>2. ASSUME NEW d \in Nat, Planned(s, d, "postpone"), now + d <= a.start + 1
        PROVE  \E c \in Nat : Planned(r, c, "postpone") /\ (now + 1) + c <= a.start + 1
    <3>1. PICK c \in Nat : d = c + 1 /\ Planned(r, c, "postpone")
      BY <2>2, <1>9
    <3>2. (now + 1) + c <= a.start + 1
      BY <2>2, <3>1, <1>4
    <3> QED BY <3>1, <3>2
  <2>3. \/ a.start + a.slot <= now + 1
        \/ \A t \in Txop : r.allowed[t]
        \/ \E d \in Nat : Planned(r, d, "postpone") /\ (now + 1) + d <= a.start + 1
    <3>1. CASE a.start + a.slot <= now
      BY <3>1, <1>4
    <3>2. CASE \A t \in Txop : s.allowed[t]
      BY <3>2, <1>8
    <3>3. CASE \E d \in Nat : Planned(s, d, "postpone") /\ now + d <= a.start + 1
      BY <3>3, <2>2
    <3> QED BY <3>1, <3>2, <3>3, <1>11 DEF SlotOpened
  <2>4. ASSUME NEW d \in Nat, Planned(r, d, "inside") PROVE a.start + a.slot <= (now + 1) + d
    <3>1. Planned(s, d + 1, "inside") /\ d + 1 \in Nat
      BY <2>4, <1>6
    <3>2. a.start + a.slot <= now + (d + 1)
      BY <3>1, <1>11 DEF SlotOpened
    <3> QED BY <3>2, <1>4
  <2> QED BY <2>1, <2>3, <2>4 DEF SlotOpened
<1>12. OwnSlot(r, now + 1, a)
  BY <1>6, <1>7, <1>8, <1>10, <1>11 DEF OwnSlot
<1> QED BY <1>5, <1>6, <1>12

LEMMA OwnSlotBeacon ==
  ASSUME NEW a \in Assignments, TypeOK, OwnSlot(sta, since, raw), ReceiveBeacon(a)
  PROVE  OwnSlot(sta', since', raw')
<1>1. PICK s \in Station : s = sta
  BY DEF TypeOK
<1>2. PICK r : r = Received(s, a)
  OBVIOUS
<1>3. sta' = r /\ since' = 0 /\ raw' = IF s.hasAid THEN a ELSE NoRaw
  BY <1>1, <1>2 DEF ReceiveBeacon
<1>4. /\ (Once(s) => Once(r))
      /\ \A d \in Nat : Planned(r, d, "slotStart") <=>
               (Planned(s, d, "slotStart") \/ (s.hasAid /\ a.kind = "own" /\ d = a.start))
      /\ (s.hasAid /\ a.kind # "other" => r.slot = a.slot)
  BY <1>2, BeaconEffect
<1>5. Once(r)
  BY <1>1, <1>4 DEF OwnSlot
<1>6. CASE s.hasAid
  <2>1. a.start \in Nat /\ 0 + a.start = a.start
    BY RawAssumption
  <2>2. a.kind = "own" => SlotAhead(r, 0, a) /\ r.slot = a.slot
    BY <1>4, <1>6, <2>1 DEF SlotAhead
  <2>3. OwnSlot(r, 0, a)
    BY <1>5, <2>2 DEF OwnSlot
  <2> QED BY <2>3, <1>3, <1>6
<1>7. CASE ~s.hasAid
  BY <1>3, <1>5, <1>7 DEF OwnSlot, NoRaw
<1> QED BY <1>6, <1>7

LEMMA OwnSlotInit == Init => OwnSlotInv
<1> SUFFICES ASSUME Init PROVE OwnSlotInv
  OBVIOUS
<1>1. TypeOK
  BY InitType
<1>2. Once(sta)
  BY DEF Init, Once
<1>3. raw.kind # "own"
  BY DEF Init, NoRaw
<1> QED BY <1>1, <1>2, <1>3 DEF OwnSlotInv, OwnSlot

LEMMA OwnSlotNext == OwnSlotInv /\ [Next]_vars => OwnSlotInv'
<1> SUFFICES ASSUME OwnSlotInv, [Next]_vars PROVE OwnSlotInv'
  OBVIOUS
<1>1. TypeOK /\ OwnSlot(sta, since, raw)
  BY DEF OwnSlotInv
<1>2. TypeOK'
  BY <1>1, NextType
<1>3. CASE QuietStep
  <2>1. Steady(sta, sta') /\ since' = since /\ raw' = raw
    BY <1>3 DEF QuietStep, Quiet
  <2>2. OwnSlot(sta', since, raw)
    BY <2>1, <1>1, OwnSlotSteady
  <2> QED BY <2>1, <2>2, <1>2 DEF OwnSlotInv
<1>4. ASSUME NEW e \in WindowEvents, Fire(e) PROVE OwnSlotInv'
  BY <1>1, <1>2, <1>4, OwnSlotFires DEF OwnSlotInv
<1>5. CASE Tick
  BY <1>1, <1>2, <1>5, OwnSlotTick DEF OwnSlotInv
<1>6. CASE \E a \in Assignments : ReceiveBeacon(a)
  BY <1>1, <1>2, <1>6, OwnSlotBeacon DEF OwnSlotInv
<1>7. CASE MissBeacon
  <2>1. sta' = sta /\ raw'.kind # "own"
    BY <1>7 DEF MissBeacon, Missed, NoRaw
  <2>2. OwnSlot(sta', since', raw')
    BY <2>1, <1>1 DEF OwnSlot
  <2> QED BY <2>2, <1>2 DEF OwnSlotInv
<1> QED BY <1>1, <1>3, <1>4, <1>5, <1>6, <1>7, Steps DEF WindowEvents

(* Once the slot of the station has begun, and access has been granted, it *)
(* stays granted until the slot ends: no end of an earlier slot, no end of *)
(* an earlier RAW and no later grant closes it.  This holds whenever       *)
(* beacons come and whatever they assign.                                  *)
THEOREM SlotStaysOpen == Spec => []OwnSlotOpen
<1>1. Init => OwnSlotInv
  BY OwnSlotInit
<1>2. OwnSlotInv /\ [Next]_vars => OwnSlotInv'
  BY OwnSlotNext
<1>3. OwnSlotInv => OwnSlotOpen
  <2> SUFFICES ASSUME OwnSlotInv, raw.kind = "own",
                      raw.start + 1 < since, since < raw.start + raw.slot
               PROVE  \A t \in Txop : sta.allowed[t]
    BY DEF OwnSlotOpen
  <2>1. since \in Nat /\ raw.start \in Nat /\ raw.slot \in Nat
    BY RawType DEF OwnSlotInv
  <2>2. SlotAhead(sta, since, raw) \/ SlotOpened(sta, since, raw)
    BY DEF OwnSlotInv, OwnSlot
  <2>3. ~SlotAhead(sta, since, raw)
    BY <2>1 DEF SlotAhead
  <2>4. ~\E d \in Nat : Planned(sta, d, "postpone") /\ since + d <= raw.start + 1
    BY <2>1
  <2>5. ~(raw.start + raw.slot <= since)
    BY <2>1
  <2> QED BY <2>2, <2>3, <2>4, <2>5 DEF SlotOpened
<1> QED BY <1>1, <1>2, <1>3, PTL DEF Spec

-----------------------------------------------------------------------------
(* The station stays awake for its acknowledgement.                        *)

(* No scheduled event of a window starts an exchange, or drops that of an  *)
(* EdcaTxopN which waits for its answer.                                   *)
LEMMA WindowStays ==
  ASSUME NEW e \in WindowEvents, OwnSlotInv, Fire(e)
  PROVE  /\ Staying(sta, sta')
         /\ Awaiting(sta) => Awaiting(sta')
         /\ sta'.inflight = sta.inflight \/ sta'.inflight = Nobody
<1>1. PICK s \in Station : s = sta
  BY DEF OwnSlotInv, TypeOK
<1>2. PICK d \in Station : sta' = Fires(d, e) /\ Alike(s, d) /\ (Once(s) => Once(d))
  BY <1>1, Fired DEF OwnSlotInv
<1>3. Once(d)
  BY <1>1, <1>2 DEF OwnSlotInv, OwnSlot
<1>4. d.awake = s.awake /\ d.inflight = s.inflight /\ d.waitingack = s.waitingack
  BY <1>2 DEF Alike
<1>5. PICK r : r = Fires(d, e)
  OBVIOUS
<1>6. CASE e # "inside"
  <2>1. r.inflight = d.inflight /\ r.waitingack = d.waitingack /\ (d.awake => r.awake)
    <3>1. CASE e = "slotStart"
      BY <3>1, <1>3, <1>5, SlotStartEffect DEF Fires
    <3>2. CASE e = "postpone"
      <4> DEFINE f == [t \in Txop |-> IF t \in Txop THEN TRUE ELSE d.allowed[t]]
      <4>1. f \in [Txop -> BOOLEAN] /\ r = [d EXCEPT !.allowed = f]
        BY <3>2, <1>5 DEF Fires, RawSlotStartBackoffPostpone, AccessAllowedIfRaw
      <4> HIDE DEF f
      <4> QED BY <4>1, AllowedEffect
    <3>3. CASE e = "startRaw"
      BY <3>3, <1>5, RawbackoffEffect DEF Fires
    <3>4. CASE e = "outside"
      BY <3>4, <1>3, <1>5, OutsideEffect DEF Fires
    <3> QED BY <3>1, <3>2, <3>3, <3>4, <1>6 DEF WindowEvents
  <2> QED BY <2>1, <1>1, <1>2, <1>4, <1>5 DEF Staying, Awaiting
<1>7. CASE e = "inside"
  <2>1. r = InsideBackoff(d)
    BY <1>5, <1>7 DEF Fires
  <2>2. /\ Awaiting(d) => Awaiting(r)
        /\ Staying(d, r)
        /\ r.inflight = d.inflight \/ r.inflight = Nobody
    BY <2>1, InsideEffect
  <2> QED BY <2>2, <1>1, <1>2, <1>4, <1>5 DEF Staying, Awaiting
<1> QED BY <1>6, <1>7

LEMMA AwaitingNext ==
  ASSUME ~Fragments, AwaitingInv, [Next]_vars
  PROVE  AwaitingInv'
<1>1. OwnSlotInv /\ Awaiting(sta) /\ TypeOK
  BY DEF AwaitingInv, OwnSlotInv
<1>2. OwnSlotInv'
  BY <1>1, OwnSlotNext
<1>3. CASE QuietStep
  <2>1. Awaiting(sta')
    BY <1>1, <1>3 DEF QuietStep, Quiet
  <2> QED BY <2>1, <1>2 DEF AwaitingInv
<1>4. ASSUME NEW e \in WindowEvents, Fire(e) PROVE AwaitingInv'
  <2>1. Awaiting(sta')
    BY <1>1, <1>4, WindowStays
  <2> QED BY <2>1, <1>2 DEF AwaitingInv
<1>5. CASE Tick
  <2>1. Alike(sta, sta')
    BY <1>1, <1>5, TickEffect
  <2> QED BY <2>1, <1>1, <1>2 DEF Alike, Awaiting, AwaitingInv
<1>6. ASSUME NEW a \in Assignments, ReceiveBeacon(a) PROVE AwaitingInv'
  <2>1. sta'.inflight = Nobody
    BY <1>1, <1>6, BeaconEffect DEF ReceiveBeacon, TypeOK
  <2> QED BY <2>1, <1>2, NobodyElse DEF Awaiting, AwaitingInv
<1>7. CASE MissBeacon
  <2>1. sta' = sta
    BY <1>7 DEF MissBeacon
  <2>2. Awaiting(sta')
    BY <2>1, <1>1
  <2> QED BY <2>2, <1>2 DEF AwaitingInv
<1> QED BY <1>1, <1>3, <1>4, <1>5, <1>6, <1>7, Steps DEF WindowEvents

(* "Don't go to sleep after you send the packet, since it has to receive   *)
(* the ack": of an exchange of EdcaTxopN, nothing but its end puts the     *)
(* station to sleep.  With fragments the acknowledgement of the first one  *)
(* clears waitingack for the rest of the exchange.                         *)
THEOREM StaysAwakeForAck ==
  ASSUME ~Fragments
  PROVE  Spec => AwakeForAck
<1>1. Init => AwaitingInv
  <2>1. Init => sta.inflight \notin Edca
    BY NobodyElse DEF Init
  <2> QED BY <2>1, OwnSlotInit DEF AwaitingInv, Awaiting
<1>2. AwaitingInv /\ [Next]_vars => AwaitingInv'
  BY AwaitingNext
<1>3. AwaitingInv /\ [Next]_vars =>
        [sta.inflight \in Edca /\ ~sta'.awake => Ends(sta.inflight)]_vars
  <2> SUFFICES ASSUME AwaitingInv, [Next]_vars, sta.inflight \in Edca, ~sta'.awake
               PROVE  Ends(sta.inflight)
    OBVIOUS
  <2>1. OwnSlotInv /\ Awaiting(sta) /\ TypeOK
    BY DEF AwaitingInv, OwnSlotInv
  <2>2. ~Staying(sta, sta') /\ sta.awake /\ sta.inflight # Nobody
    BY <2>1, NobodyElse DEF Staying, Awaiting
  <2>3. CASE QuietStep
    <3>1. PICK t \in Txop : Ends(t)
      BY <2>2, <2>3 DEF QuietStep
    <3>2. sta.inflight = t
      BY <3>1 DEF Ends, GotAck, GotAckOfFragment, MissedAckRetransmit, MissedAckFail, MissedCts, Exchange
    <3> QED BY <3>1, <3>2
  <2>4. ASSUME NEW e \in WindowEvents, Fire(e) PROVE FALSE
    BY <2>1, <2>2, <2>4, WindowStays
  <2>5. ~Tick
    BY <2>1, <2>2, TickEffect DEF Alike
  <2>6. ASSUME NEW a \in Assignments, ReceiveBeacon(a) PROVE FALSE
    BY <2>2, <2>6 DEF ReceiveBeacon
  <2>7. ~MissBeacon
    BY <2>2 DEF MissBeacon
  <2> QED BY <2>1, <2>3, <2>4, <2>5, <2>6, <2>7, Steps DEF WindowEvents
<1> QED BY <1>1, <1>2, <1>3, PTL DEF Spec, AwakeForAck

-----------------------------------------------------------------------------
(* The windows, where beacons and RAWs are regular.                        *)

(* In the terms of the invariants, a RAW is one of these: *)
LEMMA RealRaw ==
  ASSUME RegularRaws, TypeOK
  PROVE  /\ raw \in Assignments => Real(raw)
         /\ Real(raw) => /\ raw \in Assignments /\ 1 < raw.slot
                         /\ raw.start + 1 < raw.end /\ raw.start + raw.slot <= raw.end
                         /\ \A i \in Intervals : raw.end + 1 < i
         /\ Real(raw) \/ raw.kind \in {"none", "missed"}
<1>1. raw \in Assignments \/ raw \in {NoRaw, Missed}
  BY DEF TypeOK
<1>2. CASE raw \in Assignments
  <2>1. /\ raw.kind \in Kinds /\ raw.kind # "unpaged" /\ 1 < raw.slot
        /\ raw.start \in Nat /\ raw.slot \in Nat /\ raw.end \in Nat
        /\ raw.start + raw.slot <= raw.end
        /\ \A i \in Intervals : raw.end + 1 < i
    BY <1>2, RawAssumption DEF RegularRaws
  <2>2. raw.start + 1 < raw.end
    BY <2>1
  <2> QED BY <2>1, <2>2, <1>2 DEF Real, Kinds
<1>3. CASE raw \in {NoRaw, Missed}
  <2>1. raw.kind \in {"none", "missed"}
    BY <1>3 DEF NoRaw, Missed
  <2>2. raw \notin Assignments
    BY <2>1, RawAssumption DEF Kinds
  <2> QED BY <2>1, <2>2 DEF Real
<1> QED BY <1>1, <1>2, <1>3

(* When a beacon is due, nothing of a window is planned any more. *)
LEMMA NothingPlanned ==
  ASSUME RegularRaws, WindowInv, BeaconDue
  PROVE  \A d \in Nat : \A e \in WindowEvents \ {"startRaw"} : ~Planned(sta, d, e)
<1>1. /\ TypeOK /\ since \in Nat /\ raw.start \in Nat /\ raw.slot \in Nat /\ raw.end \in Nat
      /\ Timed(sta, since, raw)
  BY RawType DEF WindowInv, OwnSlotInv
<1>2. Real(raw) => raw.end + 1 < since
  <2> SUFFICES ASSUME Real(raw) PROVE raw.end + 1 < since
    OBVIOUS
  <2>1. \A i \in Intervals : raw.end + 1 < i
    BY <1>1, RealRaw
  <2>2. raw.end + 1 < Latest /\ Latest \in Nat
    BY <2>1, LatestType
  <2> QED BY <2>1, <2>2, <1>1 DEF BeaconDue
<1>3. raw.kind = "own" => Real(raw)
  BY DEF Real
<1>4. Real(raw) => raw.start + raw.slot <= raw.end /\ raw.start + 1 < raw.end
  BY <1>1, RealRaw
<1> SUFFICES ASSUME NEW d \in Nat,
                    \/ Planned(sta, d, "slotStart") \/ Planned(sta, d, "inside")
                    \/ Planned(sta, d, "outside") \/ Planned(sta, d, "postpone")
             PROVE  FALSE
  BY DEF WindowEvents
<1>5. Real(raw)
  BY <1>1, <1>3 DEF Timed
<1>6. since + d <= raw.end + 1
  <2>1. CASE Planned(sta, d, "slotStart")
    BY <2>1, <1>1, <1>4, <1>5 DEF Timed
  <2>2. CASE Planned(sta, d, "inside")
    BY <2>2, <1>1, <1>4, <1>5 DEF Timed
  <2>3. CASE Planned(sta, d, "outside")
    BY <2>3, <1>1 DEF Timed
  <2>4. CASE Planned(sta, d, "postpone")
    BY <2>4, <1>1, <1>4, <1>5 DEF Timed
  <2> QED BY <2>1, <2>2, <2>3, <2>4
<1> QED BY <1>1, <1>2, <1>5, <1>6

LEMMA WindowsQuiet ==
  ASSUME NEW s \in Station, NEW r, NEW now, NEW a, Timed(s, now, a), Closed(s, now, a), Quiet(s, r)
  PROVE  Timed(r, now, a) /\ Closed(r, now, a)
<1>1. r \in Station /\ SameWindows(s, r) /\ r.allowed = s.allowed
      /\ r.rawslot = s.rawslot /\ r.outsideraw = s.outsideraw
      /\ (Idle(s) /\ Barred(s) => Idle(r))
  BY DEF Quiet, Steady
<1>2. \A d \in Nat : /\ Planned(r, d, "slotStart") <=> Planned(s, d, "slotStart")
                     /\ Planned(r, d, "inside") <=> Planned(s, d, "inside")
                     /\ Planned(r, d, "outside") <=> Planned(s, d, "outside")
                     /\ Planned(r, d, "postpone") <=> Planned(s, d, "postpone")
  BY <1>1 DEF SameWindows, WindowEvents
<1>3. /\ Scheduled(r, "inside") <=> Scheduled(s, "inside")
      /\ Scheduled(r, "slotStart") <=> Scheduled(s, "slotStart")
  BY <1>1, SteadyScheduled DEF WindowEvents
<1>4. Timed(r, now, a)
  BY <1>2, <1>3 DEF Timed
<1>5. Closed(r, now, a)
  BY <1>1, <1>3 DEF Closed, Idle, Barred
<1> QED BY <1>4, <1>5

LEMMA WindowsFire ==
  ASSUME RegularRaws, NEW e \in WindowEvents, WindowInv, Fire(e)
  PROVE  /\ Timed(sta', since', raw') /\ Closed(sta', since', raw')
         /\ e = "inside" => \A c \in Nat : ~Planned(sta', c, "postpone")
<1>0. TypeOK /\ OwnSlot(sta, since, raw)
  BY DEF WindowInv, OwnSlotInv
<1>1. PICK s \in Station : s = sta
  BY <1>0 DEF TypeOK
<1>2. PICK now \in Nat : now = since
  BY <1>0, RawType
<1>3. PICK a : a = raw
  OBVIOUS
<1>4. /\ a.start \in Nat /\ a.slot \in Nat /\ a.end \in Nat
      /\ Real(a) => 1 < a.slot /\ a.start + a.slot <= a.end
  BY <1>0, <1>3, RawType, RealRaw
<1>5. since' = now /\ raw' = a
  BY <1>0, <1>2, <1>3, Fired
<1>6. PICK d \in Station :
        /\ sta' = Fires(d, e) /\ Alike(s, d) /\ Planned(s, 0, e)
        /\ \A c, f : Planned(d, c, f) => Planned(s, c, f)
        /\ \A c, f : Planned(s, c, f) /\ (f # e \/ c # 0) => Planned(d, c, f)
        /\ Once(s) => Once(d) /\ (e = "inside" => ~Scheduled(d, "inside"))
  BY <1>0, <1>1, Fired
<1>7. /\ Timed(s, now, a) /\ Closed(s, now, a) /\ Once(s)
      /\ a.kind = "own" => s.slot = a.slot
  BY <1>1, <1>2, <1>3 DEF WindowInv, OwnSlotInv, OwnSlot
<1>8. Once(d)
  BY <1>6, <1>7
<1>9. /\ d.allowed = s.allowed /\ d.slot = s.slot /\ d.awake = s.awake /\ d.inflight = s.inflight
      /\ d.rawslot = s.rawslot /\ d.outsideraw = s.outsideraw
  BY <1>6 DEF Alike
<1>10. PICK r : r = Fires(d, e)
  OBVIOUS
<1>11. a.kind = "own" => Real(a)
  BY DEF Real
<1> SUFFICES /\ Timed(r, now, a) /\ Closed(r, now, a)
             /\ e = "inside" => \A c \in Nat : ~Planned(r, c, "postpone")
  BY <1>5, <1>6, <1>10
<1>12. CASE e = "slotStart"
  <2>1. r = RawSlotStartBackoff(d)
    BY <1>10, <1>12 DEF Fires
  <2>2. /\ r \in Station
        /\ r.allowed = d.allowed /\ r.outsideraw = d.outsideraw
        /\ r.inflight = d.inflight /\ (d.awake => r.awake)
        /\ \A c \in Nat :
             /\ Planned(r, c, "slotStart") <=> Planned(d, c, "slotStart")
             /\ Planned(r, c, "outside") <=> Planned(d, c, "outside")
             /\ Planned(r, c, "inside") <=> c = d.slot
             /\ Planned(r, c, "postpone") <=> (Planned(d, c, "postpone") \/ c = 1)
    BY <2>1, <1>8, SlotStartEffect
  <2>3. a.kind = "own" /\ now + 0 = a.start
    BY <1>6, <1>7, <1>12 DEF Timed
  <2>4. now = a.start /\ Real(a) /\ d.slot = a.slot /\ now < a.end
    BY <2>3, <1>4, <1>7, <1>9, <1>11
  <2>5. Scheduled(r, "inside")
    BY <2>2, <2>4, <1>4, PlannedScheduled
  <2>6. Timed(r, now, a)
    <3> SUFFICES ASSUME NEW c \in Nat
                 PROVE  /\ Planned(r, c, "slotStart") => a.kind = "own" /\ now + c = a.start
                        /\ Planned(r, c, "inside") =>
                             a.kind = "own" /\ a.start <= now /\ now + c = a.start + a.slot
                        /\ Planned(r, c, "outside") => Real(a) /\ now + c = a.end
                        /\ Planned(r, c, "postpone") =>
                             /\ a.kind = "own" /\ a.start <= now /\ now + c = a.start + 1
                             /\ Scheduled(r, "inside")
      BY DEF Timed
    <3>1. Planned(r, c, "slotStart") => a.kind = "own" /\ now + c = a.start
      BY <2>2, <1>6, <1>7 DEF Timed
    <3>2. Planned(r, c, "inside") => a.start <= now /\ now + c = a.start + a.slot
      BY <2>2, <2>4, <1>4
    <3>3. Planned(r, c, "outside") => now + c = a.end
      BY <2>2, <1>6, <1>7 DEF Timed
    <3>4. ASSUME Planned(s, c, "postpone") PROVE now + c = a.start + 1
      <4>1. ~(a.end <= now)
        BY <2>4, <1>4
      <4> QED BY <4>1, <3>4, <1>7 DEF Timed
    <3>5. Planned(r, c, "postpone") => now + c = a.start + 1
      BY <3>4, <2>2, <2>4, <1>4, <1>6
    <3>6. a.start <= now
      BY <2>4, <1>4
    <3> QED BY <3>1, <3>2, <3>3, <3>5, <3>6, <2>3, <2>4, <2>5
  <2>7. Closed(r, now, a)
    <3>1. Scheduled(s, "slotStart")
      BY <1>6, <1>12, PlannedScheduled
    <3>2. ~s.outsideraw /\ s.awake /\ s.inflight = Nobody /\ \A t \in Txop : ~s.allowed[t]
      BY <3>1, <2>4, <1>7 DEF Closed
    <3> QED BY <3>2, <2>2, <2>5, <1>9 DEF Closed
  <2> QED BY <2>6, <2>7, <1>12
<1>13. e \in {"postpone", "startRaw"} =>
         \A c \in Nat : /\ Planned(d, c, "slotStart") <=> Planned(s, c, "slotStart")
                        /\ Planned(d, c, "inside") <=> Planned(s, c, "inside")
                        /\ Planned(d, c, "outside") <=> Planned(s, c, "outside")
                        /\ Planned(d, c, "postpone") => Planned(s, c, "postpone")
  BY <1>6
<1>14. CASE e = "postpone"
  <2> DEFINE f == [t \in Txop |-> IF t \in Txop THEN TRUE ELSE d.allowed[t]]
  <2>1. f \in [Txop -> BOOLEAN] /\ r = [d EXCEPT !.allowed = f]
    BY <1>10, <1>14 DEF Fires, RawSlotStartBackoffPostpone, AccessAllowedIfRaw
  <2> HIDE DEF f
  <2>2. r \in Station /\ SameWindows(d, r) /\ r.outsideraw = d.outsideraw
    BY <2>1, AllowedEffect
  <2>3. \A c \in Nat : /\ Planned(r, c, "slotStart") <=> Planned(s, c, "slotStart")
                       /\ Planned(r, c, "inside") <=> Planned(s, c, "inside")
                       /\ Planned(r, c, "outside") <=> Planned(s, c, "outside")
                       /\ Planned(r, c, "postpone") => Planned(s, c, "postpone")
    BY <2>2, <1>13, <1>14 DEF SameWindows, WindowEvents
  <2>4. /\ Scheduled(r, "inside") <=> Scheduled(s, "inside")
        /\ Scheduled(r, "slotStart") <=> Scheduled(s, "slotStart")
    BY <2>2, <2>3, PlannedScheduled
  <2>5. Timed(r, now, a)
    BY <2>3, <2>4, <1>7 DEF Timed
  <2>6. Closed(r, now, a)
    <3> SUFFICES ASSUME Real(a), now < a.end PROVE Closed(r, now, a)
      BY DEF Closed
    <3>1. ~(a.end <= now)
      BY <1>4
    <3>2. a.kind = "own" /\ a.start <= now /\ now + 0 = a.start + 1 /\ Scheduled(s, "inside")
      BY <3>1, <1>6, <1>7, <1>14 DEF Timed
    <3>3. ~Scheduled(s, "slotStart")
      <4>1. ASSUME NEW c \in Nat, Planned(s, c, "slotStart") PROVE FALSE
        <5>1. now + c = a.start
          BY <4>1, <1>7 DEF Timed
        <5> QED BY <5>1, <3>2, <1>4
      <4> QED BY <4>1, PlannedScheduled
    <3>4. ~s.outsideraw
      BY <1>7 DEF Closed
    <3> QED BY <3>2, <3>3, <3>4, <2>2, <2>4, <1>9 DEF Closed
  <2> QED BY <2>5, <2>6, <1>14
<1>15. CASE e = "startRaw"
  <2>1. r = StartRawbackoff(d)
    BY <1>10, <1>15 DEF Fires
  <2>2. r \in Station /\ Steady(d, r) /\ r.awake = d.awake /\ r.inflight = d.inflight
    BY <2>1, RawbackoffEffect
  <2>3. \A c \in Nat : /\ Planned(r, c, "slotStart") <=> Planned(s, c, "slotStart")
                       /\ Planned(r, c, "inside") <=> Planned(s, c, "inside")
                       /\ Planned(r, c, "outside") <=> Planned(s, c, "outside")
                       /\ Planned(r, c, "postpone") => Planned(s, c, "postpone")
    BY <2>2, <1>13, <1>15 DEF Steady, SameWindows, WindowEvents
  <2>4. /\ Scheduled(r, "inside") <=> Scheduled(s, "inside")
        /\ Scheduled(r, "slotStart") <=> Scheduled(s, "slotStart")
    BY <2>2, <2>3, PlannedScheduled
  <2>5. Timed(r, now, a)
    BY <2>3, <2>4, <1>7 DEF Timed
  <2>6. /\ r.awake = s.awake /\ r.inflight = s.inflight /\ r.allowed = s.allowed
        /\ r.rawslot = s.rawslot /\ r.outsideraw = s.outsideraw
    BY <2>2, <1>9 DEF Steady
  <2>7. Closed(r, now, a)
    BY <2>4, <2>6, <1>7 DEF Closed
  <2> QED BY <2>5, <2>7, <1>15
<1>16. CASE e = "inside"
  <2>1. r = InsideBackoff(d)
    BY <1>10, <1>16 DEF Fires
  <2>2. r \in Station /\ SameWindows(d, r) /\ Barred(r) /\ ~r.rawslot /\ r.outsideraw = d.outsideraw
    BY <2>1, InsideEffect
  <2>3. a.kind = "own" /\ a.start <= now /\ now + 0 = a.start + a.slot /\ Scheduled(s, "inside")
    BY <1>6, <1>7, <1>16, PlannedScheduled DEF Timed
  <2>4. now = a.start + a.slot /\ 1 < a.slot
    BY <2>3, <1>4, <1>11
  <2>5. \A c \in Nat : ~Planned(d, c, "inside")
    BY <1>6, <1>7, <1>16, PlannedScheduled
  <2>6. \A c \in Nat : /\ Planned(r, c, "slotStart") => Planned(s, c, "slotStart")
                       /\ ~Planned(r, c, "inside")
                       /\ Planned(r, c, "outside") => Planned(s, c, "outside")
                       /\ Planned(r, c, "postpone") => Planned(s, c, "postpone")
    BY <2>2, <2>5, <1>6 DEF SameWindows, WindowEvents
  <2>7. ASSUME NEW c \in Nat, Planned(s, c, "postpone") PROVE FALSE
    <3>1. now + c = a.start + 1
      BY <2>3, <2>7, <1>7 DEF Timed
    <3> QED BY <3>1, <2>4, <1>4
  <2>8. ASSUME NEW c \in Nat, Planned(s, c, "slotStart") PROVE FALSE
    <3>1. now + c = a.start
      BY <2>8, <1>7 DEF Timed
    <3> QED BY <3>1, <2>4, <1>4
  <2>9. Timed(r, now, a)
    BY <2>6, <2>7, <2>8, <1>7 DEF Timed
  <2>10. ~Scheduled(r, "slotStart")
    BY <2>2, <2>6, <2>8, PlannedScheduled
  <2>11. Closed(r, now, a)
    BY <2>2, <2>3, <2>10, <1>7, <1>9 DEF Closed, Barred
  <2> QED BY <2>6, <2>7, <2>9, <2>11
<1>17. CASE e = "outside"
  <2>1. r = OutsideRawStartBackoff(d)
    BY <1>10, <1>17 DEF Fires
  <2>2. /\ r \in Station
        /\ \A c \in Nat :
             /\ Planned(r, c, "slotStart") <=> Planned(d, c, "slotStart")
             /\ Planned(r, c, "outside") <=> Planned(d, c, "outside")
             /\ ~Planned(r, c, "inside")
             /\ Planned(r, c, "postpone") <=> (Planned(d, c, "postpone") \/ c = 1)
    BY <2>1, <1>8, OutsideEffect
  <2>3. Real(a) /\ now + 0 = a.end
    BY <1>6, <1>7, <1>17 DEF Timed
  <2>4. now = a.end /\ a.start + 1 < now
    BY <2>3, <1>4
  <2>5. ~Scheduled(r, "inside")
    BY <2>2, PlannedScheduled
  <2>6. ASSUME NEW c \in Nat, Planned(r, c, "postpone") PROVE now + c = a.end + 1
    <3>1. CASE c = 1
      BY <3>1, <2>4
    <3>2. CASE Planned(s, c, "postpone")
      <4>1. now + c # a.start + 1
        BY <2>4, <1>4
      <4> QED BY <4>1, <3>2, <1>7 DEF Timed
    <3> QED BY <3>1, <3>2, <2>2, <2>6, <1>6
  <2>7. a.end <= now
    BY <2>4, <1>4
  <2>8. Timed(r, now, a)
    BY <2>2, <2>3, <2>5, <2>6, <2>7, <1>6, <1>7 DEF Timed
  <2>9. Closed(r, now, a)
    BY <2>4, <1>4 DEF Closed
  <2> QED BY <2>8, <2>9, <1>17
<1> QED BY <1>12, <1>14, <1>15, <1>16, <1>17 DEF WindowEvents

LEMMA WindowsTick ==
  ASSUME WindowInv, Tick
  PROVE  Timed(sta', since', raw') /\ Closed(sta', since', raw')
<1>0. TypeOK /\ Timed(sta, since, raw) /\ Closed(sta, since, raw)
  BY DEF WindowInv, OwnSlotInv
<1>1. PICK s \in Station : s = sta
  BY <1>0 DEF TypeOK
<1>2. PICK now \in Nat : now = since
  BY <1>0, RawType
<1>3. PICK a : a = raw
  OBVIOUS
<1>4. a.start \in Nat /\ a.slot \in Nat /\ a.end \in Nat
  BY <1>0, <1>3, RawType
<1>5. PICK r : r = sta'
  OBVIOUS
<1>6. /\ Alike(s, r)
      /\ \A d \in Nat : \A e : Planned(r, d, e) <=> Planned(s, d + 1, e)
      /\ \A e : Scheduled(r, e) <=> Scheduled(s, e)
      /\ since' = now + 1 /\ raw' = a
  BY <1>0, <1>1, <1>2, <1>3, <1>5, TickEffect
<1>7. Timed(s, now, a) /\ Closed(s, now, a)
  BY <1>0, <1>1, <1>2, <1>3
<1>8. \A d \in Nat : d + 1 \in Nat /\ now + (d + 1) = (now + 1) + d
  OBVIOUS
<1>9. /\ a.start <= now => a.start <= now + 1
      /\ a.end <= now => a.end <= now + 1
      /\ now + 1 < a.end => now < a.end
  BY <1>4
<1>10. Timed(r, now + 1, a)
  <2> SUFFICES ASSUME NEW d \in Nat
               PROVE  /\ Planned(r, d, "slotStart") => a.kind = "own" /\ (now + 1) + d = a.start
                      /\ Planned(r, d, "inside") =>
                           /\ a.kind = "own" /\ a.start <= now + 1
                           /\ (now + 1) + d = a.start + a.slot
                      /\ Planned(r, d, "outside") => Real(a) /\ (now + 1) + d = a.end
                      /\ Planned(r, d, "postpone") =>
                           \/ /\ a.kind = "own" /\ a.start <= now + 1
                              /\ (now + 1) + d = a.start + 1
                              /\ Scheduled(r, "inside")
                           \/ /\ Real(a) /\ a.end <= now + 1 /\ (now + 1) + d = a.end + 1
                              /\ ~Scheduled(r, "inside")
    BY DEF Timed
  <2>1. PICK c \in Nat : c = d + 1 /\ now + c = (now + 1) + d
    BY <1>8
  <2>2. \A e : Planned(r, d, e) <=> Planned(s, c, e)
    BY <2>1, <1>6
  <2>3. Scheduled(r, "inside") <=> Scheduled(s, "inside")
    BY <1>6
  <2> QED BY <2>1, <2>2, <2>3, <1>7, <1>9 DEF Timed
<1>11. Closed(r, now + 1, a)
  BY <1>6, <1>7, <1>9 DEF Closed, Alike
<1> QED BY <1>5, <1>6, <1>10, <1>11

LEMMA WindowsBeacon ==
  ASSUME RegularRaws, WindowInv, NEW x \in Assignments, ReceiveBeacon(x)
  PROVE  /\ Timed(sta', since', raw') /\ Closed(sta', since', raw')
         /\ sta.hasAid => Barred(sta')
         /\ \A d \in Nat : ~Planned(sta', d, "postpone")
<1>0. TypeOK
  BY DEF WindowInv, OwnSlotInv
<1>1. PICK s \in Station : s = sta
  BY <1>0 DEF TypeOK
<1>2. /\ BeaconDue /\ s.awake /\ s.inflight = Nobody
      /\ sta' = Received(s, x) /\ since' = 0
      /\ raw' = IF s.hasAid THEN x ELSE NoRaw
  BY <1>1 DEF ReceiveBeacon
<1>3. \A d \in Nat : /\ ~Planned(s, d, "slotStart") /\ ~Planned(s, d, "inside")
                     /\ ~Planned(s, d, "outside") /\ ~Planned(s, d, "postpone")
  BY <1>1, <1>2, NothingPlanned DEF WindowEvents
<1>4. PICK r : r = Received(s, x)
  OBVIOUS
<1>5. /\ r \in Station
      /\ r.awake = s.awake /\ r.inflight = s.inflight /\ ~r.outsideraw
      /\ \A d \in Nat :
           /\ Planned(r, d, "inside") <=> Planned(s, d, "inside")
           /\ Planned(r, d, "postpone") <=> Planned(s, d, "postpone")
           /\ Planned(r, d, "outside") => Planned(s, d, "outside") \/ (s.hasAid /\ d = x.end)
           /\ Planned(r, d, "slotStart") <=>
                (Planned(s, d, "slotStart") \/ (s.hasAid /\ x.kind = "own" /\ d = x.start))
      /\ s.hasAid /\ x.kind # "unpaged" => Barred(r)
  BY <1>4, BeaconEffect
<1>6. \A d \in Nat :
        /\ ~Planned(r, d, "inside") /\ ~Planned(r, d, "postpone")
        /\ Planned(r, d, "outside") => s.hasAid /\ d = x.end
        /\ Planned(r, d, "slotStart") <=> (s.hasAid /\ x.kind = "own" /\ d = x.start)
  BY <1>3, <1>5
<1>7. x.kind \in {"own", "other", "paged"} /\ x.start \in Nat /\ x.end \in Nat
  BY RawAssumption DEF RegularRaws, Kinds
<1>8. CASE s.hasAid
  <2>1. Real(x) /\ Barred(r)
    BY <1>5, <1>7, <1>8 DEF Real
  <2>2. Timed(r, 0, x)
    <3>1. \A d \in Nat : 0 + d = d
      OBVIOUS
    <3> QED BY <3>1, <2>1, <1>6 DEF Timed
  <2>3. x.kind = "own" => Scheduled(r, "slotStart")
    BY <1>5, <1>6, <1>7, <1>8, PlannedScheduled
  <2>4. Closed(r, 0, x)
    BY <2>1, <2>3, <1>2, <1>5 DEF Closed, Barred
  <2> QED BY <2>1, <2>2, <2>4, <1>1, <1>2, <1>4, <1>6, <1>8
<1>9. CASE ~s.hasAid
  <2>1. ~Real(NoRaw)
    BY DEF Real, NoRaw
  <2>2. Timed(r, 0, NoRaw)
    BY <1>6, <1>9 DEF Timed
  <2>3. Closed(r, 0, NoRaw)
    BY <2>1 DEF Closed
  <2> QED BY <2>2, <2>3, <1>1, <1>2, <1>4, <1>6, <1>9
<1> QED BY <1>8, <1>9

LEMMA WindowsMiss ==
  ASSUME RegularRaws, WindowInv, MissBeacon
  PROVE  Timed(sta', since', raw') /\ Closed(sta', since', raw')
<1>1. PICK s : s = sta
  OBVIOUS
<1>2. BeaconDue /\ sta' = s /\ since' = 0 /\ raw' = Missed
  BY <1>1 DEF MissBeacon
<1>3. \A d \in Nat : /\ ~Planned(s, d, "slotStart") /\ ~Planned(s, d, "inside")
                     /\ ~Planned(s, d, "outside") /\ ~Planned(s, d, "postpone")
  BY <1>1, <1>2, NothingPlanned DEF WindowEvents
<1>4. ~Real(Missed)
  BY DEF Real, Missed, NoRaw
<1>5. Timed(s, 0, Missed) /\ Closed(s, 0, Missed)
  BY <1>3, <1>4 DEF Timed, Closed
<1> QED BY <1>2, <1>5

LEMMA WindowInit == Init => WindowInv
<1> SUFFICES ASSUME Init PROVE WindowInv
  OBVIOUS
<1>1. OwnSlotInv
  BY OwnSlotInit
<1>2. sta.agenda = <<>> /\ raw = NoRaw
  BY DEF Init
<1>3. \A d, e : ~Planned(sta, d, e)
  BY <1>2 DEF Planned
<1>4. ~Real(raw)
  BY <1>2 DEF Real, NoRaw
<1> QED BY <1>1, <1>3, <1>4 DEF WindowInv, Timed, Closed

LEMMA WindowNext == RegularRaws /\ WindowInv /\ [Next]_vars => WindowInv'
<1> SUFFICES ASSUME RegularRaws, WindowInv, [Next]_vars PROVE WindowInv'
  OBVIOUS
<1>1. OwnSlotInv /\ TypeOK /\ Timed(sta, since, raw) /\ Closed(sta, since, raw)
  BY DEF WindowInv, OwnSlotInv
<1>2. OwnSlotInv'
  BY <1>1, OwnSlotNext
<1> SUFFICES Timed(sta', since', raw') /\ Closed(sta', since', raw')
  BY <1>2 DEF WindowInv
<1>3. CASE QuietStep
  <2>1. sta \in Station /\ since' = since /\ raw' = raw /\ Quiet(sta, sta')
    BY <1>1, <1>3 DEF QuietStep, TypeOK
  <2>2. PICK s, r, now, a : s \in Station /\ s = sta /\ r = sta' /\ now = since /\ a = raw
    BY <2>1
  <2>3. s \in Station /\ Timed(s, now, a) /\ Closed(s, now, a) /\ Quiet(s, r)
    BY <2>1, <2>2, <1>1
  <2>4. Timed(r, now, a) /\ Closed(r, now, a)
    BY <2>3, WindowsQuiet
  <2> QED BY <2>1, <2>2, <2>4
<1>4. ASSUME NEW e \in WindowEvents, Fire(e)
      PROVE  Timed(sta', since', raw') /\ Closed(sta', since', raw')
  BY <1>4, WindowsFire
<1>5. CASE Tick
  BY <1>5, WindowsTick
<1>6. ASSUME NEW x \in Assignments, ReceiveBeacon(x)
      PROVE  Timed(sta', since', raw') /\ Closed(sta', since', raw')
  BY <1>6, WindowsBeacon
<1>7. CASE MissBeacon
  BY <1>7, WindowsMiss
<1> QED BY <1>1, <1>3, <1>4, <1>5, <1>6, <1>7, Steps DEF WindowEvents

(* Before the end of the RAW, a station that may send, or that would wake  *)
(* up for a packet, is in its own slot.                                    *)
LEMMA OwnWindow ==
  ASSUME RegularRaws, WindowInv,
         \/ \E t \in Txop : sta.allowed[t]
         \/ ~sta.awake /\ (sta.rawslot \/ sta.outsideraw)
  PROVE  raw.kind \in {"none", "missed"} \/ since >= raw.end \/ InOwnSlot
<1>1. /\ TypeOK /\ Timed(sta, since, raw) /\ Closed(sta, since, raw)
      /\ since \in Nat /\ raw.start \in Nat /\ raw.slot \in Nat /\ raw.end \in Nat
  BY RawType DEF WindowInv, OwnSlotInv
<1> SUFFICES ASSUME Real(raw), since < raw.end PROVE InOwnSlot
  BY <1>1, RealRaw
<1>2. raw.kind = "own" /\ Scheduled(sta, "inside")
  BY <1>1 DEF Closed
<1>3. PICK d \in Nat : Planned(sta, d, "inside")
  BY <1>1, <1>2, PlannedScheduled DEF TypeOK
<1>4. raw.start <= since /\ since + d = raw.start + raw.slot
  BY <1>1, <1>3 DEF Timed
<1>5. since <= raw.start + raw.slot
  BY <1>1, <1>4
<1> QED BY <1>2, <1>4, <1>5 DEF InOwnSlot

(* A station respects the RAW of the beacon it received last: it starts to *)
(* send before the end of the RAW in its own slot only.  An exchange is    *)
(* started by a granted request or a scheduled next fragment, both of      *)
(* which look at AccessIfRaw; that it is granted until the end of the RAW  *)
(* in the slot only is what RegularRaws is for: a grant postponed past the *)
(* next beacon, or past the end of the slot, is given all the same.        *)
THEOREM RespectsTheRaw ==
  ASSUME RegularRaws
  PROVE  Spec => RawRespected
<1>1. Init => WindowInv
  BY WindowInit
<1>2. WindowInv /\ [Next]_vars => WindowInv'
  BY WindowNext
<1>3. WindowInv /\ [Next]_vars =>
        [\A t \in Txop : Starts(t) => \/ raw.kind \in {"none", "missed"}
                                      \/ since >= raw.end
                                      \/ InOwnSlot
                                      \/ ~sta.hasAid]_vars
  <2> SUFFICES ASSUME WindowInv, [Next]_vars, NEW t \in Txop, Starts(t)
               PROVE  raw.kind \in {"none", "missed"} \/ since >= raw.end \/ InOwnSlot
    OBVIOUS
  <2>1. OwnSlotInv /\ TypeOK
    BY DEF WindowInv, OwnSlotInv
  <2>2. sta.inflight # t /\ sta'.inflight = t /\ t # Nobody
    BY NobodyElse DEF Starts
  <2>3. CASE QuietStep
    BY <2>2, <2>3, OwnWindow DEF QuietStep, Quiet
  <2>4. ASSUME NEW e \in WindowEvents, Fire(e) PROVE FALSE
    BY <2>1, <2>2, <2>4, WindowStays
  <2>5. ~Tick
    BY <2>1, <2>2, TickEffect DEF Alike
  <2>6. ASSUME NEW a \in Assignments, ReceiveBeacon(a) PROVE FALSE
    <3>1. sta \in Station /\ sta' = Received(sta, a)
      BY <2>1, <2>6 DEF ReceiveBeacon, TypeOK
    <3>2. PICK s \in Station : s = sta
      BY <3>1
    <3>3. Received(s, a).inflight = s.inflight
      BY BeaconEffect
    <3> QED BY <3>1, <3>2, <3>3, <2>2
  <2>7. ~MissBeacon
    BY <2>2 DEF MissBeacon
  <2> QED BY <2>1, <2>3, <2>4, <2>5, <2>6, <2>7, Steps DEF WindowEvents
<1> QED BY <1>1, <1>2, <1>3, PTL DEF Spec, RawRespected

(* "In case of shared or own slot, the station wakes up" for a packet that *)
(* is queued: stationrawslot and outsideraw, which Enqueue looks at, hold  *)
(* in no slot of others.                                                   *)
THEOREM WakesForItself ==
  ASSUME RegularRaws
  PROVE  Spec => WakesInItsSlots
<1>1. Init => WindowInv
  BY WindowInit
<1>2. WindowInv /\ [Next]_vars => WindowInv'
  BY WindowNext
<1>3. WindowInv /\ [Next]_vars =>
        [Enqueue /\ ~sta.awake /\ sta'.awake =>
           raw.kind \in {"none", "missed"} \/ since >= raw.end \/ InOwnSlot]_vars
  <2> SUFFICES ASSUME WindowInv, Enqueue, ~sta.awake, sta'.awake
               PROVE  raw.kind \in {"none", "missed"} \/ since >= raw.end \/ InOwnSlot
    OBVIOUS
  <2>1. PICK s \in Station : s = sta
    BY DEF WindowInv, OwnSlotInv, TypeOK
  <2>2. PICK w : w = IF s.rawslot \/ s.outsideraw THEN WakeUp(s) ELSE s
    OBVIOUS
  <2>3. sta' = (IF w.associated THEN Queue(w, Data) ELSE w)
    BY <2>1, <2>2 DEF Enqueue
  <2>4. w \in Station
    BY <2>2, WakeUpType
  <2>5. Queue(w, Data).awake = w.awake
    BY <2>4, QueueEffect, RawAssumption
  <2>6. w.awake
    BY <2>3, <2>5
  <2>7. sta.rawslot \/ sta.outsideraw
    BY <2>1, <2>2, <2>6
  <2> QED BY <2>7, OwnWindow
<1> QED BY <1>1, <1>2, <1>3, PTL DEF Spec, WakesInItsSlots

-----------------------------------------------------------------------------
(* No packet of EdcaTxopN is stranded.                                     *)

LEMMA ServedAll == NoneStranded <=> \A t \in Edca : Served(sta, t)
BY DEF NoneStranded, Served

LEMMA NothingPostponed ==
  ASSUME NEW s \in Station, \A d \in Nat : ~Planned(s, d, "postpone")
  PROVE  Trailed(s)
BY AgendaShape DEF Trailed, Planned

LEMMA StrandedFire ==
  ASSUME RegularRaws, StrandedInv, NEW e \in WindowEvents, Fire(e), TypeOK'
  PROVE  Followed(sta') /\ \A t \in Edca : Served(sta', t)
<1>0. WindowInv /\ TypeOK /\ OwnSlot(sta, since, raw)
  BY DEF StrandedInv, WindowInv, OwnSlotInv
<1>1. PICK s \in Station : s = sta
  BY <1>0 DEF TypeOK
<1>2. Once(s) /\ Followed(s) /\ \A t \in Edca : Served(s, t)
  BY <1>0, <1>1, ServedAll DEF StrandedInv, OwnSlot
<1>3. PICK d \in Station :
        /\ sta' = Fires(d, e) /\ Alike(s, d) /\ Planned(s, 0, e)
        /\ \A c, f : Planned(s, c, f) /\ (f # e \/ c # 0) => Planned(d, c, f)
        /\ Once(s) => Once(d)
        /\ Trailed(s) => Trailed(d)
  BY <1>0, <1>1, Fired
<1>4. PICK r : r = Fires(d, e)
  OBVIOUS
<1>5. sta' = r /\ r \in Station
  BY <1>3, <1>4 DEF TypeOK
<1>6. /\ d.allowed = s.allowed /\ d.awake = s.awake /\ d.inflight = s.inflight
      /\ d.requested = s.requested /\ d.queued = s.queued /\ d.current = s.current
  BY <1>3 DEF Alike
<1>7. Followed(d)
  BY <1>2, <1>3, <1>6 DEF Followed
<1> SUFFICES Followed(r) /\ \A t \in Edca : Served(r, t)
  BY <1>5
<1>8. CASE e = "slotStart"
  <2>1. r = RawSlotStartBackoff(d)
    BY <1>4, <1>8 DEF Fires
  <2>2. r.allowed = d.allowed /\ Scheduled(r, "startRaw") /\ (Trailed(d) => Trailed(r))
    BY <2>1, <1>2, <1>3, SlotStartEffect
  <2> QED BY <2>2, <1>7 DEF Followed, Served
<1>9. CASE e = "postpone"
  <2> DEFINE f == [t \in Txop |-> IF t \in Txop THEN TRUE ELSE d.allowed[t]]
  <2>1. f \in [Txop -> BOOLEAN] /\ r = [d EXCEPT !.allowed = f] /\ \A t \in Txop : f[t]
    BY <1>4, <1>9 DEF Fires, RawSlotStartBackoffPostpone, AccessAllowedIfRaw
  <2> HIDE DEF f
  <2>2. /\ \A t \in Txop : r.allowed[t]
        /\ \A g : Scheduled(d, g) <=> Scheduled(r, g)
        /\ r.awake = d.awake /\ r.inflight = d.inflight
        /\ r.queued = d.queued /\ r.current = d.current /\ r.requested = d.requested
    BY <2>1, AllowedEffect
  <2>3. Followed(r)
    BY <2>2, NobodyElse DEF Followed
  <2>4. CASE Trailed(s)
    <3>1. Planned(s, 0, "startRaw")
      BY <2>4, <1>3, <1>9 DEF Trailed, Trails, Planned
    <3>2. Planned(d, 0, "startRaw")
      BY <3>1, <1>3, <1>9
    <3>3. Scheduled(r, "startRaw")
      BY <3>2, <2>2, PlannedScheduled
    <3> QED BY <3>3, <2>3 DEF Served
  <2>5. CASE \A t \in Edca : s.allowed[t]
    <3>1. \A g \in {"startRaw", "restart"} : Scheduled(s, g) => Scheduled(r, g)
      <4> SUFFICES ASSUME NEW g \in {"startRaw", "restart"}, Scheduled(s, g)
                   PROVE  Scheduled(d, g)
        BY <2>2
      <4>1. PICK c \in Nat : Planned(s, c, g)
        BY PlannedScheduled
      <4>2. Planned(d, c, g)
        BY <4>1, <1>3, <1>9
      <4> QED BY <4>2, PlannedScheduled
    <3>2. \A t \in Edca : HasPacket(r, t) <=> HasPacket(s, t)
      BY <2>2, <1>6 DEF HasPacket
    <3>3. ASSUME NEW t \in Edca PROVE Served(r, t)
      <4>1. Served(s, t) /\ s.allowed[t]
        BY <1>2, <2>5
      <4>2. r.awake = s.awake /\ r.inflight = s.inflight /\ r.requested = s.requested
        BY <2>2, <1>6
      <4> QED BY <4>1, <4>2, <3>1, <3>2 DEF Served
    <3> QED BY <3>3, <2>3
  <2> QED BY <2>4, <2>5, <1>2 DEF Followed
<1>10. CASE e = "startRaw"
  <2>1. r = StartRawbackoff(d)
    BY <1>4, <1>10 DEF Fires
  <2>2. Steady(d, r) /\ \A u \in Edca : Served(r, u)
    BY <2>1, RawbackoffEffect
  <2> QED BY <2>2, <1>7 DEF Steady, SameWindows, Followed
<1>11. CASE e = "inside"
  <2>1. \A c \in Nat : ~Planned(r, c, "postpone")
    BY <1>0, <1>5, <1>11, WindowsFire
  <2>2. Trailed(r)
    BY <2>1, <1>5, NothingPostponed
  <2>3. r = InsideBackoff(d)
    BY <1>4, <1>11 DEF Fires
  <2>4. Barred(r)
    BY <2>3, InsideEffect
  <2> QED BY <2>2, <2>4, NobodyElse DEF Followed, Served, Barred
<1>12. CASE e = "outside"
  <2>1. r = OutsideRawStartBackoff(d)
    BY <1>4, <1>12 DEF Fires
  <2>2. (\A t \in Txop : r.allowed[t]) /\ \A u \in Edca : Served(r, u)
    BY <2>1, <1>2, <1>3, OutsideEffect
  <2> QED BY <2>2, NobodyElse DEF Followed
<1> QED BY <1>8, <1>9, <1>10, <1>11, <1>12 DEF WindowEvents

LEMMA StrandedTick ==
  ASSUME StrandedInv, Tick
  PROVE  Followed(sta') /\ \A t \in Edca : Served(sta', t)
<1>0. TypeOK /\ Followed(sta) /\ \A t \in Edca : Served(sta, t)
  BY ServedAll DEF StrandedInv, WindowInv, OwnSlotInv
<1>1. PICK s, r : s \in Station /\ s = sta /\ r = sta'
  BY <1>0 DEF TypeOK
<1>2. /\ Alike(s, r) /\ (\A e : Scheduled(r, e) <=> Scheduled(s, e))
      /\ Trailed(s) => Trailed(r)
  BY <1>0, <1>1, TickEffect
<1>3. /\ r.allowed = s.allowed /\ r.awake = s.awake /\ r.inflight = s.inflight
      /\ r.requested = s.requested /\ r.queued = s.queued /\ r.current = s.current
  BY <1>2 DEF Alike
<1>4. \A t \in Edca : HasPacket(r, t) <=> HasPacket(s, t)
  BY <1>3 DEF HasPacket
<1>5. \A t \in Edca : Served(r, t)
  BY <1>0, <1>1, <1>2, <1>3, <1>4 DEF Served
<1> QED BY <1>0, <1>1, <1>2, <1>3, <1>5 DEF Followed

LEMMA StrandedBeacon ==
  ASSUME RegularRaws, StrandedInv, NEW x \in Assignments, ReceiveBeacon(x)
  PROVE  Followed(sta') /\ \A t \in Edca : Served(sta', t)
<1>0. WindowInv /\ TypeOK /\ \A t \in Edca : Served(sta, t)
  BY ServedAll DEF StrandedInv, WindowInv, OwnSlotInv
<1>1. PICK s, r : s \in Station /\ s = sta /\ r = Received(s, x)
  BY <1>0 DEF TypeOK
<1>2. sta' = r
  BY <1>1 DEF ReceiveBeacon
<1>3. r \in Station /\ (~s.hasAid => \A u \in Edca : Served(s, u) => Served(r, u))
  BY <1>1, BeaconEffect
<1>4. (s.hasAid => Barred(r)) /\ \A d \in Nat : ~Planned(r, d, "postpone")
  BY <1>0, <1>1, <1>2, WindowsBeacon
<1>5. Trailed(r)
  BY <1>3, <1>4, NothingPostponed
<1>6. \A t \in Edca : Served(r, t)
  BY <1>0, <1>1, <1>3, <1>4, NobodyElse DEF Served, Barred
<1> QED BY <1>2, <1>5, <1>6 DEF Followed

LEMMA StrandedNext == RegularRaws /\ StrandedInv /\ [Next]_vars => StrandedInv'
<1> SUFFICES ASSUME RegularRaws, StrandedInv, [Next]_vars PROVE StrandedInv'
  OBVIOUS
<1>1. /\ WindowInv /\ TypeOK /\ Followed(sta) /\ NoneStranded
      /\ \A t \in Edca : Served(sta, t)
  BY ServedAll DEF StrandedInv, WindowInv, OwnSlotInv
<1>2. WindowInv' /\ TypeOK'
  BY <1>1, WindowNext, NextType
<1>3. SUFFICES Followed(sta') /\ \A t \in Edca : Served(sta', t)
  <2>1. (\A t \in Edca : Served(sta', t)) => NoneStranded'
    BY DEF NoneStranded, Served, HasPacket, Scheduled
  <2> QED BY <2>1, <1>2, <1>3 DEF StrandedInv
<1>4. CASE QuietStep
  <2>1. Quiet(sta, sta')
    BY <1>4 DEF QuietStep
  <2> QED BY <2>1, <1>1 DEF Quiet, Steady, SameWindows, Followed
<1>5. ASSUME NEW e \in WindowEvents, Fire(e)
      PROVE  Followed(sta') /\ \A t \in Edca : Served(sta', t)
  BY <1>2, <1>5, StrandedFire
<1>6. CASE Tick
  BY <1>6, StrandedTick
<1>7. ASSUME NEW x \in Assignments, ReceiveBeacon(x)
      PROVE  Followed(sta') /\ \A t \in Edca : Served(sta', t)
  BY <1>7, StrandedBeacon
<1>8. CASE MissBeacon
  BY <1>1, <1>8 DEF MissBeacon
<1> QED BY <1>1, <1>4, <1>5, <1>6, <1>7, <1>8, Steps DEF WindowEvents

(* A packet of EdcaTxopN is never stranded: whatever takes access away or  *)
(* drops a request, the station asks again when access comes back.  A      *)
(* grant postponed by RawSlotStartBackoff has its StartRawbackoff behind   *)
(* it (Trailed); the one postponed by OutsideRawStartBackoff finds access  *)
(* granted already, unless another beacon came in between, which           *)
(* RegularRaws excludes.                                                   *)
THEOREM StrandsNone ==
  ASSUME RegularRaws
  PROVE  Spec => []NoneStranded
<1>1. Init => StrandedInv
  <2> SUFFICES ASSUME Init PROVE StrandedInv
    OBVIOUS
  <2>1. WindowInv
    BY WindowInit
  <2>2. sta.agenda = <<>>
    BY DEF Init
  <2>3. Trailed(sta)
    BY <2>2 DEF Trailed
  <2>4. \A t \in Edca : ~sta.current[t] /\ ~(sta.queued[t] > 0)
    BY NobodyElse DEF Init, NoTxop
  <2>5. NoneStranded
    BY <2>4 DEF NoneStranded, HasPacket
  <2> QED BY <2>1, <2>3, <2>5 DEF StrandedInv, Followed
<1>2. StrandedInv /\ [Next]_vars => StrandedInv'
  BY StrandedNext
<1>3. StrandedInv => NoneStranded
  BY DEF StrandedInv
<1> QED BY <1>1, <1>2, <1>3, PTL DEF Spec
===============================================================================
