------------------------------ MODULE StopAndWait ------------------------------
(***************************************************************************)
(* How one station gets a unicast packet to another: the queue, the        *)
(* retries and the fragments of DcaTxop and EdcaTxopN, the RTS/CTS/DATA/   *)
(* ACK transactions of MacLow, the retry counters of                       *)
(* WifiRemoteStationManager, the sequence numbers of MacTxMiddle, and the  *)
(* duplicate filter and the reassembly of MacRxMiddle at the other side.   *)
(*                                                                         *)
(* One sender, one receiver, one frame in the air at a time.  An answer    *)
(* follows its frame after a SIFS, before anybody else may send and before *)
(* the timeout of the frame it answers: a timeout finds nothing in the air *)
(* and no answer pending.  Aggregation and block acknowledgements are not  *)
(* here.  DcfManager is abstracted to "a function with something to send   *)
(* is granted access when the medium is idle", and the station sleeps at   *)
(* any time; module RawAccess models the request flag and the callbacks    *)
(* behind that.                                                            *)
(***************************************************************************)
EXTENDS Naturals, Sequences, FiniteSets

CONSTANTS
  Txop,        \* the channel access functions of the sender
  Qos,         \* those that are EdcaTxopN; the others are DcaTxop
  Tid,         \* per function, the TID of WifiRemoteStationManager::Lookup
  Packet,      \* the packets, numbers in the order they are queued
  Owner,       \* per packet, the function it is queued at
  Frags,       \* per packet, the number of its fragments
  RtsPackets,  \* packets above the RTS threshold
  SeqMod,      \* sequence numbers (4096)
  MaxSlrc,     \* WifiRemoteStationManager's MaxSlrc (7)
  MaxSsrc,     \* WifiRemoteStationManager's MaxSsrc (7)
  QueueCap,    \* frames a WifiMacQueue holds (400)
  MaySleep,    \* which of "sender" and "receiver" may sleep
  MaxOthers,   \* bound: frames for other receivers that take a sequence number
  MaxSleeps    \* bound: how often the sender falls asleep

ASSUME TxopAssumption ==
  /\ Qos \subseteq Txop
  /\ Packet \subseteq Nat \ {0} /\ IsFiniteSet(Packet)
  /\ Owner \in [Packet -> Txop]
  /\ Frags \in [Packet -> Nat \ {0}]
  /\ RtsPackets \subseteq Packet
ASSUME LimitAssumption ==
  /\ {SeqMod, MaxSlrc, MaxSsrc, QueueCap} \subseteq Nat \ {0}
  /\ {MaxOthers, MaxSleeps} \subseteq Nat
  /\ MaySleep \subseteq {"sender", "receiver"}

Tids    == {Tid[t] : t \in Txop}
NoPacket == 0
NoFrame  == [kind |-> "none"]
Outcome == {"pending", "ok", "failed", "dropped"}

(* A fragment of a packet, and the data frame that carries it: what the    *)
(* header says (seq, frag, more, retry) apart from what the body holds.    *)
Fragment   == [packet : Packet, part : Nat]
SeqControl == [seq : 0..SeqMod, frag : Nat]
DataFrame  == [kind : {"data"}, txop : Txop, body : Fragment,
               control : SeqControl, more : BOOLEAN, retry : BOOLEAN]
ControlFrame == [kind : {"rts", "cts", "ack"}]
NoControl  == [seq |-> SeqMod, frag |-> 15]     \* the magic value 0xffff

VARIABLES
  fresh,     \* packets that have not been queued yet
  queue,     \* per function, its WifiMacQueue
  current,   \* per function, m_currentPacket
  hdr,       \* per function, sequence number and retry bit of m_currentHdr
  fragment,  \* per function, m_fragmentNumber
  nextSeq,   \* per function, the counter of MacTxMiddle it draws from
  slrc,      \* per TID, WifiRemoteStation::m_slrc
  ssrc,      \* per TID, WifiRemoteStation::m_ssrc
  low,       \* the sender's MacLow: what it waits for, and the data frame
  air,       \* the frame in the air
  reply,     \* the receiver's m_sendAckEvent or m_sendCtsEvent
  asleep,    \* which of the two sides sleeps
  rx,        \* per function, OriginatorRxStatus: last control and fragments
  up,        \* per function, what the receiver handed up
  outcome,   \* per packet, what the sender's callbacks told last
  tries,     \* per packet, data frames sent for it (up to MaxSlrc + 1)
  others,    \* frames sent to other receivers
  sleeps     \* how often the sender fell asleep

txopVars == <<fresh, queue, current, hdr, fragment, nextSeq>>
rxVars   == <<reply, rx, up>>
vars     == <<txopVars, slrc, ssrc, low, air, rxVars, asleep, outcome, tries, others, sleeps>>

Idle == [stage |-> "idle", frame |-> NoFrame]

TypeOK ==
  /\ fresh \subseteq Packet
  /\ queue \in [Txop -> Seq(Packet)]
  /\ current \in [Txop -> Packet \cup {NoPacket}]
  /\ hdr \in [Txop -> [seq : 0..(SeqMod - 1), retry : BOOLEAN]]
  /\ fragment \in [Txop -> Nat]
  /\ nextSeq \in [Txop -> 0..(SeqMod - 1)]
  /\ slrc \in [Tids -> 0..MaxSlrc]
  /\ ssrc \in [Tids -> 0..MaxSsrc]
  /\ low \in [stage : {"cts", "sifs", "ack", "next"}, frame : DataFrame] \cup {Idle}
  /\ air \in DataFrame \cup ControlFrame \cup {NoFrame}
  /\ reply \in {"ack", "cts", "none"}
  /\ asleep \subseteq {"sender", "receiver"}
  /\ rx \in [Txop -> [last : SeqControl, parts : Seq(Fragment)]]
  /\ up \in [Txop -> Seq(Seq(Fragment))]
  /\ outcome \in [Packet -> Outcome]
  /\ tries \in [Packet -> 0..(MaxSlrc + 1)]
  /\ others \in 0..MaxOthers
  /\ sleeps \in 0..MaxSleeps

Init ==
  /\ fresh = Packet
  /\ queue = [t \in Txop |-> <<>>]
  /\ current = [t \in Txop |-> NoPacket]
  /\ hdr = [t \in Txop |-> [seq |-> 0, retry |-> FALSE]]
  /\ fragment = [t \in Txop |-> 0]
  /\ nextSeq = [t \in Txop |-> 0]
  /\ slrc = [i \in Tids |-> 0]
  /\ ssrc = [i \in Tids |-> 0]
  /\ low = Idle
  /\ air = NoFrame
  /\ reply = "none"
  /\ asleep = {}
  /\ rx = [t \in Txop |-> [last |-> NoControl, parts |-> <<>>]]
  /\ up = [t \in Txop |-> <<>>]
  /\ outcome = [p \in Packet |-> "pending"]
  /\ tries = [p \in Packet |-> 0]
  /\ others = 0
  /\ sleeps = 0

-----------------------------------------------------------------------------
(* Queueing and starting a transmission.                                   *)

Queue(p) ==
  LET t == Owner[p] IN
  /\ p \in fresh
  /\ \A q \in fresh : Owner[q] = t => p <= q
  /\ fresh' = fresh \ {p}
  /\ \/ /\ Len(queue[t]) < QueueCap
        /\ queue' = [queue EXCEPT ![t] = Append(@, p)]
        /\ UNCHANGED outcome
     \/ /\ Len(queue[t]) >= QueueCap
        /\ outcome' = [outcome EXCEPT ![p] = "dropped"]
        /\ UNCHANGED queue
  /\ UNCHANGED <<current, hdr, fragment, nextSeq, slrc, ssrc, low, air, rxVars,
                 asleep, tries, others, sleeps>>

GetNextSequenceNumber(n) == (n + 1) % SeqMod

IsLastFragment(p, k) == k = Frags[p] - 1

GetFragmentPacket(t, p, k, h) ==
  [kind |-> "data", txop |-> t, body |-> [packet |-> p, part |-> k],
   control |-> [seq |-> h.seq, frag |-> k],
   more |-> ~IsLastFragment(p, k), retry |-> h.retry]

(* On access, EdcaTxopN passes the body of the fragment with m_currentHdr, *)
(* whose fragment number and More Fragments bit were never set.            *)
FrameOnAccess(t, p, k, h) ==
  IF t \in Qos
    THEN [GetFragmentPacket(t, p, k, h) EXCEPT !.control = [seq |-> h.seq, frag |-> 0], !.more = FALSE]
    ELSE GetFragmentPacket(t, p, k, h)

(* EdcaTxopN disables RTS for fragments. *)
NeedRts(t, p) == p \in RtsPackets /\ (t \in Qos => Frags[p] = 1)

SendData(f) ==
  /\ air' = f
  /\ low' = [stage |-> "ack", frame |-> f]
  /\ tries' = [tries EXCEPT ![f.body.packet] = IF @ > MaxSlrc THEN @ ELSE @ + 1]

StartTransmission(f, rts) ==
  \/ /\ rts
     /\ air' = [kind |-> "rts"]
     /\ low' = [stage |-> "cts", frame |-> f]
     /\ UNCHANGED tries
  \/ ~rts /\ SendData(f)

MediumIdle == low = Idle /\ air = NoFrame /\ reply = "none"

(* A packet that is not the current one yet gets a new sequence number,    *)
(* its first fragment and a clear retry bit; a current packet is sent      *)
(* again as it stands.                                                     *)
NotifyAccessGranted(t) ==
  /\ MediumIdle
  /\ "sender" \notin asleep
  /\ \/ LET p == Head(queue[t])
            h == [seq |-> nextSeq[t], retry |-> FALSE] IN
        /\ current[t] = NoPacket
        /\ queue[t] # <<>>
        /\ queue' = [queue EXCEPT ![t] = Tail(@)]
        /\ current' = [current EXCEPT ![t] = p]
        /\ nextSeq' = [nextSeq EXCEPT ![t] = GetNextSequenceNumber(@)]
        /\ hdr' = [hdr EXCEPT ![t] = h]
        /\ fragment' = [fragment EXCEPT ![t] = 0]
        /\ StartTransmission(FrameOnAccess(t, p, 0, h), NeedRts(t, p))
     \/ /\ current[t] # NoPacket
        /\ StartTransmission(FrameOnAccess(t, current[t], fragment[t], hdr[t]),
                             NeedRts(t, current[t]))
        /\ UNCHANGED <<queue, current, nextSeq, hdr, fragment>>
  /\ UNCHANGED <<fresh, slrc, ssrc, rxVars, asleep, outcome, others, sleeps>>

(* A frame for somebody else takes a number of the same counter.           *)
SendToOther(t) ==
  /\ MediumIdle
  /\ "sender" \notin asleep
  /\ t \notin Qos
  /\ current[t] = NoPacket
  /\ others < MaxOthers
  /\ others' = others + 1
  /\ nextSeq' = [nextSeq EXCEPT ![t] = GetNextSequenceNumber(@)]
  /\ UNCHANGED <<fresh, queue, current, hdr, fragment, slrc, ssrc, low, air, rxVars,
                 asleep, outcome, tries, sleeps>>

(* The next fragment goes out a SIFS after the acknowledgement, without a  *)
(* new access and with its own header.                                     *)
StartNext ==
  LET t == low.frame.txop
      k == fragment[t] + 1 IN
  /\ low.stage = "next"
  /\ fragment' = [fragment EXCEPT ![t] = k]
  /\ SendData(GetFragmentPacket(t, current[t], k, hdr[t]))
  /\ UNCHANGED <<fresh, queue, current, hdr, nextSeq, slrc, ssrc, rxVars, asleep,
                 outcome, others, sleeps>>

-----------------------------------------------------------------------------
(* The sender's side of a transaction.                                     *)

Lose ==
  /\ air # NoFrame
  /\ air' = NoFrame
  /\ UNCHANGED <<txopVars, slrc, ssrc, low, rxVars, asleep, outcome, tries, others, sleeps>>

Arrives(kind, stage) ==
  /\ air = [kind |-> kind]
  /\ low.stage = stage
  /\ "sender" \notin asleep
  /\ air' = NoFrame

GotCts ==
  /\ Arrives("cts", "cts")
  /\ low' = [low EXCEPT !.stage = "sifs"]
  /\ ssrc' = [ssrc EXCEPT ![Tid[low.frame.txop]] = 0]
  /\ UNCHANGED <<txopVars, slrc, rxVars, asleep, outcome, tries, others, sleeps>>

SendDataAfterCts ==
  /\ low.stage = "sifs"
  /\ SendData(low.frame)
  /\ UNCHANGED <<txopVars, slrc, ssrc, rxVars, asleep, outcome, others, sleeps>>

(* ReportDataOk, then GotAck: a packet is done with its last fragment.     *)
GotAck ==
  LET t == low.frame.txop IN
  /\ Arrives("ack", "ack")
  /\ slrc' = [slrc EXCEPT ![Tid[t]] = 0]
  /\ \/ /\ IsLastFragment(current[t], fragment[t])
        /\ outcome' = [outcome EXCEPT ![current[t]] = "ok"]
        /\ current' = [current EXCEPT ![t] = NoPacket]
        /\ low' = Idle
     \/ /\ ~IsLastFragment(current[t], fragment[t])
        /\ low' = [low EXCEPT !.stage = "next"]
        /\ UNCHANGED <<outcome, current>>
  /\ UNCHANGED <<fresh, queue, hdr, fragment, nextSeq, ssrc, rxVars, asleep, tries, others, sleeps>>

TimesOut(stage) == low.stage = stage /\ air = NoFrame /\ reply = "none"

(* The last retry failed: TxFailed, and the packet is gone. *)
Abandon(t) ==
  /\ outcome' = [outcome EXCEPT ![current[t]] = "failed"]
  /\ current' = [current EXCEPT ![t] = NoPacket]

CtsTimeout ==
  LET t == low.frame.txop
      i == Tid[t] IN
  /\ TimesOut("cts")
  /\ low' = Idle
  /\ \/ /\ ssrc[i] + 1 < MaxSsrc
        /\ ssrc' = [ssrc EXCEPT ![i] = @ + 1]
        /\ UNCHANGED <<outcome, current>>
     \/ /\ ssrc[i] + 1 >= MaxSsrc
        /\ ssrc' = [ssrc EXCEPT ![i] = 0]
        /\ Abandon(t)
  /\ UNCHANGED <<fresh, queue, hdr, fragment, nextSeq, slrc, air, rxVars, asleep, tries, others, sleeps>>

(* The sender's PHY goes to sleep: every function puts its packet back at  *)
(* the front of its queue, where a full queue drops it.                    *)
Back == {t \in Txop : current[t] # NoPacket /\ Len(queue[t]) < QueueCap}
Gone == {current[t] : t \in Txop} \ {current[t] : t \in Back}

FallAsleep ==
  /\ "sender" \in MaySleep \ asleep
  /\ sleeps < MaxSleeps
  /\ sleeps' = sleeps + 1
  /\ asleep' = asleep \cup {"sender"}
  /\ queue' = [t \in Txop |-> IF t \in Back THEN <<current[t]>> \o queue[t] ELSE queue[t]]
  /\ current' = [t \in Txop |-> NoPacket]

StayAwake == UNCHANGED <<queue, asleep, sleeps>>

(* Faults of MissedAck: the failure is not counted; the counter is not     *)
(* reset after the last retry.                                             *)
MissedAckUncounted(t, n) ==
  /\ hdr' = [hdr EXCEPT ![t].retry = TRUE]
  /\ StayAwake
  /\ UNCHANGED <<slrc, outcome, current>>
MissedAckUnreset(t, n) ==
  \/ /\ n < MaxSlrc
     /\ slrc' = [slrc EXCEPT ![Tid[t]] = n]
     /\ hdr' = [hdr EXCEPT ![t].retry = TRUE]
     /\ StayAwake
     /\ UNCHANGED <<outcome, current>>
  \/ /\ n >= MaxSlrc
     /\ Abandon(t)
     /\ StayAwake
     /\ UNCHANGED <<hdr, slrc>>

(* EdcaTxopN calls the sleep callback before it reports the failure and    *)
(* forgets the packet: if the PHY sleeps at that moment, the packet is put *)
(* back, and then reported as failed while it waits to be sent again.      *)
MissedAckAsleep(t) ==
  /\ t \in Qos
  /\ FallAsleep
  /\ outcome' = [p \in Packet |-> CASE p = current[t] -> "failed"
                                    [] p # current[t] /\ p \in Gone -> "dropped"
                                    [] OTHER -> outcome[p]]

(* n is m_slrc after ReportDataFailed.  (The sleep callback of a           *)
(* retransmission changes nothing that a sleep after it would not.)        *)
MissedAck(t, n) ==
  \/ /\ n < MaxSlrc
     /\ slrc' = [slrc EXCEPT ![Tid[t]] = n]
     /\ hdr' = [hdr EXCEPT ![t].retry = TRUE]
     /\ StayAwake
     /\ UNCHANGED <<outcome, current>>
  \/ /\ n >= MaxSlrc
     /\ slrc' = [slrc EXCEPT ![Tid[t]] = 0]
     /\ (Abandon(t) /\ StayAwake) \/ MissedAckAsleep(t)
     /\ UNCHANGED hdr

NormalAckTimeout ==
  LET t == low.frame.txop IN
  /\ TimesOut("ack")
  /\ low' = Idle
  /\ MissedAck(t, slrc[Tid[t]] + 1)
  /\ UNCHANGED <<fresh, fragment, nextSeq, ssrc, air, rxVars, tries, others>>

-----------------------------------------------------------------------------
(* The receiver.                                                           *)

ReceiveRts ==
  /\ air = [kind |-> "rts"]
  /\ "receiver" \notin asleep
  /\ air' = NoFrame
  /\ reply' = "cts"
  /\ UNCHANGED <<txopVars, slrc, ssrc, low, rx, up, asleep, outcome, tries, others, sleeps>>

(* Faults: every repeated frame is a duplicate; none is. *)
IsDuplicateByRetry(f) == f.retry /\ rx[f.txop].last # NoControl
IsDuplicateNever(f) == FALSE

IsDuplicate(f) == f.retry /\ rx[f.txop].last = f.control

(* Fault: only the fragment number is looked at. *)
IsNextFragmentAnyPacket(last, c) == c.frag = last.frag + 1

IsNextFragment(last, c) == last.seq = c.seq /\ c.frag = last.frag + 1

(* MacRxMiddle: while a packet is being reassembled only its next fragment *)
(* is taken, fragment or not; a frame with More Fragments is kept, one     *)
(* without completes the packet.                                           *)
RxMiddleReceive(f) ==
  LET t == f.txop
      parts == Append(rx[t].parts, f.body)
      taken == /\ ~IsDuplicate(f)
               /\ rx[t].parts # <<>> => IsNextFragment(rx[t].last, f.control) IN
  \/ /\ taken /\ f.more
     /\ rx' = [rx EXCEPT ![t] = [last |-> f.control, parts |-> parts]]
     /\ UNCHANGED up
  \/ /\ taken /\ ~f.more
     /\ rx' = [rx EXCEPT ![t] = [last |-> f.control, parts |-> <<>>]]
     /\ up' = [up EXCEPT ![t] = Append(@, parts)]
  \/ ~taken /\ UNCHANGED <<rx, up>>

(* The acknowledgement is scheduled whatever MacRxMiddle does with it. *)
ReceiveData ==
  /\ air \in DataFrame
  /\ "receiver" \notin asleep
  /\ air' = NoFrame
  /\ reply' = "ack"
  /\ RxMiddleReceive(air)
  /\ UNCHANGED <<txopVars, slrc, ssrc, low, asleep, outcome, tries, others, sleeps>>

SendReply ==
  /\ reply # "none"
  /\ air' = [kind |-> reply]
  /\ reply' = "none"
  /\ UNCHANGED <<txopVars, slrc, ssrc, low, rx, up, asleep, outcome, tries, others, sleeps>>

-----------------------------------------------------------------------------
(* Sleep.  The PHY puts it off while it sends or receives.                 *)

ReceiverSleeps ==
  /\ "receiver" \in MaySleep \ asleep
  /\ air = NoFrame
  /\ asleep' = asleep \cup {"receiver"}
  /\ reply' = "none"
  /\ UNCHANGED <<txopVars, slrc, ssrc, low, air, rx, up, outcome, tries, others, sleeps>>

(* Fault: the packet is put back but stays current, too. *)
SenderSleepsKeeping ==
  /\ "sender" \in MaySleep \ asleep
  /\ sleeps < MaxSleeps
  /\ sleeps' = sleeps + 1
  /\ air = NoFrame
  /\ asleep' = asleep \cup {"sender"}
  /\ low' = Idle
  /\ queue' = [t \in Txop |-> IF current[t] # NoPacket THEN <<current[t]>> \o queue[t] ELSE queue[t]]
  /\ UNCHANGED <<fresh, current, hdr, fragment, nextSeq, slrc, ssrc, air, rxVars, outcome, tries, others>>

(* MacLow cancels what it waits for.                                       *)
SenderSleeps ==
  /\ air = NoFrame
  /\ FallAsleep
  /\ low' = Idle
  /\ outcome' = [p \in Packet |-> IF p \in Gone THEN "dropped" ELSE outcome[p]]
  /\ UNCHANGED <<fresh, hdr, fragment, nextSeq, slrc, ssrc, air, rxVars, tries, others>>

WakeUp(side) ==
  /\ side \in asleep
  /\ asleep' = asleep \ {side}
  /\ UNCHANGED <<txopVars, slrc, ssrc, low, air, rxVars, outcome, tries, others, sleeps>>

-----------------------------------------------------------------------------
Transaction == GotCts \/ SendDataAfterCts \/ GotAck \/ StartNext \/ CtsTimeout \/ NormalAckTimeout
Answer      == ReceiveRts \/ ReceiveData \/ SendReply

Next ==
  \/ \E p \in Packet : Queue(p)
  \/ \E t \in Txop : NotifyAccessGranted(t) \/ SendToOther(t)
  \/ Transaction \/ Answer \/ Lose
  \/ ReceiverSleeps \/ SenderSleeps
  \/ \E side \in {"sender", "receiver"} : WakeUp(side)

Spec == Init /\ [][Next]_vars

(* What the sender has to do it does: timers fire, and a function with     *)
(* something to send gets the medium in the end, which random backoffs     *)
(* make almost sure.  A frame reaches its end, arriving or not, and a      *)
(* sleeping station is woken for the next beacon.                          *)
Fairness ==
  /\ WF_vars(Transaction)
  /\ WF_vars(Answer \/ Lose)
  /\ \A t \in Txop : SF_vars(NotifyAccessGranted(t))
  /\ \A p \in Packet : WF_vars(Queue(p))
  /\ WF_vars(WakeUp("sender"))

FairSpec == Spec /\ Fairness

-----------------------------------------------------------------------------
(* Properties.                                                             *)

Whole(p) == [i \in 1..Frags[p] |-> [packet |-> p, part |-> i - 1]]

(* MacRxMiddle hands up whole packets of the sender, and nothing else: no  *)
(* single fragment, and no packet mixed from two.                          *)
OnlyWholePacketsForwarded ==
  \A t \in Txop : \A i \in DOMAIN up[t] : \E p \in Packet : up[t][i] = Whole(p)

(* "The packet we sent was successfully received by the receiver": TxOk is *)
(* reported only for a packet that was handed up.                          *)
TxOkMeansForwarded ==
  \A p \in Packet : outcome[p] = "ok" =>
    \E i \in DOMAIN up[Owner[p]] : up[Owner[p]][i] = Whole(p)

(* A packet is retransmitted until it is sent or MaxSlrc is reached: TxFailed *)
(* is reported after exactly MaxSlrc transmissions, whatever else was sent *)
(* before or in between.                                                   *)
GivenUpAfterMaxSlrc ==
  \A p \in Packet : /\ outcome[p] = "failed" /\ p \notin RtsPackets => tries[p] = MaxSlrc
                    /\ tries[p] <= MaxSlrc

(* No packet is lost without a word, and none is sent twice: until its     *)
(* fate is reported it is in exactly one place, and once it was sent or    *)
(* dropped it is nowhere.  A packet reported as failed may be queued still *)
(* only if an EdcaTxopN reported it while the station fell asleep.         *)
Places(p) ==
  (IF p \in fresh THEN 1 ELSE 0)
    + Cardinality({t \in Txop : current[t] = p})
    + Cardinality({tn \in Txop \X (1..Cardinality(Packet)) :
                     tn[2] <= Len(queue[tn[1]]) /\ queue[tn[1]][tn[2]] = p})
EveryPacketAccounted ==
  \A p \in Packet :
    /\ Places(p) <= 1
    /\ outcome[p] = "pending" => Places(p) = 1
    /\ Places(p) = 1 => \/ outcome[p] = "pending"
                        \/ outcome[p] = "failed" /\ Owner[p] \in Qos /\ sleeps > 0

(* Every packet is reported in the end, however many frames are lost.      *)
EveryPacketEnds == \A p \in Packet : <>(outcome[p] # "pending")

(* The exchange implements the link the layers above take it for.          *)
LinkOf == INSTANCE Link WITH
  got <- [t \in Txop |-> [i \in DOMAIN up[t] |-> up[t][i][1].packet]]

ImplementsLink == LinkOf!LinkSpec
=============================================================================
