---------------------------- MODULE StopAndWaitProofs ----------------------------
(***************************************************************************)
(* Theorems about StopAndWait, for any access functions, packets, fragment *)
(* counts and limits.                                                      *)
(***************************************************************************)
EXTENDS StopAndWait, FiniteSetTheorems, TLAPS

-----------------------------------------------------------------------------
(* Types.                                                                  *)

(* While MacLow waits for something, the function it works for has a packet. *)
InService == low.stage # "idle" => current[low.frame.txop] # NoPacket

TypeInv == TypeOK /\ InService

(* The header a function keeps, and a transaction of MacLow. *)
Header == [seq : 0..(SeqMod - 1), retry : BOOLEAN]
Busy   == [stage : {"cts", "sifs", "ack", "next"}, frame : DataFrame]

LEMMA IdleOrBusy ==
  ASSUME TypeOK
  PROVE  \/ low = Idle
         \/ /\ low \in Busy
            /\ low.stage # "idle" /\ low.frame \in DataFrame /\ low.frame.txop \in Txop
<1>1. CASE low \in Busy
  <2>1. low.frame \in DataFrame /\ low.stage \in {"cts", "sifs", "ack", "next"}
    BY <1>1 DEF Busy
  <2>2. low.frame.txop \in Txop
    BY <2>1 DEF DataFrame
  <2> QED BY <1>1, <2>1, <2>2
<1> QED BY <1>1 DEF TypeOK, Busy

(* What GetFragmentPacket and NotifyAccessGranted send is a data frame.    *)
LEMMA FragmentIsFrame ==
  ASSUME NEW t \in Txop, NEW p \in Packet, NEW k \in Nat,
         NEW h \in Header
  PROVE  /\ GetFragmentPacket(t, p, k, h) \in DataFrame
         /\ FrameOnAccess(t, p, k, h) \in DataFrame
         /\ FrameOnAccess(t, p, k, h).txop = t
         /\ GetFragmentPacket(t, p, k, h).txop = t
<1> DEFINE f == GetFragmentPacket(t, p, k, h)
<1>1. h.seq \in 0..SeqMod /\ h.retry \in BOOLEAN
  BY LimitAssumption DEF Header
<1>2. [packet |-> p, part |-> k] \in Fragment
  BY DEF Fragment
<1>3. \A j \in Nat : [seq |-> h.seq, frag |-> j] \in SeqControl
  BY <1>1 DEF SeqControl
<1>4. (~IsLastFragment(p, k)) \in BOOLEAN
  BY DEF IsLastFragment
<1>5. f \in DataFrame /\ f.txop = t
  BY <1>1, <1>2, <1>3, <1>4 DEF DataFrame, GetFragmentPacket
<1> DEFINE g == [f EXCEPT !.control = [seq |-> h.seq, frag |-> 0], !.more = FALSE]
<1>6. g \in DataFrame /\ g.txop = t
  <2> HIDE DEF f
  <2> QED BY <1>3, <1>5 DEF DataFrame
<1> QED BY <1>5, <1>6 DEF FrameOnAccess

LEMMA SendDataTypes ==
  ASSUME TypeOK, NEW f \in DataFrame, SendData(f)
  PROVE  /\ air' \in DataFrame
         /\ low' \in Busy
         /\ low'.frame = f
         /\ tries' \in [Packet -> 0..(MaxSlrc + 1)]
<1>1. f.body.packet \in Packet
  BY DEF DataFrame, Fragment
<1>2. tries' \in [Packet -> 0..(MaxSlrc + 1)]
  <2>1. tries \in [Packet -> 0..(MaxSlrc + 1)] /\ MaxSlrc \in Nat
    BY LimitAssumption DEF TypeOK
  <2>2. PICK p \in Packet : tries' = [tries EXCEPT ![p] = IF @ > MaxSlrc THEN @ ELSE @ + 1]
    BY <1>1 DEF SendData
  <2>3. tries[p] \in 0..(MaxSlrc + 1)
    BY <2>1
  <2>4. (IF tries[p] > MaxSlrc THEN tries[p] ELSE tries[p] + 1) \in 0..(MaxSlrc + 1)
    BY <2>1, <2>3
  <2> QED BY <2>1, <2>2, <2>4
<1>3. air' = f /\ low' = [stage |-> "ack", frame |-> f]
  BY DEF SendData
<1>4. low' \in Busy /\ low'.frame = f
  BY <1>3 DEF Busy
<1> QED BY <1>2, <1>3, <1>4

LEMMA StartTransmissionTypes ==
  ASSUME TypeOK, NEW f \in DataFrame, NEW rts \in BOOLEAN, StartTransmission(f, rts)
  PROVE  /\ air' \in DataFrame \cup ControlFrame
         /\ low' \in Busy
         /\ low'.frame = f
         /\ tries' \in [Packet -> 0..(MaxSlrc + 1)]
<1>1. CASE SendData(f)
  BY <1>1, SendDataTypes
<1>2. CASE air' = [kind |-> "rts"] /\ low' = [stage |-> "cts", frame |-> f] /\ UNCHANGED tries
  <2>1. low' \in Busy /\ low'.frame = f
    BY <1>2 DEF Busy
  <2>2. air' \in ControlFrame
    BY <1>2 DEF ControlFrame
  <2> QED BY <1>2, <2>1, <2>2 DEF TypeOK
<1> QED BY <1>1, <1>2 DEF StartTransmission

LEMMA QueueTypes == ASSUME TypeInv, NEW p \in Packet, Queue(p) PROVE TypeInv'
<1>1. Owner[p] \in Txop
  BY TxopAssumption
<1>2. queue' \in [Txop -> Seq(Packet)]
  <2>1. queue \in [Txop -> Seq(Packet)]
    BY DEF TypeInv, TypeOK
  <2>2. queue' = [queue EXCEPT ![Owner[p]] = Append(@, p)] \/ queue' = queue
    BY DEF Queue
  <2>3. Append(queue[Owner[p]], p) \in Seq(Packet)
    BY <1>1, <2>1
  <2> QED BY <2>1, <2>2, <2>3
<1>3. outcome' \in [Packet -> Outcome] /\ fresh' \subseteq Packet
  BY DEF Queue, TypeInv, TypeOK, Outcome
<1>4. UNCHANGED <<current, hdr, fragment, nextSeq, slrc, ssrc, low, air, reply, rx, up,
                  asleep, tries, others, sleeps>>
  BY DEF Queue, rxVars
<1> QED BY <1>2, <1>3, <1>4 DEF TypeInv, TypeOK, InService

LEMMA NextNumber == ASSUME NEW n \in Nat PROVE GetNextSequenceNumber(n) \in 0..(SeqMod - 1)
  BY LimitAssumption DEF GetNextSequenceNumber

LEMMA AccessTypes == ASSUME TypeInv, NEW t \in Txop, NotifyAccessGranted(t) PROVE TypeInv'
<1> DEFINE Served == /\ current'[t] \in Packet
                     /\ current' \in [Txop -> Packet \cup {NoPacket}]
                     /\ hdr' \in [Txop -> Header]
                     /\ fragment' \in [Txop -> Nat]
                     /\ nextSeq' \in [Txop -> 0..(SeqMod - 1)]
                     /\ queue' \in [Txop -> Seq(Packet)]
           Sent(f, rts) == StartTransmission(f, rts) /\ f \in DataFrame /\ f.txop = t /\ rts \in BOOLEAN
<1>1. ASSUME current[t] = NoPacket PROVE Served /\ \E f, rts : Sent(f, rts)
  <2> DEFINE p == Head(queue[t])
             h == [seq |-> nextSeq[t], retry |-> FALSE]
  <2>1. /\ queue[t] # <<>>
        /\ queue' = [queue EXCEPT ![t] = Tail(@)]
        /\ current' = [current EXCEPT ![t] = p]
        /\ nextSeq' = [nextSeq EXCEPT ![t] = GetNextSequenceNumber(@)]
        /\ hdr' = [hdr EXCEPT ![t] = h]
        /\ fragment' = [fragment EXCEPT ![t] = 0]
        /\ StartTransmission(FrameOnAccess(t, p, 0, h), NeedRts(t, p))
    BY <1>1 DEF NotifyAccessGranted
  <2>2. queue[t] \in Seq(Packet) /\ nextSeq[t] \in 0..(SeqMod - 1)
    BY DEF TypeInv, TypeOK
  <2>3. p \in Packet /\ Tail(queue[t]) \in Seq(Packet)
    BY <2>1, <2>2
  <2>4. h \in Header
    BY <2>2 DEF Header
  <2>5. nextSeq' \in [Txop -> 0..(SeqMod - 1)]
    <3>1. GetNextSequenceNumber(nextSeq[t]) \in 0..(SeqMod - 1)
      BY <2>2, NextNumber
    <3>2. nextSeq \in [Txop -> 0..(SeqMod - 1)]
      BY DEF TypeInv, TypeOK
    <3> QED BY <2>1, <3>1, <3>2
  <2>6. Served
    <3> HIDE DEF p, h
    <3> QED BY <2>1, <2>3, <2>4, <2>5 DEF TypeInv, TypeOK, Header
  <2>7. FrameOnAccess(t, p, 0, h) \in DataFrame /\ FrameOnAccess(t, p, 0, h).txop = t
    <3> HIDE DEF p, h
    <3> QED BY <2>3, <2>4, FragmentIsFrame
  <2> QED BY <2>1, <2>6, <2>7 DEF NeedRts
<1>2. ASSUME current[t] # NoPacket PROVE Served /\ \E f, rts : Sent(f, rts)
  <2>1. /\ StartTransmission(FrameOnAccess(t, current[t], fragment[t], hdr[t]), NeedRts(t, current[t]))
        /\ UNCHANGED <<queue, current, nextSeq, hdr, fragment>>
    BY <1>2 DEF NotifyAccessGranted
  <2>2. /\ current[t] \in Packet /\ fragment[t] \in Nat
        /\ hdr[t] \in Header
    BY <1>2 DEF TypeInv, TypeOK, Header
  <2>3. FrameOnAccess(t, current[t], fragment[t], hdr[t]) \in DataFrame
        /\ FrameOnAccess(t, current[t], fragment[t], hdr[t]).txop = t
    BY <2>2, FragmentIsFrame
  <2> QED BY <2>1, <2>2, <2>3 DEF NeedRts, TypeInv, TypeOK, Header
<1>3. PICK f, rts : Sent(f, rts)
  BY <1>1, <1>2
<1>4. Served
  BY <1>1, <1>2
<1>5. /\ air' \in DataFrame \cup ControlFrame
      /\ low' \in Busy
      /\ low'.frame = f
      /\ tries' \in [Packet -> 0..(MaxSlrc + 1)]
  BY <1>3, StartTransmissionTypes DEF TypeInv
<1>6. UNCHANGED <<fresh, slrc, ssrc, reply, rx, up, asleep, outcome, others, sleeps>>
  BY DEF NotifyAccessGranted, rxVars
<1>7. TypeOK'
  BY <1>4, <1>5, <1>6 DEF TypeInv, TypeOK, Header, Busy
<1>8. InService'
  BY <1>3, <1>4, <1>5, TxopAssumption DEF InService, NoPacket
<1> QED BY <1>7, <1>8 DEF TypeInv

LEMMA OtherTypes == ASSUME TypeInv, NEW t \in Txop, SendToOther(t) PROVE TypeInv'
<1>1. nextSeq' \in [Txop -> 0..(SeqMod - 1)]
  <2>1. nextSeq \in [Txop -> 0..(SeqMod - 1)]
    BY DEF TypeInv, TypeOK
  <2>2. GetNextSequenceNumber(nextSeq[t]) \in 0..(SeqMod - 1)
    BY <2>1, NextNumber
  <2>3. nextSeq' = [nextSeq EXCEPT ![t] = GetNextSequenceNumber(@)]
    BY DEF SendToOther
  <2> QED BY <2>1, <2>2, <2>3
<1>2. others' \in 0..MaxOthers
  BY LimitAssumption DEF SendToOther, TypeInv, TypeOK
<1>3. UNCHANGED <<fresh, queue, current, hdr, fragment, slrc, ssrc, low, air, reply, rx, up,
                  asleep, outcome, tries, sleeps>>
  BY DEF SendToOther, rxVars
<1> QED BY <1>1, <1>2, <1>3 DEF TypeInv, TypeOK, InService

LEMMA NextTypes == ASSUME TypeInv, StartNext PROVE TypeInv'
<1> DEFINE t == low.frame.txop
           k == fragment[t] + 1
           f == GetFragmentPacket(t, current[t], k, hdr[t])
<1>1. low.stage = "next"
  BY DEF StartNext
<1>2. t \in Txop
  BY <1>1, IdleOrBusy DEF TypeInv, Idle
<1>3. current[t] \in Packet /\ fragment[t] \in Nat /\ k \in Nat /\ hdr[t] \in Header
  BY <1>1, <1>2 DEF TypeInv, TypeOK, InService, Header
<1>4. f \in DataFrame /\ f.txop = t
  <2> HIDE DEF t, k
  <2> QED BY <1>2, <1>3, FragmentIsFrame
<1>5. fragment' = [fragment EXCEPT ![t] = k] /\ SendData(f)
  BY DEF StartNext
<1>6. fragment' \in [Txop -> Nat]
  <2> HIDE DEF t, k
  <2> QED BY <1>2, <1>3, <1>5 DEF TypeInv, TypeOK
<1>7. /\ air' \in DataFrame /\ low' \in Busy /\ low'.frame = f
      /\ tries' \in [Packet -> 0..(MaxSlrc + 1)]
  <2> HIDE DEF f
  <2> QED BY <1>4, <1>5, SendDataTypes DEF TypeInv
<1>8. UNCHANGED <<fresh, queue, current, hdr, nextSeq, slrc, ssrc, reply, rx, up, asleep,
                  outcome, others, sleeps>>
  BY DEF StartNext, rxVars
<1>9. TypeOK'
  BY <1>6, <1>7, <1>8 DEF TypeInv, TypeOK, Busy
<1>10. InService'
  BY <1>1, <1>4, <1>7, <1>8 DEF TypeInv, InService
<1> QED BY <1>9, <1>10 DEF TypeInv

LEMMA LoseTypes == ASSUME TypeInv, Lose PROVE TypeInv'
  BY DEF TypeInv, TypeOK, InService, Lose, txopVars, rxVars

(* The next two of MacLow's stages keep the frame and so the packet. *)
LEMMA StageTypes ==
  ASSUME TypeInv, low.stage # "idle", NEW stage \in {"sifs", "next"},
         low' = [low EXCEPT !.stage = stage], UNCHANGED current
  PROVE  low' \in Busy /\ InService'
<1>1. low \in Busy
  BY IdleOrBusy DEF TypeInv, Idle
<1>2. low' \in Busy /\ low'.frame = low.frame
  BY <1>1 DEF Busy
<1> QED BY <1>2 DEF TypeInv, InService

LEMMA GotCtsTypes == ASSUME TypeInv, GotCts PROVE TypeInv'
<1>1. low' = [low EXCEPT !.stage = "sifs"] /\ low.stage = "cts" /\ air' = NoFrame
  BY DEF GotCts, Arrives
<1>2. UNCHANGED <<fresh, queue, current, hdr, fragment, nextSeq, slrc, reply, rx, up, asleep,
                  outcome, tries, others, sleeps>>
  BY DEF GotCts, txopVars, rxVars
<1>3. low' \in Busy /\ InService'
  BY <1>1, <1>2, StageTypes
<1>4. ssrc' \in [Tids -> 0..MaxSsrc]
  <2>1. ssrc \in [Tids -> 0..MaxSsrc] /\ 0 \in 0..MaxSsrc
    BY LimitAssumption DEF TypeInv, TypeOK
  <2>2. ssrc' = [ssrc EXCEPT ![Tid[low.frame.txop]] = 0]
    BY DEF GotCts
  <2> QED BY <2>1, <2>2
<1>5. TypeOK'
  BY <1>1, <1>2, <1>3, <1>4 DEF TypeInv, TypeOK, Busy
<1> QED BY <1>3, <1>5 DEF TypeInv

LEMMA AfterCtsTypes == ASSUME TypeInv, SendDataAfterCts PROVE TypeInv'
<1>1. low.stage = "sifs" /\ SendData(low.frame)
  BY DEF SendDataAfterCts
<1>2. low.frame \in DataFrame
  BY <1>1, IdleOrBusy DEF TypeInv, Idle
<1>3. /\ air' \in DataFrame /\ low' \in Busy /\ low'.frame = low.frame
      /\ tries' \in [Packet -> 0..(MaxSlrc + 1)]
  BY <1>1, <1>2, SendDataTypes DEF TypeInv
<1>4. UNCHANGED <<fresh, queue, current, hdr, fragment, nextSeq, slrc, ssrc, reply, rx, up, asleep,
                  outcome, others, sleeps>>
  BY DEF SendDataAfterCts, txopVars, rxVars
<1>5. TypeOK'
  BY <1>3, <1>4 DEF TypeInv, TypeOK, Busy
<1>6. InService'
  BY <1>1, <1>3, <1>4 DEF TypeInv, InService
<1> QED BY <1>5, <1>6 DEF TypeInv

(* Whatever ends a transaction leaves the packets and the counters typed. *)
LEMMA OutcomeTypes ==
  ASSUME TypeOK, NEW t, NEW o \in {"ok", "failed"},
         outcome' = [outcome EXCEPT ![current[t]] = o],
         current' = [current EXCEPT ![t] = NoPacket]
  PROVE  outcome' \in [Packet -> Outcome] /\ current' \in [Txop -> Packet \cup {NoPacket}]
  BY DEF TypeOK, Outcome

LEMMA CounterTypes ==
  ASSUME TypeOK, NEW i, NEW n \in Nat
  PROVE  /\ n <= MaxSlrc => [slrc EXCEPT ![i] = n] \in [Tids -> 0..MaxSlrc]
         /\ n <= MaxSsrc => [ssrc EXCEPT ![i] = n] \in [Tids -> 0..MaxSsrc]
<1>1. ASSUME NEW T, NEW f \in [Tids -> T], n \in T
      PROVE  [f EXCEPT ![i] = n] \in [Tids -> T]
  BY <1>1
<1>2. slrc \in [Tids -> 0..MaxSlrc] /\ ssrc \in [Tids -> 0..MaxSsrc]
  BY DEF TypeOK
<1>3. n <= MaxSlrc => n \in 0..MaxSlrc
  BY LimitAssumption
<1>4. n <= MaxSsrc => n \in 0..MaxSsrc
  BY LimitAssumption
<1> QED BY <1>1, <1>2, <1>3, <1>4

LEMMA GotAckTypes == ASSUME TypeInv, GotAck PROVE TypeInv'
<1> DEFINE t == low.frame.txop
<1>1. /\ air' = NoFrame /\ low.stage = "ack"
      /\ slrc' = [slrc EXCEPT ![Tid[t]] = 0]
  BY DEF GotAck, Arrives
<1>2. UNCHANGED <<fresh, queue, hdr, fragment, nextSeq, ssrc, reply, rx, up, asleep, tries, others, sleeps>>
  BY DEF GotAck, rxVars
<1>3. slrc' \in [Tids -> 0..MaxSlrc]
  BY <1>1, CounterTypes, LimitAssumption DEF TypeInv
<1>4. CASE /\ outcome' = [outcome EXCEPT ![current[t]] = "ok"]
           /\ current' = [current EXCEPT ![t] = NoPacket]
           /\ low' = Idle
  <2>1. outcome' \in [Packet -> Outcome] /\ current' \in [Txop -> Packet \cup {NoPacket}]
    BY <1>4, OutcomeTypes DEF TypeInv
  <2>2. TypeOK'
    BY <1>1, <1>2, <1>3, <1>4, <2>1 DEF TypeInv, TypeOK
  <2> QED BY <1>4, <2>2 DEF TypeInv, InService, Idle
<1>5. CASE low' = [low EXCEPT !.stage = "next"] /\ UNCHANGED <<outcome, current>>
  <2>1. low' \in Busy /\ InService'
    BY <1>1, <1>5, StageTypes
  <2>2. TypeOK'
    BY <1>1, <1>2, <1>3, <1>5, <2>1 DEF TypeInv, TypeOK, Busy
  <2> QED BY <2>1, <2>2 DEF TypeInv
<1> QED BY <1>4, <1>5 DEF GotAck

LEMMA CtsTimeoutTypes == ASSUME TypeInv, CtsTimeout PROVE TypeInv'
<1> DEFINE t == low.frame.txop
           i == Tid[t]
<1>1. low.stage = "cts" /\ low' = Idle
  BY DEF CtsTimeout, TimesOut
<1>2. t \in Txop /\ i \in Tids
  BY <1>1, IdleOrBusy DEF TypeInv, Idle, Tids
<1>3. UNCHANGED <<fresh, queue, hdr, fragment, nextSeq, slrc, air, reply, rx, up, asleep, tries, others, sleeps>>
  BY DEF CtsTimeout, rxVars
<1>4. ssrc[i] \in Nat
  BY <1>2 DEF TypeInv, TypeOK
<1>5. CASE /\ ssrc[i] + 1 < MaxSsrc
           /\ ssrc' = [ssrc EXCEPT ![i] = ssrc[i] + 1]
           /\ UNCHANGED <<outcome, current>>
  <2>1. ssrc' \in [Tids -> 0..MaxSsrc]
    BY <1>4, <1>5, CounterTypes, LimitAssumption DEF TypeInv
  <2>2. TypeOK'
    BY <1>1, <1>3, <1>5, <2>1 DEF TypeInv, TypeOK
  <2> QED BY <1>1, <2>2 DEF TypeInv, InService, Idle
<1>6. CASE /\ ssrc' = [ssrc EXCEPT ![i] = 0]
           /\ outcome' = [outcome EXCEPT ![current[t]] = "failed"]
           /\ current' = [current EXCEPT ![t] = NoPacket]
  <2>1. ssrc' \in [Tids -> 0..MaxSsrc]
    BY <1>6, CounterTypes, LimitAssumption DEF TypeInv
  <2>2. outcome' \in [Packet -> Outcome] /\ current' \in [Txop -> Packet \cup {NoPacket}]
    BY <1>6, OutcomeTypes DEF TypeInv
  <2>3. TypeOK'
    BY <1>1, <1>3, <2>1, <2>2 DEF TypeInv, TypeOK
  <2> QED BY <1>1, <2>3 DEF TypeInv, InService, Idle
<1> QED BY <1>5, <1>6 DEF CtsTimeout, Abandon

(* Falling asleep leaves the queues, the functions and the bound typed.    *)
LEMMA AsleepTypes ==
  ASSUME TypeOK, FallAsleep
  PROVE  /\ queue' \in [Txop -> Seq(Packet)] /\ current' \in [Txop -> Packet \cup {NoPacket}]
         /\ sleeps' \in 0..MaxSleeps /\ sleeps' > 0 /\ asleep' \subseteq {"sender", "receiver"}
<1>1. queue' \in [Txop -> Seq(Packet)]
  <2>1. ASSUME NEW t \in Back PROVE <<current[t]>> \o queue[t] \in Seq(Packet)
    <3>1. current[t] \in Packet /\ queue[t] \in Seq(Packet)
      BY <2>1 DEF TypeOK, Back
    <3> QED BY <3>1
  <2>2. queue' = [t \in Txop |-> IF t \in Back THEN <<current[t]>> \o queue[t] ELSE queue[t]]
    BY DEF FallAsleep
  <2> QED BY <2>1, <2>2 DEF TypeOK
<1>2. current' \in [Txop -> Packet \cup {NoPacket}]
  BY DEF FallAsleep
<1>3. sleeps' \in 0..MaxSleeps /\ sleeps' > 0
  BY LimitAssumption DEF FallAsleep, TypeOK
<1>4. asleep' \subseteq {"sender", "receiver"}
  BY DEF FallAsleep, TypeOK
<1> QED BY <1>1, <1>2, <1>3, <1>4

LEMMA AckTimeoutTypes == ASSUME TypeInv, NormalAckTimeout PROVE TypeInv'
<1> DEFINE t == low.frame.txop
           n == slrc[Tid[t]] + 1
<1>1. low.stage = "ack" /\ low' = Idle /\ MissedAck(t, n)
  BY DEF NormalAckTimeout, TimesOut
<1>2. t \in Txop /\ Tid[t] \in Tids
  BY <1>1, IdleOrBusy DEF TypeInv, Idle, Tids
<1>3. UNCHANGED <<fresh, fragment, nextSeq, ssrc, air, reply, rx, up, tries, others>>
  BY DEF NormalAckTimeout, rxVars
<1>4. n \in Nat
  BY <1>2 DEF TypeInv, TypeOK
<1>5. InService'
  BY <1>1 DEF InService, Idle
<1>6. CASE /\ n < MaxSlrc
           /\ slrc' = [slrc EXCEPT ![Tid[t]] = n]
           /\ hdr' = [hdr EXCEPT ![t].retry = TRUE]
           /\ UNCHANGED <<outcome, current, queue, asleep, sleeps>>
  <2>1. slrc' \in [Tids -> 0..MaxSlrc]
    BY <1>4, <1>6, CounterTypes, LimitAssumption DEF TypeInv
  <2>2. hdr' \in [Txop -> [seq : 0..(SeqMod - 1), retry : BOOLEAN]]
    BY <1>2, <1>6 DEF TypeInv, TypeOK
  <2>3. TypeOK'
    BY <1>1, <1>3, <1>6, <2>1, <2>2 DEF TypeInv, TypeOK
  <2> QED BY <1>5, <2>3 DEF TypeInv
<1>7. CASE /\ slrc' = [slrc EXCEPT ![Tid[t]] = 0]
           /\ Abandon(t)
           /\ UNCHANGED <<hdr, queue, asleep, sleeps>>
  <2>1. slrc' \in [Tids -> 0..MaxSlrc]
    BY <1>7, CounterTypes, LimitAssumption DEF TypeInv
  <2>2. outcome' \in [Packet -> Outcome] /\ current' \in [Txop -> Packet \cup {NoPacket}]
    BY <1>7, OutcomeTypes DEF TypeInv, Abandon
  <2>3. TypeOK'
    BY <1>1, <1>3, <1>7, <2>1, <2>2 DEF TypeInv, TypeOK
  <2> QED BY <1>5, <2>3 DEF TypeInv
<1>8. CASE /\ slrc' = [slrc EXCEPT ![Tid[t]] = 0]
           /\ MissedAckAsleep(t)
           /\ UNCHANGED hdr
  <2>1. slrc' \in [Tids -> 0..MaxSlrc]
    BY <1>8, CounterTypes, LimitAssumption DEF TypeInv
  <2>2. outcome' \in [Packet -> Outcome]
    <3>1. \A p \in Packet : outcome'[p] \in {"failed", "dropped", outcome[p]}
      BY <1>8 DEF MissedAckAsleep
    <3>2. outcome' = [p \in Packet |-> outcome'[p]]
      BY <1>8 DEF MissedAckAsleep
    <3> QED BY <3>1, <3>2 DEF TypeInv, TypeOK, Outcome
  <2>3. /\ queue' \in [Txop -> Seq(Packet)] /\ current' \in [Txop -> Packet \cup {NoPacket}]
        /\ sleeps' \in 0..MaxSleeps /\ asleep' \subseteq {"sender", "receiver"}
    BY <1>8, AsleepTypes DEF MissedAckAsleep, TypeInv
  <2>4. TypeOK'
    BY <1>1, <1>3, <1>8, <2>1, <2>2, <2>3 DEF TypeInv, TypeOK
  <2> QED BY <1>5, <2>4 DEF TypeInv
<1> HIDE DEF t, n
<1> QED BY <1>1, <1>6, <1>7, <1>8 DEF MissedAck, StayAwake

LEMMA ReceiveRtsTypes == ASSUME TypeInv, ReceiveRts PROVE TypeInv'
  BY DEF TypeInv, TypeOK, InService, ReceiveRts, txopVars

LEMMA ReceiveDataTypes == ASSUME TypeInv, ReceiveData PROVE TypeInv'
<1> DEFINE t == air.txop
           parts == Append(rx[t].parts, air.body)
           Status == [last : SeqControl, parts : Seq(Fragment)]
<1>1. t \in Txop /\ air.body \in Fragment /\ air.control \in SeqControl
  <2>1. air \in DataFrame
    BY DEF ReceiveData
  <2> QED BY <2>1 DEF DataFrame
<1>2. rx \in [Txop -> Status] /\ up \in [Txop -> Seq(Seq(Fragment))]
  BY DEF TypeInv, TypeOK
<1>3. rx[t].parts \in Seq(Fragment) /\ parts \in Seq(Fragment) /\ up[t] \in Seq(Seq(Fragment))
  BY <1>1, <1>2
<1>4. RxMiddleReceive(air)
  BY DEF ReceiveData
<1>5. rx' \in [Txop -> Status] /\ up' \in [Txop -> Seq(Seq(Fragment))]
  <2>1. ASSUME NEW s \in Seq(Fragment)
        PROVE  [rx EXCEPT ![t] = [last |-> air.control, parts |-> s]] \in [Txop -> Status]
    BY <1>1, <1>2
  <2>2. <<>> \in Seq(Fragment) /\ Append(up[t], parts) \in Seq(Seq(Fragment))
    BY <1>3
  <2>3. \/ /\ rx' = [rx EXCEPT ![t] = [last |-> air.control, parts |-> parts]]
           /\ UNCHANGED up
        \/ /\ rx' = [rx EXCEPT ![t] = [last |-> air.control, parts |-> <<>>]]
           /\ up' = [up EXCEPT ![t] = Append(@, parts)]
        \/ UNCHANGED <<rx, up>>
    BY <1>4 DEF RxMiddleReceive
  <2> HIDE DEF parts, t, Status
  <2> QED BY <1>1, <1>2, <1>3, <2>1, <2>2, <2>3
<1>6. /\ air' = NoFrame /\ reply' = "ack"
      /\ UNCHANGED <<fresh, queue, current, hdr, fragment, nextSeq, slrc, ssrc, low, asleep, outcome,
                     tries, others, sleeps>>
  BY DEF ReceiveData, txopVars
<1> QED BY <1>5, <1>6 DEF TypeInv, TypeOK, InService

LEMMA SendReplyTypes == ASSUME TypeInv, SendReply PROVE TypeInv'
<1>1. air' \in ControlFrame /\ reply' = "none"
  BY DEF SendReply, TypeInv, TypeOK, ControlFrame
<1>2. UNCHANGED <<fresh, queue, current, hdr, fragment, nextSeq, slrc, ssrc, low, rx, up, asleep,
                  outcome, tries, others, sleeps>>
  BY DEF SendReply, txopVars
<1> QED BY <1>1, <1>2 DEF TypeInv, TypeOK, InService

LEMMA SleepTypes ==
  ASSUME TypeInv, ReceiverSleeps \/ SenderSleeps \/ \E side \in {"sender", "receiver"} : WakeUp(side)
  PROVE  TypeInv'
<1>1. CASE ReceiverSleeps
  BY <1>1 DEF ReceiverSleeps, TypeInv, TypeOK, InService, txopVars
<1>2. CASE SenderSleeps
  <2>1. outcome' \in [Packet -> Outcome]
    BY <1>2 DEF SenderSleeps, TypeInv, TypeOK, Outcome
  <2>2. /\ low' = Idle
        /\ UNCHANGED <<fresh, hdr, fragment, nextSeq, slrc, ssrc, air, reply, rx, up, tries, others>>
    BY <1>2 DEF SenderSleeps, rxVars
  <2>3. /\ queue' \in [Txop -> Seq(Packet)] /\ current' \in [Txop -> Packet \cup {NoPacket}]
        /\ sleeps' \in 0..MaxSleeps /\ asleep' \subseteq {"sender", "receiver"}
    BY <1>2, AsleepTypes DEF SenderSleeps, TypeInv
  <2>4. TypeOK'
    BY <2>1, <2>2, <2>3 DEF TypeInv, TypeOK
  <2> QED BY <2>2, <2>4 DEF TypeInv, InService, Idle
<1>3. CASE \E side \in {"sender", "receiver"} : WakeUp(side)
  BY <1>3 DEF WakeUp, TypeInv, TypeOK, InService, txopVars, rxVars
<1> QED BY <1>1, <1>2, <1>3

LEMMA InitTypes == Init => TypeInv
<1> SUFFICES ASSUME Init PROVE TypeInv
  OBVIOUS
<1>1. NoControl \in SeqControl
  BY LimitAssumption DEF NoControl, SeqControl
<1>2. 0 \in 0..MaxSlrc /\ 0 \in 0..MaxSsrc /\ 0 \in 0..(SeqMod - 1) /\ 0 \in 0..(MaxSlrc + 1)
      /\ 0 \in 0..MaxOthers /\ 0 \in 0..MaxSleeps
  BY LimitAssumption
<1>3. rx \in [Txop -> [last : SeqControl, parts : Seq(Fragment)]]
  BY <1>1 DEF Init
<1>4. /\ queue \in [Txop -> Seq(Packet)] /\ up \in [Txop -> Seq(Seq(Fragment))]
      /\ hdr \in [Txop -> [seq : 0..(SeqMod - 1), retry : BOOLEAN]]
  BY <1>2 DEF Init
<1> QED BY <1>2, <1>3, <1>4 DEF Init, TypeInv, TypeOK, InService, Idle, Outcome

LEMMA TypeStep == TypeInv /\ [Next]_vars => TypeInv'
<1> SUFFICES ASSUME TypeInv, [Next]_vars PROVE TypeInv'
  OBVIOUS
<1>1. CASE UNCHANGED vars
  BY <1>1 DEF vars, txopVars, rxVars, TypeInv, TypeOK, InService
<1>2. CASE \E p \in Packet : Queue(p)
  BY <1>2, QueueTypes
<1>3. CASE \E t \in Txop : NotifyAccessGranted(t) \/ SendToOther(t)
  BY <1>3, AccessTypes, OtherTypes
<1>4. CASE Transaction
  BY <1>4, GotCtsTypes, AfterCtsTypes, GotAckTypes, NextTypes, CtsTimeoutTypes, AckTimeoutTypes DEF Transaction
<1>5. CASE Answer \/ Lose
  BY <1>5, ReceiveRtsTypes, ReceiveDataTypes, SendReplyTypes, LoseTypes DEF Answer
<1>6. CASE ReceiverSleeps \/ SenderSleeps \/ \E side \in {"sender", "receiver"} : WakeUp(side)
  BY <1>6, SleepTypes
<1> QED BY <1>1, <1>2, <1>3, <1>4, <1>5, <1>6 DEF Next

(* The variables of both stations keep their types: no retry counter       *)
(* passes its limit, and every frame on its way is one the code can build. *)
THEOREM TypeCorrect == Spec => []TypeOK
<1>1. TypeInv => TypeOK
  BY DEF TypeInv
<1> QED BY <1>1, InitTypes, TypeStep, PTL DEF Spec

-----------------------------------------------------------------------------
(* Queues as sets of packets.                                              *)

Elements(s) == {s[n] : n \in DOMAIN s}
Distinct(s) == \A m, n \in DOMAIN s : s[m] = s[n] => m = n

LEMMA Appended ==
  ASSUME NEW s \in Seq(Packet), NEW p \in Packet
  PROVE  /\ Elements(Append(s, p)) = Elements(s) \cup {p}
         /\ Distinct(s) /\ p \notin Elements(s) => Distinct(Append(s, p))
<1> DEFINE r == Append(s, p)
<1>1. /\ Len(s) \in Nat /\ DOMAIN s = 1..Len(s) /\ DOMAIN r = 1..(Len(s) + 1)
      /\ r[Len(s) + 1] = p /\ \A n \in 1..Len(s) : r[n] = s[n]
  OBVIOUS
<1> HIDE DEF r
<1>2. \A n \in DOMAIN r : n = Len(s) + 1 \/ n \in DOMAIN s
  BY <1>1
<1>3. DOMAIN s \subseteq DOMAIN r /\ Len(s) + 1 \in DOMAIN r
  BY <1>1
<1>4. Elements(r) = Elements(s) \cup {p}
  BY <1>1, <1>2, <1>3 DEF Elements
<1>5. ASSUME Distinct(s), p \notin Elements(s) PROVE Distinct(r)
  BY <1>1, <1>2, <1>5 DEF Elements, Distinct
<1> QED BY <1>4, <1>5 DEF r

LEMMA Popped ==
  ASSUME NEW s \in Seq(Packet), s # <<>>
  PROVE  /\ Elements(s) = Elements(Tail(s)) \cup {Head(s)}
         /\ Distinct(s) => Distinct(Tail(s)) /\ Head(s) \notin Elements(Tail(s))
<1> DEFINE r == Tail(s)
<1>1. /\ Len(s) \in Nat \ {0} /\ DOMAIN s = 1..Len(s) /\ DOMAIN r = 1..(Len(s) - 1)
      /\ Head(s) = s[1] /\ \A n \in 1..(Len(s) - 1) : r[n] = s[n + 1]
  OBVIOUS
<1> HIDE DEF r
<1>2. \A n \in DOMAIN r : n + 1 \in DOMAIN s /\ r[n] = s[n + 1] /\ n + 1 # 1
  BY <1>1
<1>3. \A n \in DOMAIN s : n = 1 \/ (n - 1 \in DOMAIN r /\ r[n - 1] = s[n])
  <2> SUFFICES ASSUME NEW n \in DOMAIN s, n # 1 PROVE n - 1 \in DOMAIN r /\ r[n - 1] = s[n]
    OBVIOUS
  <2>1. n - 1 \in 1..(Len(s) - 1) /\ (n - 1) + 1 = n
    BY <1>1
  <2> QED BY <1>1, <2>1
<1>4. 1 \in DOMAIN s
  BY <1>1
<1>5. Elements(s) = Elements(r) \cup {s[1]}
  BY <1>2, <1>3, <1>4 DEF Elements
<1>6. ASSUME Distinct(s) PROVE Distinct(r) /\ s[1] \notin Elements(r)
  <2>1. s[1] \notin Elements(r)
    BY <1>2, <1>4, <1>6 DEF Elements, Distinct
  <2>2. Distinct(r)
    BY <1>1, <1>2, <1>6 DEF Distinct
  <2> QED BY <2>1, <2>2
<1> QED BY <1>1, <1>5, <1>6 DEF r

LEMMA PutBack ==
  ASSUME NEW s \in Seq(Packet), NEW p \in Packet
  PROVE  /\ Elements(<<p>> \o s) = Elements(s) \cup {p}
         /\ Distinct(s) /\ p \notin Elements(s) => Distinct(<<p>> \o s)
<1> DEFINE r == <<p>> \o s
<1>1. /\ r \in Seq(Packet) /\ r # <<>> /\ Head(r) = p /\ Tail(r) = s
      /\ Len(s) \in Nat /\ DOMAIN s = 1..Len(s) /\ DOMAIN r = 1..(Len(s) + 1)
      /\ r[1] = p /\ \A n \in 1..Len(s) : r[n + 1] = s[n]
  OBVIOUS
<1> HIDE DEF r
<1>2. Elements(r) = Elements(s) \cup {p}
  BY <1>1, Popped
<1>3. ASSUME Distinct(s), p \notin Elements(s) PROVE Distinct(r)
  <2>1. \A n \in DOMAIN r : n = 1 \/ (n - 1 \in DOMAIN s /\ r[n] = s[n - 1])
    <3> SUFFICES ASSUME NEW n \in DOMAIN r, n # 1 PROVE n - 1 \in DOMAIN s /\ r[n] = s[n - 1]
      OBVIOUS
    <3>1. n - 1 \in 1..Len(s) /\ (n - 1) + 1 = n
      BY <1>1
    <3> QED BY <1>1, <3>1
  <2>2. \A n \in DOMAIN r : n # 1 => r[n] # p
    BY <1>3, <2>1 DEF Elements
  <2> SUFFICES ASSUME NEW m \in DOMAIN r, NEW n \in DOMAIN r, r[m] = r[n] PROVE m = n
    BY DEF Distinct
  <2>3. m \in Nat /\ n \in Nat
    BY <1>1
  <2>4. CASE m = 1 \/ n = 1
    BY <1>1, <2>2, <2>4
  <2>5. CASE m # 1 /\ n # 1
    <3>1. m - 1 = n - 1
      BY <1>3, <2>1, <2>5 DEF Distinct
    <3> QED BY <2>3, <3>1
  <2> QED BY <2>4, <2>5
<1> QED BY <1>2, <1>3 DEF r

-----------------------------------------------------------------------------
(* Where the packets are.                                                  *)

Waiting(t) == Elements(queue[t])

(* A packet that was queued is at its owner only, *)
Owned == \A t \in Txop : /\ current[t] # NoPacket => Owner[current[t]] = t
                         /\ \A q \in Waiting(t) : Owner[q] = t
(* in one place of its queue, *)
Once  == \A t \in Txop : Distinct(queue[t])
(* and not in two of the three kinds of place. *)
Apart == \A t \in Txop : /\ current[t] \notin fresh /\ current[t] \notin Waiting(t)
                         /\ Waiting(t) \cap fresh = {}
(* It is in one of them as long as its outcome is pending, and afterwards  *)
(* only if it was reported as failed while the station fell asleep.        *)
Placed(p)   == p \in fresh \/ current[Owner[p]] = p \/ p \in Waiting(Owner[p])
Leftover(p) == /\ outcome[p] = "failed" /\ Owner[p] \in Qos
               /\ sleeps > 0 /\ "sender" \in MaySleep
Fate(p)     == /\ outcome[p] = "pending" => Placed(p)
               /\ Placed(p) => outcome[p] = "pending" \/ Leftover(p)
Reported    == \A p \in Packet : Fate(p)

Placement == Owned /\ Once /\ Apart /\ Reported

LEMMA PlaceTypes ==
  ASSUME TypeOK
  PROVE  /\ \A t \in Txop : queue[t] \in Seq(Packet) /\ Waiting(t) \subseteq Packet
         /\ \A t \in Txop : current[t] \in Packet \cup {NoPacket}
         /\ NoPacket \notin Packet /\ \A p \in Packet : Owner[p] \in Txop
         /\ fresh \subseteq Packet /\ DOMAIN outcome = Packet
<1>1. queue \in [Txop -> Seq(Packet)]
  BY DEF TypeOK
<1>2. \A t \in Txop : Waiting(t) \subseteq Packet
  <2> SUFFICES ASSUME NEW t \in Txop PROVE Waiting(t) \subseteq Packet
    OBVIOUS
  <2>1. queue[t] \in Seq(Packet)
    BY <1>1
  <2>2. \A n \in DOMAIN queue[t] : queue[t][n] \in Packet
    BY <2>1
  <2> QED BY <2>2 DEF Waiting, Elements
<1> QED BY <1>1, <1>2, TxopAssumption DEF TypeOK, NoPacket

LEMMA Unmoved ==
  ASSUME Placement, UNCHANGED <<fresh, queue, current, outcome, sleeps>>
  PROVE  Placement'
  BY DEF Placement, Owned, Once, Apart, Reported, Fate, Leftover, Placed, Waiting

LEMMA QueuePlaces == ASSUME TypeOK, Placement, NEW p \in Packet, Queue(p) PROVE Placement'
<1> DEFINE t == Owner[p]
<1>1. p \in fresh /\ fresh' = fresh \ {p} /\ UNCHANGED <<current, sleeps>>
  BY DEF Queue
<1>2. t \in Txop /\ queue[t] \in Seq(Packet) /\ p # NoPacket
  BY PlaceTypes
<1>3. p \notin Waiting(t) /\ current[t] # p
  BY <1>1, <1>2 DEF Placement, Apart
<1>4. CASE /\ queue' = [queue EXCEPT ![t] = Append(@, p)]
           /\ UNCHANGED outcome
  <2>1. Waiting(t)' = Waiting(t) \cup {p} /\ (Distinct(queue[t]) => Distinct(queue'[t]))
    BY <1>2, <1>3, <1>4, Appended DEF Waiting, TypeOK
  <2>2. \A u \in Txop \ {t} : queue'[u] = queue[u] /\ Waiting(u)' = Waiting(u)
    BY <1>4 DEF TypeOK, Waiting
  <2>3. Once'
    BY <2>1, <2>2 DEF Placement, Once
  <2>4. Owned'
    BY <1>1, <2>1, <2>2 DEF Placement, Owned
  <2>5. Apart'
    <3>1. \A u \in Txop : current[u] # p
      BY <1>1 DEF Placement, Apart
    <3> QED BY <1>1, <2>1, <2>2, <3>1 DEF Placement, Apart
  <2>6. Reported'
    <3> SUFFICES ASSUME NEW q \in Packet PROVE Fate(q)'
      BY DEF Reported
    <3>1. Placed(q)' <=> Placed(q)
      BY <1>1, <2>1, <2>2, PlaceTypes DEF Placed
    <3> QED BY <1>1, <1>4, <3>1 DEF Placement, Reported, Fate, Leftover
  <2> QED BY <2>3, <2>4, <2>5, <2>6 DEF Placement
<1>5. CASE /\ outcome' = [outcome EXCEPT ![p] = "dropped"]
           /\ UNCHANGED queue
  <2>1. \A u \in Txop : Waiting(u)' = Waiting(u)
    BY <1>5 DEF Waiting
  <2>2. Owned' /\ Once' /\ Apart'
    BY <1>1, <1>5, <2>1 DEF Placement, Owned, Once, Apart
  <2>3. Reported'
    <3> SUFFICES ASSUME NEW q \in Packet PROVE Fate(q)'
      BY DEF Reported
    <3>1. CASE q = p
      <4>1. outcome'[q] = "dropped"
        BY <1>5, <3>1 DEF TypeOK
      <4>2. ~Placed(q)'
        BY <1>1, <1>2, <1>3, <2>1, <3>1 DEF Placed
      <4> QED BY <4>1, <4>2 DEF Fate
    <3>2. CASE q # p
      <4>1. outcome'[q] = outcome[q]
        BY <1>5, <3>2 DEF TypeOK
      <4>2. Placed(q)' <=> Placed(q)
        BY <1>1, <2>1, <3>2, PlaceTypes DEF Placed
      <4> QED BY <1>1, <4>1, <4>2 DEF Placement, Reported, Fate, Leftover
    <3> QED BY <3>1, <3>2
  <2> QED BY <2>2, <2>3 DEF Placement
<1> QED BY <1>4, <1>5 DEF Queue

(* The head of a queue becomes the current packet. *)
LEMMA ServePlaces ==
  ASSUME TypeOK, Placement, NEW t \in Txop, current[t] = NoPacket, queue[t] # <<>>,
         queue' = [queue EXCEPT ![t] = Tail(@)],
         current' = [current EXCEPT ![t] = Head(queue[t])],
         UNCHANGED <<fresh, outcome, sleeps>>
  PROVE  Placement'
<1> DEFINE p == Head(queue[t])
<1>1. queue[t] \in Seq(Packet) /\ Waiting(t) \subseteq Packet
  BY PlaceTypes
<1>2. /\ Waiting(t) = Waiting(t)' \cup {p}
      /\ Distinct(queue[t]) => Distinct(queue'[t]) /\ p \notin Waiting(t)'
  BY <1>1, Popped DEF Waiting, TypeOK
<1>3. current'[t] = p /\ p \in Packet /\ p # NoPacket
  BY <1>1, <1>2, PlaceTypes DEF TypeOK
<1>4. \A u \in Txop \ {t} : /\ queue'[u] = queue[u] /\ Waiting(u)' = Waiting(u)
                            /\ current'[u] = current[u]
  BY DEF TypeOK, Waiting
<1> HIDE DEF p
<1>5. Owned'
  <2>1. \A u \in Txop : /\ current[u] # NoPacket => Owner[current[u]] = u
                        /\ \A q \in Waiting(u) : Owner[q] = u
    BY DEF Placement, Owned
  <2>2. Owner[p] = t
    BY <1>2, <2>1
  <2>3. \A q \in Waiting(t)' : Owner[q] = t
    BY <1>2, <2>1
  <2>4. \A u \in Txop \ {t} : /\ current'[u] # NoPacket => Owner[current'[u]] = u
                              /\ \A q \in Waiting(u)' : Owner[q] = u
    BY <1>4, <2>1
  <2> QED BY <1>3, <2>2, <2>3, <2>4 DEF Owned
<1>6. Once'
  BY <1>2, <1>4 DEF Placement, Once
<1>7. Apart'
  BY <1>2, <1>3, <1>4 DEF Placement, Apart, Once
<1>8. Reported'
  <2> SUFFICES ASSUME NEW q \in Packet PROVE Fate(q)'
    BY DEF Reported
  <2>1. Placed(q)' <=> Placed(q)
    <3>1. CASE Owner[q] = t
      BY <1>2, <1>3, <3>1, PlaceTypes DEF Placed
    <3>2. CASE Owner[q] # t
      BY <1>4, <3>2, PlaceTypes DEF Placed
    <3> QED BY <3>1, <3>2
  <2> QED BY <2>1 DEF Placement, Reported, Fate, Leftover
<1> QED BY <1>5, <1>6, <1>7, <1>8 DEF Placement

(* A packet whose fate is reported is current no more. *)
LEMMA EndPlaces ==
  ASSUME TypeOK, Placement, NEW t \in Txop, current[t] # NoPacket, NEW o \in {"ok", "failed"},
         outcome' = [outcome EXCEPT ![current[t]] = o],
         current' = [current EXCEPT ![t] = NoPacket],
         UNCHANGED <<fresh, queue, sleeps>>
  PROVE  Placement'
<1> DEFINE p == current[t]
<1>1. p \in Packet /\ Owner[p] = t /\ p \notin fresh /\ p \notin Waiting(t)
  BY PlaceTypes DEF Placement, Owned, Apart
<1>2. \A u \in Txop : Waiting(u)' = Waiting(u) /\ (u # t => current'[u] = current[u])
  BY DEF Waiting, TypeOK
<1>3. current'[t] = NoPacket
  BY DEF TypeOK
<1>4. Owned' /\ Once'
  <2>1. Once'
    BY DEF Placement, Once
  <2>2. Owned'
    <3> SUFFICES ASSUME NEW u \in Txop
                 PROVE  /\ current'[u] # NoPacket => Owner[current'[u]] = u
                        /\ \A q \in Waiting(u)' : Owner[q] = u
      BY DEF Owned
    <3>1. Waiting(u)' = Waiting(u) /\ (current'[u] = NoPacket \/ current'[u] = current[u])
      BY <1>2, <1>3
    <3>2. /\ current[u] # NoPacket => Owner[current[u]] = u
          /\ \A q \in Waiting(u) : Owner[q] = u
      BY DEF Placement, Owned
    <3> QED BY <3>1, <3>2
  <2> QED BY <2>1, <2>2
<1>5. Apart'
  BY <1>2, <1>3, PlaceTypes DEF Placement, Apart
<1>6. Reported'
  <2> SUFFICES ASSUME NEW q \in Packet PROVE Fate(q)'
    BY DEF Reported
  <2>1. CASE q = p
    <3>1. outcome'[q] = o
      BY <1>1, <2>1 DEF TypeOK
    <3>2. ~Placed(q)'
      BY <1>1, <1>2, <1>3, <2>1 DEF Placed
    <3> QED BY <3>1, <3>2 DEF Fate
  <2>2. CASE q # p
    <3>1. outcome'[q] = outcome[q]
      BY <2>2 DEF TypeOK
    <3>2. Placed(q)' <=> Placed(q)
      <4>1. CASE Owner[q] = t
        BY <1>2, <1>3, <2>2, <4>1, PlaceTypes DEF Placed
      <4>2. CASE Owner[q] # t
        BY <1>2, <4>2, PlaceTypes DEF Placed
      <4> QED BY <4>1, <4>2
    <3> QED BY <3>1, <3>2 DEF Placement, Reported, Fate, Leftover
  <2> QED BY <2>1, <2>2
<1> QED BY <1>4, <1>5, <1>6 DEF Placement

(* Sleep moves every current packet to the front of its queue, or drops it. *)
(* Meanwhile a packet of an EdcaTxopN may be reported as failed.            *)
LEMMA SleepPlaces ==
  ASSUME TypeOK, Placement, FallAsleep, UNCHANGED fresh,
         \A p \in Gone \cap Packet : outcome'[p] # "pending",
         \A p \in Packet \ Gone : \/ outcome'[p] = outcome[p]
                                  \/ outcome'[p] = "failed" /\ Owner[p] \in Qos
  PROVE  Placement'
<1>1. /\ queue' = [t \in Txop |-> IF t \in Back THEN <<current[t]>> \o queue[t] ELSE queue[t]]
      /\ current' = [t \in Txop |-> NoPacket]
      /\ sleeps' > 0 /\ "sender" \in MaySleep
  BY AsleepTypes DEF FallAsleep
<1>2. \A t \in Back : t \in Txop /\ current[t] \in Packet /\ current[t] # NoPacket
  BY PlaceTypes DEF Back
<1>3. \A t \in Txop \ Back : queue'[t] = queue[t] /\ Waiting(t)' = Waiting(t)
  BY <1>1 DEF Waiting
<1>4. \A t \in Back : /\ Waiting(t)' = Waiting(t) \cup {current[t]}
                      /\ Distinct(queue'[t])
  <2> SUFFICES ASSUME NEW t \in Back
               PROVE  Waiting(t)' = Waiting(t) \cup {current[t]} /\ Distinct(queue'[t])
    OBVIOUS
  <2>1. queue'[t] = <<current[t]>> \o queue[t]
    BY <1>1, <1>2
  <2>2. queue[t] \in Seq(Packet) /\ current[t] \in Packet
    BY <1>2, PlaceTypes
  <2>3. Distinct(queue[t]) /\ current[t] \notin Elements(queue[t])
    BY <1>2 DEF Placement, Once, Apart, Waiting
  <2> QED BY <2>1, <2>2, <2>3, PutBack DEF Waiting
<1>5. \A t \in Txop : current'[t] = NoPacket
  BY <1>1
<1>6. \A p \in Packet : p \in Gone <=> current[Owner[p]] = p /\ Owner[p] \notin Back
  <2> SUFFICES ASSUME NEW p \in Packet
               PROVE  p \in Gone <=> current[Owner[p]] = p /\ Owner[p] \notin Back
    OBVIOUS
  <2>1. \A t \in Txop : current[t] = p => t = Owner[p]
    BY PlaceTypes DEF Placement, Owned
  <2>2. Owner[p] \in Txop
    BY PlaceTypes
  <2> QED BY <1>2, <2>1, <2>2 DEF Gone
<1>7. Owned'
  BY <1>2, <1>3, <1>4, <1>5 DEF Placement, Owned
<1>8. Once'
  BY <1>2, <1>3, <1>4 DEF Placement, Once
<1>9. Apart'
  <2>1. \A t \in Txop : Waiting(t)' \cap fresh = {}
    BY <1>2, <1>3, <1>4 DEF Placement, Apart
  <2>2. \A t \in Txop : NoPacket \notin fresh /\ NoPacket \notin Waiting(t)'
    BY <1>2, <1>3, <1>4, PlaceTypes
  <2> QED BY <1>5, <2>1, <2>2 DEF Apart
<1>10. Reported'
  <2> SUFFICES ASSUME NEW p \in Packet PROVE Fate(p)'
    BY DEF Reported
  <2>1. Owner[p] \in Txop /\ p # NoPacket /\ current'[Owner[p]] # p
    BY <1>5, PlaceTypes
  <2>2. Fate(p)
    BY DEF Placement, Reported
  <2>3. CASE p \in Gone
    <3>1. p \notin fresh /\ p \notin Waiting(Owner[p]) /\ Waiting(Owner[p])' = Waiting(Owner[p])
      BY <1>3, <1>6, <2>1, <2>3 DEF Placement, Apart
    <3>2. outcome'[p] # "pending" /\ ~Placed(p)'
      BY <2>1, <2>3, <3>1 DEF Placed
    <3> QED BY <3>2 DEF Fate
  <2>4. CASE p \notin Gone
    <3>1. Placed(p)' <=> Placed(p)
      <4>1. CASE Owner[p] \in Back
        BY <1>4, <2>1, <4>1 DEF Placed
      <4>2. CASE Owner[p] \notin Back
        BY <1>3, <1>6, <2>1, <2>4, <4>2 DEF Placed
      <4> QED BY <4>1, <4>2
    <3>2. outcome'[p] = outcome[p] \/ (outcome'[p] = "failed" /\ Owner[p] \in Qos)
      BY <2>4
    <3> QED BY <1>1, <2>2, <3>1, <3>2 DEF Fate, Leftover
  <2> QED BY <2>3, <2>4
<1> QED BY <1>7, <1>8, <1>9, <1>10 DEF Placement

(* What the last try of an EdcaTxopN tells while it falls asleep.           *)
LEMMA MissedAsleep ==
  ASSUME TypeOK, Placement, NEW t \in Txop, current[t] # NoPacket, MissedAckAsleep(t)
  PROVE  /\ FallAsleep
         /\ \A p \in Gone \cap Packet : outcome'[p] # "pending"
         /\ \A p \in Packet \ Gone : \/ outcome'[p] = outcome[p]
                                     \/ outcome'[p] = "failed" /\ Owner[p] \in Qos
<1>1. t \in Qos /\ FallAsleep
  BY DEF MissedAckAsleep
<1>2. \A p \in Packet : p = current[t] => outcome'[p] = "failed" /\ Owner[p] \in Qos
  BY <1>1 DEF MissedAckAsleep, Placement, Owned
<1>3. \A p \in Packet : p # current[t] => outcome'[p] = IF p \in Gone THEN "dropped" ELSE outcome[p]
  BY DEF MissedAckAsleep
<1> QED BY <1>1, <1>2, <1>3

LEMMA PlacementStep == TypeInv /\ Placement /\ [Next]_vars => Placement'
<1> SUFFICES ASSUME TypeInv, Placement, [Next]_vars PROVE Placement'
  OBVIOUS
<1> DEFINE Still == UNCHANGED <<fresh, queue, current, outcome, sleeps>>
           t == low.frame.txop
<1>1. TypeOK
  BY DEF TypeInv
<1>2. CASE \E p \in Packet : Queue(p)
  BY <1>1, <1>2, QueuePlaces
<1>3. ASSUME NEW u \in Txop, NotifyAccessGranted(u) PROVE Placement'
  <2>1. UNCHANGED <<fresh, outcome, sleeps>>
    BY <1>3 DEF NotifyAccessGranted
  <2>2. CASE current[u] = NoPacket
    <3>1. /\ queue[u] # <<>> /\ queue' = [queue EXCEPT ![u] = Tail(@)]
          /\ current' = [current EXCEPT ![u] = Head(queue[u])]
      BY <1>3, <2>2 DEF NotifyAccessGranted
    <3> QED BY <1>1, <2>1, <2>2, <3>1, ServePlaces
  <2>3. CASE current[u] # NoPacket
    <3>1. Still
      BY <1>3, <2>1, <2>3 DEF NotifyAccessGranted
    <3> QED BY <3>1, Unmoved
  <2> QED BY <2>2, <2>3
<1>4. ASSUME GotAck \/ CtsTimeout \/ NormalAckTimeout PROVE Placement'
  <2>1. low.stage # "idle"
    BY <1>4 DEF GotAck, CtsTimeout, NormalAckTimeout, Arrives, TimesOut
  <2>2. t \in Txop /\ current[t] # NoPacket
    BY <2>1, IdleOrBusy DEF TypeInv, InService, Idle
  <2>3. UNCHANGED fresh
    BY <1>4 DEF GotAck, CtsTimeout, NormalAckTimeout
  <2>4. \/ UNCHANGED <<queue, sleeps, outcome, current>>
        \/ /\ UNCHANGED <<queue, sleeps>>
           /\ \E o \in {"ok", "failed"} : /\ outcome' = [outcome EXCEPT ![current[t]] = o]
                                          /\ current' = [current EXCEPT ![t] = NoPacket]
        \/ MissedAckAsleep(t)
    <3>1. CASE GotAck
      BY <3>1 DEF GotAck
    <3>2. CASE CtsTimeout
      BY <3>2 DEF CtsTimeout, Abandon
    <3>3. CASE NormalAckTimeout
      <4>1. MissedAck(t, slrc[Tid[t]] + 1)
        BY <3>3 DEF NormalAckTimeout
      <4> HIDE DEF t
      <4> QED BY <4>1 DEF MissedAck, StayAwake, Abandon
    <3> QED BY <1>4, <3>1, <3>2, <3>3
  <2> HIDE DEF t
  <2>5. CASE MissedAckAsleep(t)
    BY <1>1, <2>2, <2>3, <2>5, MissedAsleep, SleepPlaces
  <2> QED BY <1>1, <2>2, <2>3, <2>4, <2>5, EndPlaces, Unmoved
<1>5. CASE SenderSleeps
  <2>1. \A p \in Packet : outcome'[p] = IF p \in Gone THEN "dropped" ELSE outcome[p]
    BY <1>5 DEF SenderSleeps
  <2>2. FallAsleep /\ UNCHANGED fresh
    BY <1>5 DEF SenderSleeps
  <2> QED BY <1>1, <2>1, <2>2, SleepPlaces
<1>6. CASE UNCHANGED vars
  BY <1>6, Unmoved DEF vars, txopVars
<1>7. CASE \E u \in Txop : SendToOther(u)
  BY <1>7, Unmoved DEF SendToOther
<1>8. CASE GotCts \/ SendDataAfterCts \/ StartNext
  BY <1>8, Unmoved DEF GotCts, SendDataAfterCts, StartNext, txopVars
<1>9. CASE Answer \/ Lose
  BY <1>9, Unmoved DEF Answer, ReceiveRts, ReceiveData, SendReply, Lose, txopVars
<1>10. CASE ReceiverSleeps \/ \E side \in {"sender", "receiver"} : WakeUp(side)
  BY <1>10, Unmoved DEF ReceiverSleeps, WakeUp, txopVars
<1> QED BY <1>2, <1>3, <1>4, <1>5, <1>6, <1>7, <1>8, <1>9, <1>10 DEF Next, Transaction

LEMMA InitPlaces == Init => Placement
<1> SUFFICES ASSUME Init PROVE Placement
  OBVIOUS
<1>1. \A t \in Txop : queue[t] = <<>> /\ Waiting(t) = {} /\ Distinct(queue[t])
  BY DEF Init, Waiting, Elements, Distinct
<1>2. NoPacket \notin Packet
  BY TxopAssumption DEF NoPacket
<1> QED BY <1>1, <1>2 DEF Init, Placement, Owned, Once, Apart, Reported, Fate, Placed

(* A queue of different packets is no longer than there are packets.       *)
LEMMA QueueBound ==
  ASSUME NEW s \in Seq(Packet), Distinct(s)
  PROVE  Cardinality(Packet) \in Nat /\ Len(s) <= Cardinality(Packet)
<1>1. IsFiniteSet(Packet)
  BY TxopAssumption
<1>2. s \in Injection(1..Len(s), Packet) /\ Len(s) \in Nat
  BY DEF Distinct, Injection, IsInjective
<1>3. Cardinality(1..Len(s)) <= Cardinality(Packet)
  BY <1>1, <1>2, FS_Injection
<1>4. Cardinality(1..Len(s)) = Len(s)
  <2>1. 1 \in Int /\ Len(s) \in Int
    BY <1>2
  <2>2. Cardinality(1..Len(s)) = IF 1 > Len(s) THEN 0 ELSE Len(s) - 1 + 1
    BY <2>1, FS_Interval, Zenon
  <2> QED BY <1>2, <2>2
<1>5. Cardinality(Packet) \in Nat
  BY <1>1, FS_CardinalityType
<1> QED BY <1>3, <1>4, <1>5

(* EveryPacketAccounted counts the places; Placement says which they are.  *)
LEMMA PlacesCounted == TypeOK /\ Placement => EveryPacketAccounted
<1> SUFFICES ASSUME TypeOK, Placement, NEW p \in Packet
             PROVE  /\ Places(p) <= 1
                    /\ outcome[p] = "pending" => Places(p) = 1
                    /\ Places(p) = 1 => \/ outcome[p] = "pending"
                                        \/ outcome[p] = "failed" /\ Owner[p] \in Qos /\ sleeps > 0
  BY DEF EveryPacketAccounted
<1> DEFINE t == Owner[p]
           C == {u \in Txop : current[u] = p}
           Q == {tn \in Txop \X (1..Cardinality(Packet)) :
                   tn[2] <= Len(queue[tn[1]]) /\ queue[tn[1]][tn[2]] = p}
<1>1. t \in Txop /\ p # NoPacket /\ queue[t] \in Seq(Packet)
  BY PlaceTypes
<1>2. C = IF current[t] = p THEN {t} ELSE {}
  BY <1>1 DEF Placement, Owned
<1>3. ASSUME NEW tn \in Q PROVE tn[1] = t /\ tn[2] \in DOMAIN queue[t] /\ queue[t][tn[2]] = p /\ tn = <<t, tn[2]>>
  <2>1. /\ tn[1] \in Txop /\ tn[2] \in 1..Cardinality(Packet) /\ tn = <<tn[1], tn[2]>>
        /\ tn[2] <= Len(queue[tn[1]]) /\ queue[tn[1]][tn[2]] = p
    BY <1>3
  <2>2. queue[tn[1]] \in Seq(Packet) /\ Distinct(queue[tn[1]])
    BY <2>1, PlaceTypes DEF Placement, Once
  <2>3. Cardinality(Packet) \in Nat
    BY <2>2, QueueBound
  <2>4. tn[2] \in DOMAIN queue[tn[1]]
    BY <2>1, <2>2, <2>3
  <2>5. p \in Waiting(tn[1])
    BY <2>1, <2>4 DEF Waiting, Elements
  <2>6. Owner[p] = tn[1]
    BY <2>1, <2>5 DEF Placement, Owned
  <2> QED BY <2>1, <2>4, <2>6
<1>4. ASSUME NEW n \in DOMAIN queue[t], queue[t][n] = p PROVE Q = {<<t, n>>}
  <2>1. Distinct(queue[t])
    BY <1>1 DEF Placement, Once
  <2>2. n \in 1..Cardinality(Packet) /\ n <= Len(queue[t])
    BY <1>1, <2>1, QueueBound
  <2>3. <<t, n>> \in Q
    BY <1>1, <1>4, <2>2
  <2>4. \A tn \in Q : tn = <<t, n>>
    <3> SUFFICES ASSUME NEW tn \in Q PROVE tn = <<t, n>>
      OBVIOUS
    <3>1. tn[2] \in DOMAIN queue[t] /\ queue[t][tn[2]] = p /\ tn = <<t, tn[2]>>
      BY <1>3
    <3>2. tn[2] = n
      BY <1>4, <2>1, <3>1 DEF Distinct
    <3> QED BY <3>1, <3>2
  <2> HIDE DEF Q
  <2> QED BY <2>3, <2>4
<1>5. IF p \in Waiting(t) THEN \E n : Q = {<<t, n>>} ELSE Q = {}
  <2>1. CASE p \in Waiting(t)
    BY <1>4, <2>1 DEF Waiting, Elements
  <2>2. CASE p \notin Waiting(t)
    <3>1. \A tn \in Q : FALSE
      <4> SUFFICES ASSUME NEW tn \in Q PROVE FALSE
        OBVIOUS
      <4> QED BY <1>3, <2>2 DEF Waiting, Elements
    <3> HIDE DEF Q
    <3> QED BY <2>2, <3>1
  <2> HIDE DEF Q
  <2> QED BY <2>1, <2>2
<1>6. /\ Cardinality(C) = IF current[t] = p THEN 1 ELSE 0
      /\ Cardinality(Q) = IF p \in Waiting(t) THEN 1 ELSE 0
  <2> HIDE DEF C, Q
  <2>1. Cardinality({}) = 0 /\ \A x : Cardinality({x}) = 1
    BY FS_EmptySet, FS_Singleton
  <2> QED BY <1>2, <1>5, <2>1
<1>7. Places(p) = (IF p \in fresh THEN 1 ELSE 0) + Cardinality(C) + Cardinality(Q)
  BY DEF Places
<1>8. ~(p \in fresh /\ current[t] = p) /\ ~(p \in fresh /\ p \in Waiting(t)) /\ ~(current[t] = p /\ p \in Waiting(t))
  BY <1>1 DEF Placement, Apart
<1> DEFINE somewhere == p \in fresh \/ current[t] = p \/ p \in Waiting(t)
<1>9. /\ outcome[p] = "pending" => somewhere
      /\ somewhere => outcome[p] = "pending" \/ Leftover(p)
  BY DEF Placement, Reported, Fate, Placed
<1>10. Places(p) = IF somewhere THEN 1 ELSE 0
  <2> HIDE DEF C, Q, t
  <2> QED BY <1>6, <1>7, <1>8
<1> HIDE DEF somewhere
<1> QED BY <1>9, <1>10 DEF Leftover

(* No packet is lost without a report and none is in two places, whatever  *)
(* is lost on the air, however often the sender sleeps and queues overflow; *)
(* a packet stays after its report only if an EdcaTxopN reported it as     *)
(* failed while the station fell asleep.                                   *)
THEOREM PacketsAccounted == Spec => []EveryPacketAccounted
<1>1. TypeInv => TypeOK
  BY DEF TypeInv
<1> QED BY <1>1, InitTypes, TypeStep, InitPlaces, PlacementStep, PlacesCounted, PTL DEF Spec

-----------------------------------------------------------------------------
(* The retry counter and the transmissions of a packet.                    *)

(* The conditions under which a counter belongs to one packet at a time,   *)
(* see the README: one function per TID, no fragments, no RTS, no sleep.   *)
NoFragments == \A p \in Packet : Frags[p] = 1
StaysAwake  == "sender" \notin MaySleep
OwnCounters == /\ RtsPackets = {} /\ NoFragments /\ StaysAwake
               /\ \A t, u \in Txop : Tid[t] = Tid[u] => t = u

LEMMA NeverAsleep ==
  ASSUME StaysAwake
  PROVE  ~FallAsleep /\ ~SenderSleeps /\ \A t \in Txop : ~MissedAckAsleep(t)
  BY DEF StaysAwake, FallAsleep, SenderSleeps, MissedAckAsleep

(* Awake, the sender keeps no packet whose fate it has reported.           *)
LEMMA PlacedPending ==
  ASSUME Placement, StaysAwake, NEW p \in Packet
  PROVE  outcome[p] = "pending" <=> Placed(p)
  BY DEF Placement, Reported, Fate, Leftover, StaysAwake

Serves(t) == low.stage # "idle" /\ low.frame.txop = t

(* The counter has the failed transmissions of the current packet.         *)
Counts(t) ==
  IF current[t] = NoPacket
    THEN slrc[Tid[t]] = 0
    ELSE /\ slrc[Tid[t]] < MaxSlrc
         /\ tries[current[t]] = slrc[Tid[t]] + (IF Serves(t) THEN 1 ELSE 0)
(* Nothing was sent of a packet that is queued or was not queued yet.      *)
Untried == \A p \in Packet : outcome[p] = "pending" /\ current[Owner[p]] # p => tries[p] = 0
(* What is in the air is the whole of a current packet.                    *)
Plain   == /\ low.stage \in {"idle", "ack"}
           /\ \A t \in Txop : fragment[t] = 0
           /\ low.stage = "ack" => low.frame.body.packet = current[low.frame.txop]

Counted == (\A t \in Txop : Counts(t)) /\ Untried /\ Plain /\ GivenUpAfterMaxSlrc

LEMMA InitCounted == Init => Counted
  BY LimitAssumption, TxopAssumption
     DEF Init, Counted, Counts, Untried, Plain, GivenUpAfterMaxSlrc, Idle, Tids, NoPacket

(* A step that touches none of it. *)
LEMMA Uncounted ==
  ASSUME Counted, UNCHANGED <<current, fragment, slrc, low, outcome, tries>>
  PROVE  Counted'
  BY DEF Counted, Counts, Untried, Plain, GivenUpAfterMaxSlrc, Serves

LEMMA QueueCounted ==
  ASSUME TypeOK, Counted, NEW p \in Packet, Queue(p)
  PROVE  Counted'
<1>1. UNCHANGED <<current, fragment, slrc, low, tries>>
  BY DEF Queue
<1>2. UNCHANGED outcome \/ outcome' = [outcome EXCEPT ![p] = "dropped"]
  BY DEF Queue
<1>3. \A q \in Packet : outcome'[q] = outcome[q] \/ outcome'[q] = "dropped"
  BY <1>2 DEF TypeOK
<1>4. (\A t \in Txop : Counts(t))' /\ Plain'
  BY <1>1 DEF Counted, Counts, Plain, Serves
<1>5. Untried' /\ GivenUpAfterMaxSlrc'
  BY <1>1, <1>3 DEF Counted, Untried, GivenUpAfterMaxSlrc
<1> QED BY <1>4, <1>5 DEF Counted

(* A transmission is one more try of the packet that is current then.      *)
LEMMA SendCounted ==
  ASSUME TypeOK, Placement, Counted, OwnCounters, NEW t \in Txop, low = Idle,
         current'[t] \in Packet, NEW p \in Packet, p = current'[t], Owner[p] = t,
         tries[p] = slrc[Tid[t]], slrc[Tid[t]] < MaxSlrc, outcome[p] = "pending",
         \A u \in Txop \ {t} : current'[u] = current[u],
         \A q \in Packet : Owner[q] = t /\ q # p => current[t] # q,
         \A u \in Txop : fragment'[u] = 0,
         low'.stage = "ack", low'.frame.txop = t, low'.frame.body.packet = p,
         tries' = [tries EXCEPT ![p] = IF @ > MaxSlrc THEN @ ELSE @ + 1],
         UNCHANGED <<slrc, outcome>>
  PROVE  Counted'
<1>1. slrc[Tid[t]] \in Nat /\ MaxSlrc \in Nat
  <2>1. Tid[t] \in Tids
    BY DEF Tids
  <2> QED BY <2>1, LimitAssumption DEF TypeOK
<1>2. tries'[p] = slrc[Tid[t]] + 1 /\ \A q \in Packet \ {p} : tries'[q] = tries[q]
  BY <1>1 DEF TypeOK
<1>3. \A u \in Txop : ~Serves(u) /\ (Serves(u)' <=> u = t)
  BY DEF Serves, Idle
<1>4. \A u \in Txop \ {t} : current[u] # p
  BY PlaceTypes DEF Placement, Owned
<1>5. ASSUME NEW u \in Txop PROVE Counts(u)'
  <2>1. CASE u = t
    BY <1>1, <1>2, <1>3, <2>1, PlaceTypes DEF Counts
  <2>2. CASE u # t
    BY <1>2, <1>3, <1>4, <2>2, PlaceTypes DEF Counts, Counted
  <2> QED BY <2>1, <2>2
<1>6. Untried'
  <2> SUFFICES ASSUME NEW q \in Packet, outcome'[q] = "pending", current'[Owner[q]] # q PROVE tries'[q] = 0
    BY DEF Untried
  <2>1. q # p /\ Owner[q] \in Txop
    BY PlaceTypes
  <2>2. current[Owner[q]] # q
    BY <2>1
  <2> QED BY <1>2, <2>1, <2>2 DEF Counted, Untried
<1>7. Plain'
  BY DEF Plain
<1>8. GivenUpAfterMaxSlrc'
  BY <1>1, <1>2 DEF GivenUpAfterMaxSlrc, Counted
<1> QED BY <1>5, <1>6, <1>7, <1>8 DEF Counted

LEMMA AccessCounted ==
  ASSUME TypeInv, Placement, Counted, OwnCounters, NEW t \in Txop, NotifyAccessGranted(t)
  PROVE  Counted'
<1>1. TypeOK /\ low = Idle /\ UNCHANGED <<slrc, outcome>>
  BY DEF NotifyAccessGranted, MediumIdle, TypeInv
<1>2. \A p : ~NeedRts(t, p)
  BY DEF NeedRts, OwnCounters
<1>3. \A u \in Txop : fragment[u] = 0
  BY DEF Counted, Plain
<1>4. CASE current[t] = NoPacket
  <2>0. PICK p : p = Head(queue[t])
    OBVIOUS
  <2> DEFINE h == [seq |-> nextSeq[t], retry |-> FALSE]
             f == FrameOnAccess(t, p, 0, h)
  <2>1. /\ queue[t] # <<>> /\ current' = [current EXCEPT ![t] = p]
        /\ fragment' = [fragment EXCEPT ![t] = 0]
        /\ SendData(f)
    BY <1>2, <1>4, <2>0 DEF NotifyAccessGranted, StartTransmission
  <2>2. f.body.packet = p /\ f.txop = t
    BY DEF FrameOnAccess, GetFragmentPacket
  <2>3. p \in Waiting(t)
    <3>1. queue[t] \in Seq(Packet)
      BY <1>1, PlaceTypes
    <3> QED BY <2>0, <2>1, <3>1, Popped DEF Waiting
  <2>4. p \in Packet /\ Owner[p] = t /\ current[t] # p /\ p # NoPacket
    BY <1>1, <2>3, PlaceTypes DEF Placement, Owned, Apart
  <2>5. outcome[p] = "pending"
    BY <2>3, <2>4, PlacedPending DEF OwnCounters, Placed
  <2>6. tries[p] = 0 /\ slrc[Tid[t]] = 0 /\ 0 < MaxSlrc
    BY <1>4, <2>4, <2>5, LimitAssumption DEF Counted, Untried, Counts
  <2>7. /\ low'.stage = "ack" /\ low'.frame = f
        /\ tries' = [tries EXCEPT ![p] = IF @ > MaxSlrc THEN @ ELSE @ + 1]
    BY <2>1, <2>2 DEF SendData
  <2>8. /\ current'[t] = p /\ \A u \in Txop \ {t} : current'[u] = current[u]
        /\ \A u \in Txop : fragment'[u] = 0
        /\ \A q \in Packet : current[t] # q
    BY <1>1, <1>3, <1>4, <2>1, PlaceTypes DEF TypeOK
  <2>9. low'.stage = "ack" /\ low'.frame.txop = t /\ low'.frame.body.packet = p
    BY <2>2, <2>7
  <2>10. current'[t] = p /\ tries[p] = slrc[Tid[t]] /\ slrc[Tid[t]] < MaxSlrc
    BY <2>6, <2>8
  <2>11. \A q \in Packet : Owner[q] = t /\ q # p => current[t] # q
    BY <2>8
  <2> HIDE DEF f, h
  <2> QED BY <1>1, <2>4, <2>5, <2>7, <2>8, <2>9, <2>10, <2>11, SendCounted
<1>5. CASE current[t] # NoPacket
  <2>0. PICK p : p = current[t]
    OBVIOUS
  <2> DEFINE f == FrameOnAccess(t, p, fragment[t], hdr[t])
  <2>1. SendData(f) /\ UNCHANGED <<current, fragment>>
    BY <1>2, <1>5, <2>0 DEF NotifyAccessGranted, StartTransmission
  <2>2. f.body.packet = p /\ f.txop = t
    BY DEF FrameOnAccess, GetFragmentPacket
  <2>3. p = current[t] /\ p \in Packet /\ Owner[p] = t
    BY <1>1, <1>5, <2>0, PlaceTypes DEF Placement, Owned
  <2>4. outcome[p] = "pending"
    BY <2>3, PlacedPending DEF OwnCounters, Placed
  <2>5. tries[p] = slrc[Tid[t]] /\ slrc[Tid[t]] < MaxSlrc
    <3>1. ~Serves(t)
      BY <1>1 DEF Serves, Idle
    <3>2. tries[p] = slrc[Tid[t]] + 0 /\ slrc[Tid[t]] < MaxSlrc
      BY <1>5, <2>3, <3>1 DEF Counted, Counts
    <3>3. slrc[Tid[t]] \in Nat
      <4>1. Tid[t] \in Tids
        BY DEF Tids
      <4> QED BY <1>1, <4>1, LimitAssumption DEF TypeOK
    <3> QED BY <3>2, <3>3
  <2>6. /\ low'.stage = "ack" /\ low'.frame = f
        /\ tries' = [tries EXCEPT ![p] = IF @ > MaxSlrc THEN @ ELSE @ + 1]
    BY <2>1, <2>2 DEF SendData
  <2>7. low'.stage = "ack" /\ low'.frame.txop = t /\ low'.frame.body.packet = p
    BY <2>2, <2>6
  <2>8. /\ current'[t] = p /\ \A u \in Txop \ {t} : current'[u] = current[u]
        /\ \A u \in Txop : fragment'[u] = 0
    BY <1>3, <2>1, <2>3
  <2>9. \A q \in Packet : Owner[q] = t /\ q # p => current[t] # q
    BY <2>3
  <2>10. p \in Packet /\ Owner[p] = t /\ current'[t] \in Packet
    BY <2>3, <2>8
  <2> HIDE DEF f
  <2> QED BY <1>1, <2>4, <2>5, <2>6, <2>7, <2>8, <2>9, <2>10, SendCounted
<1> QED BY <1>4, <1>5

(* A transaction that ends. *)
LEMMA EndCounted ==
  ASSUME TypeInv, Placement, Counted, OwnCounters, GotAck \/ NormalAckTimeout
  PROVE  Counted'
<1>1. TypeOK /\ low.stage = "ack"
  BY DEF GotAck, NormalAckTimeout, Arrives, TimesOut, TypeInv
<1>2. PICK t \in Txop, p \in Packet : /\ t = low.frame.txop /\ p = current[t]
                                      /\ p # NoPacket /\ Owner[p] = t
  BY <1>1, IdleOrBusy, PlaceTypes DEF TypeInv, InService, Idle, Placement, Owned
<1>3. PICK n : n = slrc[Tid[t]] + 1
  OBVIOUS
<1>4. slrc[Tid[t]] \in Nat /\ Tid[t] \in Tids /\ MaxSlrc \in Nat
  <2>1. Tid[t] \in Tids
    BY <1>2 DEF Tids
  <2> QED BY <1>1, <2>1, LimitAssumption DEF TypeOK
<1>5. tries[p] = n /\ slrc[Tid[t]] < MaxSlrc
  BY <1>3, <1>1, <1>2, <1>4 DEF Counted, Counts, Serves
<1>6. low' = Idle /\ UNCHANGED <<fragment, tries>>
  <2>1. IsLastFragment(p, fragment[t])
    BY <1>2 DEF Counted, Plain, IsLastFragment, OwnCounters, NoFragments
  <2> QED BY <1>2, <2>1 DEF GotAck, NormalAckTimeout
<1>7. \A u \in Txop : ~Serves(u)' /\ (Serves(u) <=> u = t)
  BY <1>1, <1>2, <1>6 DEF Serves, Idle
<1>8. Plain'
  BY <1>6 DEF Plain, Counted, Idle
<1>9. /\ \A u \in Txop \ {t} : Tid[u] # Tid[t]
      /\ slrc \in [Tids -> 0..MaxSlrc] /\ \A u \in Txop : Tid[u] \in Tids
  BY <1>1, <1>2 DEF TypeOK, OwnCounters, Tids
<1>10. CASE /\ n < MaxSlrc
            /\ slrc' = [slrc EXCEPT ![Tid[t]] = n]
            /\ UNCHANGED <<outcome, current>>
  <2>1. slrc'[Tid[t]] = n /\ \A u \in Txop \ {t} : slrc'[Tid[u]] = slrc[Tid[u]]
    <3>1. slrc' = [slrc EXCEPT ![Tid[t]] = n]
      BY <1>10
    <3>2. ASSUME NEW i \in Tids PROVE slrc'[i] = IF i = Tid[t] THEN n ELSE slrc[i]
      BY <1>9, <3>1
    <3> QED BY <1>4, <1>9, <3>2
  <2>2. Counts(t)'
    <3>1. current'[t] = p /\ tries'[p] = n /\ ~Serves(t)' /\ p # NoPacket
      BY <1>2, <1>5, <1>6, <1>7, <1>10
    <3>2. slrc'[Tid[t]] = n /\ n < MaxSlrc /\ n \in Nat
      BY <1>4, <1>10, <1>3, <2>1
    <3> QED BY <3>1, <3>2 DEF Counts
  <2>3. ASSUME NEW u \in Txop \ {t} PROVE Counts(u)'
    <3>1. Counts(u) /\ ~Serves(u) /\ ~Serves(u)'
      BY <1>7 DEF Counted
    <3> QED BY <1>6, <1>10, <2>1, <3>1 DEF Counts
  <2>4. Untried' /\ GivenUpAfterMaxSlrc'
    BY <1>6, <1>10 DEF Counted, Untried, GivenUpAfterMaxSlrc
  <2> QED BY <1>8, <2>2, <2>3, <2>4 DEF Counted
<1>11. ASSUME NEW o \in {"ok", "failed"},
             slrc' = [slrc EXCEPT ![Tid[t]] = 0],
             outcome' = [outcome EXCEPT ![p] = o],
             current' = [current EXCEPT ![t] = NoPacket],
             o = "failed" => n >= MaxSlrc
      PROVE  Counted'
  <2>1. slrc'[Tid[t]] = 0 /\ \A u \in Txop \ {t} : slrc'[Tid[u]] = slrc[Tid[u]]
    <3>1. slrc' = [slrc EXCEPT ![Tid[t]] = 0]
      BY <1>11
    <3>2. ASSUME NEW i \in Tids PROVE slrc'[i] = IF i = Tid[t] THEN 0 ELSE slrc[i]
      BY <1>9, <3>1
    <3> QED BY <1>4, <1>9, <3>2
  <2>2. current'[t] = NoPacket /\ \A u \in Txop \ {t} : current'[u] = current[u]
    BY <1>1, <1>2, <1>11 DEF TypeOK
  <2>3. Counts(t)'
    BY <1>2, <2>1, <2>2 DEF Counts
  <2>4. ASSUME NEW u \in Txop \ {t} PROVE Counts(u)'
    <3>1. Counts(u) /\ ~Serves(u) /\ ~Serves(u)'
      BY <1>7 DEF Counted
    <3> QED BY <1>6, <2>1, <2>2, <3>1 DEF Counts
  <2>5. outcome'[p] = o /\ \A q \in Packet \ {p} : outcome'[q] = outcome[q]
    BY <1>1, <1>2, <1>11 DEF TypeOK
  <2>6. Untried'
    <3> SUFFICES ASSUME NEW q \in Packet, outcome'[q] = "pending", current'[Owner[q]] # q PROVE tries'[q] = 0
      BY DEF Untried
    <3>1. q # p /\ Owner[q] \in Txop
      BY <1>1, <1>2, <1>11, <2>5, PlaceTypes
    <3>2. current[Owner[q]] # q
      BY <1>2, <1>11, <2>2, <3>1
    <3> QED BY <1>6, <2>5, <3>1, <3>2 DEF Counted, Untried
  <2>7. GivenUpAfterMaxSlrc'
    <3> SUFFICES ASSUME NEW q \in Packet
                 PROVE  /\ outcome'[q] = "failed" => tries[q] = MaxSlrc
                        /\ tries[q] <= MaxSlrc
      BY <1>6 DEF GivenUpAfterMaxSlrc, OwnCounters
    <3>1. CASE q = p
      BY <1>4, <1>5, <1>3, <1>11, <2>5, <3>1
    <3>2. CASE q # p
      BY <2>5, <3>2 DEF Counted, GivenUpAfterMaxSlrc, OwnCounters
    <3> QED BY <3>1, <3>2
  <2> QED BY <1>8, <2>3, <2>4, <2>6, <2>7 DEF Counted
<1>12. \/ /\ n < MaxSlrc
          /\ slrc' = [slrc EXCEPT ![Tid[t]] = n]
          /\ UNCHANGED <<outcome, current>>
       \/ \E o \in {"ok", "failed"} : /\ slrc' = [slrc EXCEPT ![Tid[t]] = 0]
                                      /\ outcome' = [outcome EXCEPT ![p] = o]
                                      /\ current' = [current EXCEPT ![t] = NoPacket]
                                      /\ o = "failed" => n >= MaxSlrc
  <2>1. CASE GotAck
    <3>1. IsLastFragment(p, fragment[t])
      BY <1>2 DEF Counted, Plain, IsLastFragment, OwnCounters, NoFragments
    <3> QED BY <1>2, <2>1, <3>1 DEF GotAck
  <2>2. CASE NormalAckTimeout
    <3>1. MissedAck(t, n) /\ ~MissedAckAsleep(t)
      BY <1>2, <1>3, <2>2, NeverAsleep DEF NormalAckTimeout, OwnCounters
    <3> QED BY <1>2, <3>1 DEF MissedAck, Abandon
  <2> QED BY <2>1, <2>2
<1> QED BY <1>10, <1>11, <1>12

LEMMA CountedStep ==
  ASSUME TypeInv, Placement, Counted, OwnCounters, [Next]_vars
  PROVE  Counted'
<1>1. low.stage \in {"idle", "ack"}
  BY DEF Counted, Plain
<1>2. CASE \E p \in Packet : Queue(p)
  BY <1>2, QueueCounted DEF TypeInv
<1>3. CASE \E t \in Txop : NotifyAccessGranted(t)
  BY <1>3, AccessCounted
<1>4. CASE \E t \in Txop : SendToOther(t)
  BY <1>4, Uncounted DEF SendToOther
<1>5. CASE Transaction
  <2>1. GotAck \/ NormalAckTimeout
    BY <1>1, <1>5 DEF Transaction, GotCts, SendDataAfterCts, StartNext, CtsTimeout, Arrives, TimesOut
  <2> QED BY <2>1, EndCounted
<1>6. CASE Answer \/ Lose
  BY <1>6, Uncounted DEF Answer, ReceiveRts, ReceiveData, SendReply, Lose, txopVars
<1>7. CASE SenderSleeps
  BY <1>7, NeverAsleep DEF OwnCounters
<1>8. CASE ReceiverSleeps \/ \E side \in {"sender", "receiver"} : WakeUp(side)
  BY <1>8, Uncounted DEF ReceiverSleeps, WakeUp, txopVars
<1>9. CASE UNCHANGED vars
  BY <1>9, Uncounted DEF vars, txopVars
<1> QED BY <1>2, <1>3, <1>4, <1>5, <1>6, <1>7, <1>8, <1>9 DEF Next

(* Where a retry counter serves one packet at a time, a packet is given up *)
(* after MaxSlrc transmissions, neither earlier nor later, whatever the    *)
(* other functions do and however the receiver sleeps.                     *)
THEOREM FailureMeansMaxSlrc == ASSUME OwnCounters PROVE Spec => []GivenUpAfterMaxSlrc
<1>1. TypeInv /\ Placement /\ Counted /\ [Next]_vars => Counted'
  BY CountedStep
<1>2. Counted => GivenUpAfterMaxSlrc
  BY DEF Counted
<1> QED BY <1>1, <1>2, InitTypes, TypeStep, InitPlaces, PlacementStep, InitCounted, PTL DEF Spec, TypeInv

-----------------------------------------------------------------------------
(* Sequence numbers.                                                       *)

OwnedBy(t) == {p \in Packet : Owner[p] = t}

(* The conditions of the theorems below, see the README: an EdcaTxopN does *)
(* not fragment, and no function draws a sequence number twice.            *)
QosUnfragmented == \A p \in Packet : Owner[p] \in Qos => Frags[p] = 1
NumbersSuffice  == \A t \in Txop : Cardinality(OwnedBy(t)) + MaxOthers + MaxSleeps <= SeqMod

(* n numbers were drawn, one by every packet that left the queue, by every *)
(* frame for somebody else and by what came back to the queue from sleep;  *)
(* the current packet has the last of them, and no later one was received. *)
Taken(t) == OwnedBy(t) \ (fresh \cup Waiting(t))
Numbered(t, n) ==
  /\ nextSeq[t] = n % SeqMod
  /\ n <= Cardinality(Taken(t)) + others + sleeps
  /\ current[t] # NoPacket => hdr[t].seq = n - 1
  /\ rx[t].last = NoControl \/ rx[t].last.seq < n
Numbers == \A t \in Txop : \E n \in Nat : Numbered(t, n)

LEMMA StatusTypes ==
  ASSUME TypeOK, NEW t \in Txop
  PROVE  /\ rx[t] \in [last : SeqControl, parts : Seq(Fragment)]
         /\ rx[t].last.seq \in Nat /\ rx[t].last.frag \in Nat
<1>1. rx[t] \in [last : SeqControl, parts : Seq(Fragment)]
  BY DEF TypeOK
<1>2. rx[t].last \in [seq : 0..SeqMod, frag : Nat]
  BY <1>1 DEF SeqControl
<1>3. rx[t].last.seq \in 0..SeqMod /\ rx[t].last.frag \in Nat
  BY <1>2
<1>4. \A n \in 0..SeqMod : n \in Nat
  BY LimitAssumption
<1> QED BY <1>1, <1>3, <1>4

LEMMA TakenFinite ==
  ASSUME NEW t \in Txop
  PROVE  /\ IsFiniteSet(OwnedBy(t)) /\ Cardinality(OwnedBy(t)) \in Nat
         /\ \A S \in SUBSET OwnedBy(t) : /\ IsFiniteSet(S) /\ Cardinality(S) \in Nat
                                         /\ Cardinality(S) <= Cardinality(OwnedBy(t))
         /\ \A S, T \in SUBSET OwnedBy(t) : S \subseteq T => Cardinality(S) <= Cardinality(T)
<1>1. IsFiniteSet(Packet) /\ OwnedBy(t) \subseteq Packet
  BY TxopAssumption DEF OwnedBy
<1>2. IsFiniteSet(OwnedBy(t)) /\ Cardinality(OwnedBy(t)) \in Nat
  BY <1>1, FS_Subset, FS_CardinalityType
<1>3. ASSUME NEW T \in SUBSET OwnedBy(t), NEW S \in SUBSET T
      PROVE  /\ IsFiniteSet(S) /\ Cardinality(S) \in Nat /\ Cardinality(S) <= Cardinality(T)
  BY <1>2, FS_Subset, FS_CardinalityType
<1> QED BY <1>2, <1>3

(* There is a number left for everything that may still draw one.          *)
LEMMA NumberBound ==
  ASSUME TypeOK, NumbersSuffice, NEW t \in Txop, NEW n \in Nat, Numbered(t, n)
  PROVE  /\ n <= SeqMod /\ SeqMod \in Nat
         /\ others < MaxOthers => n < SeqMod
         /\ (\E p \in OwnedBy(t) : p \notin Taken(t)) => n < SeqMod
<1> DEFINE C == Cardinality(Taken(t))
           D == Cardinality(OwnedBy(t))
<1>1. C \in Nat /\ D \in Nat /\ C <= D
  BY TakenFinite DEF Taken
<1>2. n <= C + others + sleeps
  BY DEF Numbered
<1>3. D + MaxOthers + MaxSleeps <= SeqMod
  BY DEF NumbersSuffice
<1>4. others \in 0..MaxOthers /\ sleeps \in 0..MaxSleeps
  BY DEF TypeOK
<1>5. MaxOthers \in Nat /\ MaxSleeps \in Nat /\ SeqMod \in Nat
  BY LimitAssumption
<1>6. ASSUME NEW p \in OwnedBy(t), p \notin Taken(t) PROVE C < D
  <2>1. Taken(t) \subseteq OwnedBy(t) /\ Taken(t) # OwnedBy(t)
    BY <1>6 DEF Taken
  <2>2. IsFiniteSet(OwnedBy(t))
    BY TakenFinite
  <2>3. ASSUME C = D PROVE FALSE
    BY <2>1, <2>2, <2>3, FS_Subset
  <2> HIDE DEF C, D
  <2> QED BY <1>1, <2>3
<1> HIDE DEF C, D
<1> QED BY <1>1, <1>2, <1>3, <1>4, <1>5, <1>6

LEMMA Draws ==
  ASSUME NEW n \in Nat, n < SeqMod
  PROVE  n % SeqMod = n /\ GetNextSequenceNumber(n % SeqMod) = (n + 1) % SeqMod
<1>1. SeqMod \in Nat \ {0}
  BY LimitAssumption
<1>2. n % SeqMod = n
  BY <1>1
<1> QED BY <1>2 DEF GetNextSequenceNumber

(* Nothing is drawn for t. *)
LEMMA NumberKept ==
  ASSUME TypeOK, NEW t \in Txop, NEW n \in Nat, Numbered(t, n),
         nextSeq'[t] = nextSeq[t],
         Cardinality(Taken(t)) + others + sleeps <= (Cardinality(Taken(t)) + others + sleeps)',
         (Cardinality(Taken(t)) + others + sleeps)' \in Nat,
         current'[t] # NoPacket => current[t] # NoPacket /\ hdr'[t].seq = hdr[t].seq,
         rx'[t].last = rx[t].last
  PROVE  Numbered(t, n)'
<1> DEFINE C == Cardinality(Taken(t)) + others + sleeps
<1>1. C \in Nat
  <2>1. Cardinality(Taken(t)) \in Nat
    BY TakenFinite DEF Taken
  <2>2. others \in Nat /\ sleeps \in Nat
    BY LimitAssumption DEF TypeOK
  <2> QED BY <2>1, <2>2
<1>2. n <= C /\ C <= C' /\ C' \in Nat
  BY DEF Numbered
<1>3. n <= C'
  <2> HIDE DEF C
  <2> QED BY <1>1, <1>2
<1> QED BY <1>3 DEF Numbered


(* A step that draws no number and takes nothing back. *)
LEMMA NumbersKept ==
  ASSUME TypeOK, TypeOK', Numbers, UNCHANGED <<nextSeq, others, sleeps>>,
         \A t \in Txop : /\ Taken(t) \subseteq Taken(t)'
                         /\ current'[t] # NoPacket => current[t] # NoPacket /\ hdr'[t].seq = hdr[t].seq
                         /\ rx'[t].last = rx[t].last
  PROVE  Numbers'
<1> SUFFICES ASSUME NEW t \in Txop PROVE (\E n \in Nat : Numbered(t, n))'
  BY DEF Numbers
<1>1. PICK n \in Nat : Numbered(t, n)
  BY DEF Numbers
<1>2. /\ Cardinality(Taken(t)) \in Nat /\ Cardinality(Taken(t)') \in Nat
      /\ Cardinality(Taken(t)) <= Cardinality(Taken(t)')
  BY TakenFinite DEF Taken
<1>3. others \in Nat /\ sleeps \in Nat
  BY LimitAssumption DEF TypeOK
<1>4. /\ Cardinality(Taken(t)) + others + sleeps <= (Cardinality(Taken(t)) + others + sleeps)'
      /\ (Cardinality(Taken(t)) + others + sleeps)' \in Nat
  BY <1>2, <1>3
<1> QED BY <1>1, <1>4, NumberKept

LEMMA TakenSame ==
  ASSUME UNCHANGED <<fresh, queue>>, NEW t
  PROVE  Taken(t)' = Taken(t)
  BY DEF Taken, Waiting

LEMMA QueueNumbers ==
  ASSUME TypeOK, TypeOK', Placement, Numbers, NEW p \in Packet, Queue(p)
  PROVE  Numbers'
<1>1. /\ fresh' = fresh \ {p} /\ UNCHANGED <<current, hdr, rx, nextSeq, others, sleeps>>
  BY DEF Queue, rxVars
<1>2. ASSUME NEW t \in Txop PROVE Taken(t) \subseteq Taken(t)'
  <2>1. Waiting(t)' \subseteq Waiting(t) \cup {p}
    <3>1. CASE Owner[p] = t /\ queue' = [queue EXCEPT ![t] = Append(@, p)]
      BY <3>1, PlaceTypes, Appended DEF Waiting, TypeOK
    <3>2. CASE queue'[t] = queue[t]
      BY <3>2 DEF Waiting
    <3>3. Owner[p] # t => queue'[t] = queue[t]
      BY DEF Queue, TypeOK
    <3> QED BY <3>1, <3>2, <3>3 DEF Queue
  <2>2. p \notin Taken(t)
    BY DEF Queue, Taken
  <2> QED BY <1>1, <2>1, <2>2 DEF Taken
<1> QED BY <1>1, <1>2, NumbersKept

(* The packet at the head of the queue takes a number. *)
LEMMA AccessNumbers ==
  ASSUME TypeInv, TypeOK', Placement, NumbersSuffice, Numbers, NEW t \in Txop, NotifyAccessGranted(t)
  PROVE  Numbers'
<1>1. TypeOK /\ UNCHANGED <<fresh, rx, others, sleeps>>
  BY DEF NotifyAccessGranted, TypeInv, rxVars
<1>2. CASE current[t] # NoPacket
  <2>1. UNCHANGED <<queue, current, nextSeq, hdr>>
    BY <1>2 DEF NotifyAccessGranted
  <2> QED BY <1>1, <2>1, TakenSame, NumbersKept
<1>3. CASE current[t] = NoPacket
  <2> DEFINE p == Head(queue[t])
  <2>1. /\ queue[t] # <<>>
        /\ queue' = [queue EXCEPT ![t] = Tail(@)]
        /\ current' = [current EXCEPT ![t] = p]
        /\ nextSeq' = [nextSeq EXCEPT ![t] = GetNextSequenceNumber(@)]
        /\ hdr' = [hdr EXCEPT ![t] = [seq |-> nextSeq[t], retry |-> FALSE]]
    BY <1>3 DEF NotifyAccessGranted
  <2>2. queue[t] \in Seq(Packet) /\ Waiting(t) \subseteq Packet
    BY <1>1, PlaceTypes
  <2>3. /\ Waiting(t) = Waiting(t)' \cup {p} /\ p \notin Waiting(t)'
    BY <1>1, <2>1, <2>2, Popped DEF Waiting, TypeOK, Placement, Once
  <2>4. p \in OwnedBy(t) /\ p \notin Taken(t) /\ p \notin fresh
    BY <2>2, <2>3 DEF Placement, Owned, Apart, OwnedBy, Taken
  <2>5. Taken(t)' = Taken(t) \cup {p}
    BY <1>1, <2>3, <2>4 DEF Taken
  <2>6. Cardinality(Taken(t)') = Cardinality(Taken(t)) + 1
    <3>1. IsFiniteSet(Taken(t))
      BY TakenFinite DEF Taken
    <3> QED BY <2>4, <2>5, <3>1, FS_AddElement
  <2>7. PICK n \in Nat : Numbered(t, n)
    BY DEF Numbers
  <2>8. n < SeqMod
    BY <1>1, <2>4, <2>7, NumberBound
  <2>9. nextSeq[t] = n /\ nextSeq'[t] = (n + 1) % SeqMod
    BY <1>1, <2>1, <2>7, <2>8, Draws DEF Numbered, TypeOK
  <2>10. Numbered(t, n + 1)'
    <3>1. hdr'[t].seq = n
      BY <1>1, <2>1, <2>9 DEF TypeOK
    <3>2. n + 1 <= (Cardinality(Taken(t)) + others + sleeps)'
      <4>1. n <= Cardinality(Taken(t)) + others + sleeps
        BY <2>7 DEF Numbered
      <4>2. Cardinality(Taken(t)) \in Nat
        BY TakenFinite DEF Taken
      <4>3. others \in Nat /\ sleeps \in Nat
        BY <1>1, LimitAssumption DEF TypeOK
      <4> QED BY <1>1, <2>6, <4>1, <4>2, <4>3
    <3>3. rx'[t].last = NoControl \/ rx'[t].last.seq < n + 1
      <4>1. rx[t].last.seq \in Nat
        BY <1>1, StatusTypes
      <4> QED BY <1>1, <2>7, <4>1 DEF Numbered
    <3> QED BY <2>9, <3>1, <3>2, <3>3 DEF Numbered
  <2>11. ASSUME NEW u \in Txop \ {t} PROVE (\E m \in Nat : Numbered(u, m))'
    <3>1. PICK m \in Nat : Numbered(u, m)
      BY DEF Numbers
    <3>2. /\ nextSeq'[u] = nextSeq[u] /\ hdr'[u] = hdr[u] /\ current'[u] = current[u]
          /\ queue'[u] = queue[u]
      BY <1>1, <2>1 DEF TypeOK
    <3>3. Taken(u)' = Taken(u)
      BY <1>1, <3>2 DEF Taken, Waiting
    <3> QED BY <1>1, <3>1, <3>2, <3>3 DEF Numbered
  <2>12. (\E m \in Nat : Numbered(t, m))'
    BY <2>10
  <2> QED BY <2>11, <2>12 DEF Numbers
<1> QED BY <1>2, <1>3

LEMMA OtherNumbers ==
  ASSUME TypeOK, TypeOK', NumbersSuffice, Numbers, NEW t \in Txop, SendToOther(t)
  PROVE  Numbers'
<1>1. /\ others < MaxOthers /\ others' = others + 1 /\ current[t] = NoPacket
      /\ nextSeq' = [nextSeq EXCEPT ![t] = GetNextSequenceNumber(@)]
      /\ UNCHANGED <<fresh, queue, current, hdr, rx, sleeps>>
  BY DEF SendToOther, rxVars
<1>2. others \in Nat /\ sleeps \in Nat
  BY LimitAssumption DEF TypeOK
<1>3. ASSUME NEW u \in Txop
      PROVE  /\ Cardinality(Taken(u)) \in Nat /\ Taken(u)' = Taken(u)
             /\ \A n \in Nat : n <= Cardinality(Taken(u)) + others + sleeps
                                 => n + 1 <= (Cardinality(Taken(u)) + others + sleeps)'
  <2>1. Cardinality(Taken(u)) \in Nat /\ Taken(u)' = Taken(u)
    BY <1>1, TakenFinite, TakenSame DEF Taken
  <2> QED BY <1>1, <1>2, <2>1
<1>4. (\E m \in Nat : Numbered(t, m))'
  <2>1. PICK n \in Nat : Numbered(t, n)
    BY DEF Numbers
  <2>2. n < SeqMod
    BY <1>1, <2>1, NumberBound
  <2>3. nextSeq'[t] = (n + 1) % SeqMod
    BY <1>1, <2>1, <2>2, Draws DEF Numbered, TypeOK
  <2>4. rx'[t].last = NoControl \/ rx'[t].last.seq < n + 1
    <3>1. rx[t].last.seq \in Nat
      BY StatusTypes
    <3> QED BY <1>1, <2>1, <3>1 DEF Numbered
  <2>5. Numbered(t, n + 1)'
    BY <1>1, <1>3, <2>1, <2>3, <2>4 DEF Numbered
  <2> QED BY <2>5
<1>5. ASSUME NEW u \in Txop \ {t} PROVE (\E m \in Nat : Numbered(u, m))'
  <2>1. PICK m \in Nat : Numbered(u, m)
    BY DEF Numbers
  <2>2. nextSeq'[u] = nextSeq[u]
    BY <1>1 DEF TypeOK
  <2>3. m <= (Cardinality(Taken(u)) + others + sleeps)'
    <3>1. m + 1 <= (Cardinality(Taken(u)) + others + sleeps)' /\ Cardinality(Taken(u)) \in Nat
      BY <1>3, <2>1 DEF Numbered
    <3> QED BY <1>1, <1>2, <1>3, <3>1
  <2> QED BY <1>1, <2>1, <2>2, <2>3 DEF Numbered
<1> QED BY <1>4, <1>5 DEF Numbers

(* Of the steps of a transaction only the last timeout may be one at which *)
(* the station falls asleep.                                               *)
LEMMA TransactionSleeps ==
  ASSUME Transaction
  PROVE  \/ /\ FallAsleep /\ NormalAckTimeout /\ UNCHANGED hdr
            /\ MissedAckAsleep(low.frame.txop)
         \/ UNCHANGED <<queue, asleep, sleeps>>
<1>1. CASE NormalAckTimeout
  BY <1>1 DEF NormalAckTimeout, MissedAck, MissedAckAsleep, StayAwake
<1>2. CASE GotCts \/ SendDataAfterCts \/ GotAck \/ StartNext \/ CtsTimeout
  BY <1>2 DEF GotCts, SendDataAfterCts, GotAck, StartNext, CtsTimeout, txopVars
<1> QED BY <1>1, <1>2 DEF Transaction

(* Sleep gives at most one packet of a function back to its queue. *)
LEMMA SleepNumbers ==
  ASSUME TypeOK, TypeOK', Placement, Numbers, FallAsleep,
         UNCHANGED <<fresh, nextSeq, hdr, rx, others>>
  PROVE  Numbers'
<1>1. sleeps' = sleeps + 1 /\ \A t \in Txop : current'[t] = NoPacket
  BY DEF FallAsleep
<1> SUFFICES ASSUME NEW t \in Txop PROVE (\E n \in Nat : Numbered(t, n))'
  BY DEF Numbers
<1>2. Waiting(t)' \subseteq Waiting(t) \cup {current[t]}
  <2>1. queue[t] \in Seq(Packet) /\ (current[t] # NoPacket => current[t] \in Packet)
    BY PlaceTypes
  <2>2. queue'[t] = queue[t] \/ (current[t] # NoPacket /\ queue'[t] = <<current[t]>> \o queue[t])
    BY DEF FallAsleep, Back
  <2> QED BY <2>1, <2>2, PutBack DEF Waiting
<1>3. Cardinality(Taken(t)) <= Cardinality(Taken(t)') + 1
  <2>1. Taken(t) \ {current[t]} \subseteq Taken(t)'
    BY <1>1, <1>2 DEF Taken
  <2>2. IsFiniteSet(Taken(t)) /\ Cardinality(Taken(t)) \in Nat
    BY TakenFinite DEF Taken
  <2>3. /\ Cardinality(Taken(t) \ {current[t]}) \in Nat /\ Cardinality(Taken(t)') \in Nat
        /\ Cardinality(Taken(t) \ {current[t]}) <= Cardinality(Taken(t)')
    BY <2>1, TakenFinite DEF Taken
  <2>4. Cardinality(Taken(t) \ {current[t]}) =
          IF current[t] \in Taken(t) THEN Cardinality(Taken(t)) - 1 ELSE Cardinality(Taken(t))
    BY <2>2, FS_RemoveElement
  <2> QED BY <2>2, <2>3, <2>4
<1>4. PICK n \in Nat : Numbered(t, n)
  BY DEF Numbers
<1>5. /\ Cardinality(Taken(t)) + others + sleeps <= (Cardinality(Taken(t)) + others + sleeps)'
      /\ (Cardinality(Taken(t)) + others + sleeps)' \in Nat
  <2>1. Cardinality(Taken(t)) \in Nat /\ Cardinality(Taken(t)') \in Nat
    BY TakenFinite DEF Taken
  <2>2. others \in Nat /\ sleeps \in Nat
    BY LimitAssumption DEF TypeOK
  <2> QED BY <1>1, <1>3, <2>1, <2>2
<1> QED BY <1>1, <1>4, <1>5, NumberKept

-----------------------------------------------------------------------------
(* Frames, and what the receiver has of the current packet.                *)

(* The data frame in the air is the one MacLow waits an answer for, and it *)
(* carries the current fragment of its function.                           *)
Sent(t) == GetFragmentPacket(t, current[t], fragment[t], hdr[t])
Exchange ==
  /\ low.stage # "idle" => low.frame = Sent(low.frame.txop)
  /\ air \in DataFrame => low.stage = "ack" /\ air = low.frame
  /\ reply # "none" => air = NoFrame
  /\ low.stage \in {"sifs", "next"} => air = NoFrame /\ reply = "none"
  /\ low.stage = "cts" => reply # "ack" /\ air # [kind |-> "ack"]

(* The first j fragments of a packet. *)
Prefix(p, j) == [i \in 1..j |-> [packet |-> p, part |-> i - 1]]

(* The receiver still assembles an older packet and takes no fragment; it  *)
(* waits for the current fragment; it has taken it.                        *)
Stuck(t) == rx[t].parts # <<>> /\ rx[t].last.seq # hdr[t].seq
Ready(t) ==
  IF fragment[t] = 0
    THEN rx[t].parts = <<>> /\ rx[t].last.seq # hdr[t].seq
    ELSE /\ rx[t].parts = Prefix(current[t], fragment[t])
         /\ rx[t].last = [seq |-> hdr[t].seq, frag |-> fragment[t] - 1]
Passed(t) ==
  /\ rx[t].last = [seq |-> hdr[t].seq, frag |-> fragment[t]]
  /\ rx[t].parts = IF IsLastFragment(current[t], fragment[t]) THEN <<>>
                   ELSE Prefix(current[t], fragment[t] + 1)

Answered(t) == /\ Serves(t)
               /\ \/ low.stage = "next"
                  \/ low.stage = "ack" /\ (reply = "ack" \/ air = [kind |-> "ack"])
Delivered(t) == Serves(t) /\ low.stage \in {"ack", "next"} /\ air \notin DataFrame

(* A fragment that was taken is sent again with the retry bit only; what   *)
(* is acknowledged was taken, unless the receiver is stuck.                *)
Fragmentary(t) ==
  current[t] # NoPacket =>
    /\ fragment[t] < Frags[current[t]]
    /\ Stuck(t) \/ Ready(t) \/ (Passed(t) /\ (hdr[t].retry \/ Delivered(t)))
    /\ Answered(t) => Stuck(t) \/ Passed(t)
    /\ Serves(t) /\ low.stage = "next" => ~IsLastFragment(current[t], fragment[t])
Reassembly == \A t \in Txop : Fragmentary(t)

LEMMA Kinds ==
  /\ NoFrame \notin DataFrame
  /\ \A k \in {"rts", "cts", "ack"} : [kind |-> k] \notin DataFrame /\ [kind |-> k] # NoFrame
  /\ [kind |-> "rts"] # [kind |-> "ack"] /\ [kind |-> "cts"] # [kind |-> "ack"]
  /\ \A f \in DataFrame : f # NoFrame /\ \A k \in {"rts", "cts", "ack"} : f # [kind |-> k]
<1>1. \A f \in DataFrame : f.kind = "data"
  BY DEF DataFrame
<1>2. NoFrame.kind = "none" /\ \A k : [kind |-> k].kind = k
  BY DEF NoFrame
<1> QED BY <1>1, <1>2

(* What is sent on access is the current fragment of the function.         *)
LEMMA AccessSends ==
  ASSUME TypeInv, TypeInv', QosUnfragmented, Placement, Placement', Reassembly,
         NEW t \in Txop, NotifyAccessGranted(t)
  PROVE  /\ current'[t] \in Packet /\ fragment'[t] < Frags[current'[t]]
         /\ Sent(t)' \in DataFrame /\ Sent(t)'.txop = t
         /\ \/ low' = [stage |-> "ack", frame |-> Sent(t)'] /\ air' = Sent(t)'
            \/ low' = [stage |-> "cts", frame |-> Sent(t)'] /\ air' = [kind |-> "rts"]
<1> DEFINE f == FrameOnAccess(t, current'[t], fragment'[t], hdr'[t])
<1>1. TypeOK /\ TypeOK'
  BY DEF TypeInv
<1>2. StartTransmission(f, NeedRts(t, current'[t]))
  BY <1>1 DEF NotifyAccessGranted, TypeOK
<1>3. current'[t] \in Packet /\ Owner[current'[t]] = t
  <2>1. current'[t] # NoPacket
    <3>1. CASE current[t] = NoPacket
      <4>1. queue[t] \in Seq(Packet) /\ queue[t] # <<>> /\ current'[t] = Head(queue[t])
        BY <1>1, <3>1 DEF NotifyAccessGranted, TypeOK
      <4> QED BY <1>1, <4>1, PlaceTypes
    <3>2. CASE current[t] # NoPacket
      BY <3>2 DEF NotifyAccessGranted
    <3> QED BY <3>1, <3>2
  <2>2. current'[t] \in Packet \cup {NoPacket}
    BY <1>1 DEF TypeOK
  <2> QED BY <2>1, <2>2 DEF Placement, Owned
<1>4. fragment'[t] \in Nat /\ fragment'[t] < Frags[current'[t]]
  <2>1. CASE current[t] = NoPacket
    <3>1. fragment'[t] = 0
      BY <1>1, <2>1 DEF NotifyAccessGranted, TypeOK
    <3>2. Frags[current'[t]] \in Nat \ {0}
      BY <1>3, TxopAssumption
    <3> QED BY <3>1, <3>2
  <2>2. CASE current[t] # NoPacket
    <3>1. UNCHANGED <<current, fragment>>
      BY <2>2 DEF NotifyAccessGranted
    <3>2. fragment[t] < Frags[current[t]]
      BY <2>2 DEF Reassembly, Fragmentary
    <3> QED BY <1>1, <3>1, <3>2 DEF TypeOK
  <2> QED BY <2>1, <2>2
<1>5. hdr'[t] \in Header
  BY <1>1, SMTT(30) DEF TypeOK, Header
<1>6. Sent(t)' \in DataFrame /\ Sent(t)'.txop = t
  BY <1>3, <1>4, <1>5, FragmentIsFrame DEF Sent
<1>7. f = Sent(t)'
  <2>1. CASE t \in Qos
    <3>1. fragment'[t] = 0 /\ Frags[current'[t]] = 1
      BY <1>3, <1>4, <2>1 DEF QosUnfragmented
    <3>2. Sent(t)' = [kind |-> "data", txop |-> t, body |-> [packet |-> current'[t], part |-> 0],
                      control |-> [seq |-> hdr'[t].seq, frag |-> 0],
                      more |-> FALSE, retry |-> hdr'[t].retry]
      <4>1. IsLastFragment(current'[t], fragment'[t])
        BY <3>1 DEF IsLastFragment
      <4> QED BY <3>1, <4>1 DEF Sent, GetFragmentPacket
    <3>3. f = [Sent(t)' EXCEPT !.control = [seq |-> hdr'[t].seq, frag |-> 0], !.more = FALSE]
      BY <2>1 DEF FrameOnAccess, Sent
    <3> DEFINE g == Sent(t)'
               c == [seq |-> hdr'[t].seq, frag |-> 0]
    <3>4. g \in DataFrame /\ g.control = c /\ g.more = FALSE /\ c \in SeqControl
      BY <1>6, <3>2 DEF DataFrame
    <3>5. f = [g EXCEPT !.control = c, !.more = FALSE]
      BY <3>3
    <3>6. /\ f \in DataFrame /\ f.control = c /\ f.more = FALSE
          /\ f.kind = g.kind /\ f.txop = g.txop /\ f.body = g.body /\ f.retry = g.retry
      <4> HIDE DEF f, g, c
      <4> QED BY <3>4, <3>5 DEF DataFrame
    <3>7. f = g
      <4> HIDE DEF f, g, c
      <4> QED BY <3>4, <3>6 DEF DataFrame
    <3> QED BY <3>7
  <2>2. CASE t \notin Qos
    BY <2>2 DEF FrameOnAccess, Sent
  <2> QED BY <2>1, <2>2
<1> HIDE DEF f
<1> QED BY <1>2, <1>3, <1>4, <1>6, <1>7 DEF StartTransmission, SendData

LEMMA ExchangeStep ==
  ASSUME TypeInv, TypeInv', QosUnfragmented, Placement, Placement', Reassembly, Exchange, [Next]_vars
  PROVE  Exchange'
<1>1. TypeOK /\ (low = Idle \/ (low.stage # "idle" /\ low.frame \in DataFrame /\ low.frame.txop \in Txop))
  BY IdleOrBusy DEF TypeInv
<1>2. Idle.stage = "idle"
  BY DEF Idle
<1>3. ASSUME UNCHANGED <<current, fragment, hdr>>, low'.frame = low.frame,
             low.stage # "idle"
      PROVE  low'.frame = Sent(low.frame.txop)'
  BY <1>3 DEF Exchange, Sent
<1>4. ASSUME NEW p \in Packet, Queue(p) PROVE Exchange'
  BY <1>2, <1>1, <1>4 DEF Exchange, Sent, Queue, rxVars
<1>5. ASSUME NEW t \in Txop, NotifyAccessGranted(t) PROVE Exchange'
  <2>1. reply' = "none"
    BY <1>5 DEF NotifyAccessGranted, MediumIdle, rxVars
  <2>2. /\ Sent(t)' \in DataFrame /\ Sent(t)'.txop = t
        /\ \/ low' = [stage |-> "ack", frame |-> Sent(t)'] /\ air' = Sent(t)'
           \/ low' = [stage |-> "cts", frame |-> Sent(t)'] /\ air' = [kind |-> "rts"]
    BY <1>5, AccessSends
  <2> QED BY <2>1, <2>2, Kinds DEF Exchange
<1>6. ASSUME NEW t \in Txop, SendToOther(t) PROVE Exchange'
  BY <1>1, <1>6 DEF Exchange, Sent, SendToOther, rxVars
<1>7. CASE GotCts
  BY <1>1, <1>2, <1>7, Kinds DEF Exchange, Sent, GotCts, Arrives, txopVars, rxVars
<1>8. CASE SendDataAfterCts
  BY <1>1, <1>2, <1>8, Kinds DEF Exchange, Sent, SendDataAfterCts, SendData, txopVars, rxVars
<1>9. CASE GotAck
  <2>1. air' = NoFrame /\ reply' = "none"
    BY <1>9, Kinds DEF GotAck, Arrives, Exchange, rxVars
  <2>2. low' = Idle \/ (low' = [low EXCEPT !.stage = "next"] /\ UNCHANGED <<current, fragment, hdr>>)
    BY <1>9 DEF GotAck
  <2>3. CASE low' = Idle
    BY <1>2, <2>1, <2>3, Kinds DEF Exchange
  <2>4. CASE low' = [low EXCEPT !.stage = "next"] /\ UNCHANGED <<current, fragment, hdr>>
    <3>1. low \in Busy
      BY <1>2, <1>9, IdleOrBusy DEF GotAck, Arrives, TypeInv, TypeOK, Busy
    <3>2. low'.stage = "next" /\ low'.frame = low.frame
      BY <2>4, <3>1 DEF Busy
    <3> QED BY <1>9, <2>1, <2>4, <3>2, Kinds DEF Exchange, Sent, GotAck, Arrives
  <2> QED BY <2>2, <2>3, <2>4
<1>10. CASE StartNext
  <2>1. PICK t \in Txop : t = low.frame.txop
    BY <1>1, <1>2, <1>10 DEF StartNext
  <2>2. /\ fragment' = [fragment EXCEPT ![t] = fragment[t] + 1]
        /\ SendData(GetFragmentPacket(t, current[t], fragment[t] + 1, hdr[t]))
        /\ low.stage = "next" /\ UNCHANGED <<current, hdr, reply>>
    BY <1>10, <2>1 DEF StartNext, rxVars
  <2>3. Sent(t)' = GetFragmentPacket(t, current[t], fragment[t] + 1, hdr[t])
    BY <1>1, <2>2 DEF Sent, TypeOK
  <2>4. air' = Sent(t)' /\ low' = [stage |-> "ack", frame |-> Sent(t)']
    BY <2>2, <2>3 DEF SendData
  <2>5. Sent(t)'.txop = t /\ reply' = "none"
    BY <2>2 DEF Sent, GetFragmentPacket, Exchange
  <2> QED BY <2>4, <2>5, Kinds DEF Exchange
<1>11. CASE CtsTimeout \/ NormalAckTimeout
  <2>1. low' = Idle /\ air' = NoFrame /\ reply' = "none"
    BY <1>11 DEF CtsTimeout, NormalAckTimeout, TimesOut, rxVars
  <2> QED BY <1>2, <2>1, Kinds DEF Exchange
<1>12. CASE ReceiveRts \/ ReceiveData \/ SendReply \/ Lose
  <2>1. UNCHANGED <<low, current, fragment, hdr>> /\ air' \notin DataFrame /\ (reply' # "none" => air' = NoFrame)
    <3>1. reply \in {"ack", "cts", "none"}
      BY <1>1 DEF TypeOK
    <3> QED BY <1>12, <3>1, Kinds DEF ReceiveRts, ReceiveData, SendReply, Lose, txopVars, rxVars
  <2>2. low.stage \in {"sifs", "next"} => air' = NoFrame /\ reply' = "none"
    BY <1>12, Kinds DEF ReceiveRts, ReceiveData, SendReply, Lose, rxVars, Exchange
  <2>3. low.stage = "cts" => reply' # "ack" /\ air' # [kind |-> "ack"]
    BY <1>12, Kinds DEF ReceiveRts, ReceiveData, SendReply, Lose, rxVars, Exchange
  <2>4. low.stage # "idle" => low'.frame = Sent(low.frame.txop)'
    BY <2>1 DEF Exchange, Sent
  <2> QED BY <2>1, <2>2, <2>3, <2>4 DEF Exchange
<1>13. CASE ReceiverSleeps
  BY <1>13 DEF ReceiverSleeps, Exchange, Sent, txopVars
<1>14. CASE SenderSleeps
  BY <1>2, <1>14, Kinds DEF SenderSleeps, Exchange, rxVars
<1>15. CASE \E side \in {"sender", "receiver"} : WakeUp(side)
  BY <1>15 DEF WakeUp, Exchange, Sent, txopVars, rxVars
<1>16. CASE UNCHANGED vars
  BY <1>16 DEF vars, Exchange, Sent, txopVars, rxVars
<1> QED BY <1>4, <1>5, <1>6, <1>7, <1>8, <1>9, <1>10, <1>11, <1>12, <1>13, <1>14, <1>15, <1>16
        DEF Next, Transaction, Answer

(* The receiver has as much of the current packet of t as before. *)
LEMMA FragmentKept ==
  ASSUME NEW t \in Txop, Fragmentary(t),
         current'[t] # NoPacket => /\ current'[t] = current[t] /\ fragment'[t] = fragment[t]
                                   /\ hdr'[t].seq = hdr[t].seq /\ rx'[t] = rx[t]
                                   /\ Passed(t) /\ (hdr[t].retry \/ Delivered(t))
                                        => hdr'[t].retry \/ Delivered(t)'
                                   /\ Answered(t)' => Stuck(t) \/ Passed(t)
                                   /\ Serves(t)' /\ low'.stage = "next"
                                        => ~IsLastFragment(current[t], fragment[t])
  PROVE  Fragmentary(t)'
<1> SUFFICES ASSUME current'[t] # NoPacket PROVE Fragmentary(t)'
  BY DEF Fragmentary
<1>1. (Stuck(t)' <=> Stuck(t)) /\ (Ready(t)' <=> Ready(t)) /\ (Passed(t)' <=> Passed(t))
  BY DEF Stuck, Ready, Passed
<1> QED BY <1>1 DEF Fragmentary

LEMMA Prefixes ==
  ASSUME NEW p, NEW k \in Nat
  PROVE  /\ Prefix(p, 0) = <<>>
         /\ Append(Prefix(p, k), [packet |-> p, part |-> k]) = Prefix(p, k + 1)
         /\ Prefix(p, k + 1) # <<>>
<1>1. \A j \in Nat : Prefix(p, j) \in Seq([packet : {p}, part : Nat]) /\ Len(Prefix(p, j)) = j
  <2> SUFFICES ASSUME NEW j \in Nat
               PROVE Prefix(p, j) \in Seq([packet : {p}, part : Nat]) /\ Len(Prefix(p, j)) = j
    OBVIOUS
  <2>1. \A i \in 1..j : [packet |-> p, part |-> i - 1] \in [packet : {p}, part : Nat]
    OBVIOUS
  <2> QED BY <2>1 DEF Prefix
<1>2. Prefix(p, 0) = <<>>
  BY <1>1
<1>3. Prefix(p, k + 1) # <<>>
  <2>1. Len(Prefix(p, k + 1)) = k + 1
    BY <1>1
  <2> QED BY <2>1
<1> DEFINE e == [packet |-> p, part |-> k]
           q == Prefix(p, k)
           r == Append(q, e)
           s == Prefix(p, k + 1)
           F == [packet : {p}, part : Nat]
<1>4. /\ q \in Seq(F) /\ Len(q) = k /\ e \in F
      /\ s \in Seq(F) /\ Len(s) = k + 1
      /\ \A i \in 1..k : q[i] = s[i]
      /\ s[k + 1] = e
  <2>1. q \in Seq(F) /\ Len(q) = k /\ s \in Seq(F) /\ Len(s) = k + 1
    <3>1. k + 1 \in Nat
      OBVIOUS
    <3> QED BY <1>1, <3>1
  <2>2. \A i \in 1..(k + 1) : s[i] = [packet |-> p, part |-> i - 1]
    BY DEF Prefix
  <2>3. \A i \in 1..k : q[i] = [packet |-> p, part |-> i - 1]
    BY DEF Prefix
  <2>4. s[k + 1] = e
    <3>1. k + 1 \in 1..(k + 1) /\ (k + 1) - 1 = k
      OBVIOUS
    <3> QED BY <2>2, <3>1
  <2>5. 1..k \subseteq 1..(k + 1)
    OBVIOUS
  <2> QED BY <2>1, <2>2, <2>3, <2>4, <2>5
<1>5. r = s
  <2> HIDE DEF q, s, e, F
  <2>1. r \in Seq(F) /\ Len(r) = k + 1 /\ r[k + 1] = e /\ \A i \in 1..k : r[i] = q[i]
    BY <1>4
  <2>2. \A i \in 1..(k + 1) : r[i] = s[i]
    <3> SUFFICES ASSUME NEW i \in 1..(k + 1) PROVE r[i] = s[i]
      OBVIOUS
    <3>1. i = k + 1 \/ i \in 1..k
      OBVIOUS
    <3> HIDE DEF r
    <3> QED BY <1>4, <2>1, <3>1
  <2> HIDE DEF r
  <2> QED BY <1>4, <2>1, <2>2
<1> QED BY <1>2, <1>3, <1>5

(* The receiver of a data frame. *)
LEMMA Reception ==
  ASSUME TypeInv, Exchange, Reassembly, Numbers, ReceiveData
  PROVE  \E t \in Txop :
           /\ Serves(t) /\ low.stage = "ack" /\ air = Sent(t) /\ current[t] \in Packet
           /\ \A u \in Txop \ {t} : rx'[u] = rx[u] /\ up'[u] = up[u]
           /\ \/ /\ Stuck(t) \/ (Passed(t) /\ hdr[t].retry)
                 /\ rx'[t] = rx[t] /\ up'[t] = up[t]
              \/ /\ Ready(t) /\ Passed(t)' 
                 /\ IF IsLastFragment(current[t], fragment[t])
                      THEN up'[t] = Append(up[t], Whole(current[t]))
                      ELSE up'[t] = up[t]
<1>1. TypeOK /\ air \in DataFrame /\ air = low.frame /\ low.stage = "ack" /\ air.txop \in Txop
  BY DEF ReceiveData, Exchange, TypeInv, DataFrame
<1>2. PICK t \in Txop : t = air.txop
  BY <1>1
<1>3. /\ Serves(t) /\ air = Sent(t) /\ current[t] # NoPacket /\ current[t] \in Packet
  BY <1>1, <1>2 DEF Serves, Exchange, TypeInv, InService, TypeOK
<1> DEFINE p == current[t]
           k == fragment[t]
<1>4. /\ air.body = [packet |-> p, part |-> k]
      /\ air.control = [seq |-> hdr[t].seq, frag |-> k]
      /\ air.more = ~IsLastFragment(p, k) /\ air.retry = hdr[t].retry
      /\ k \in Nat /\ k < Frags[p] /\ Frags[p] \in Nat /\ hdr[t].retry \in BOOLEAN
  <2>1. Frags[p] \in Nat
    BY <1>3, TxopAssumption
  <2>2. k \in Nat /\ hdr[t].retry \in BOOLEAN
    BY <1>1 DEF TypeOK
  <2>3. k < Frags[p]
    BY <1>3 DEF Reassembly, Fragmentary
  <2> QED BY <1>3, <2>1, <2>2, <2>3 DEF Sent, GetFragmentPacket
<1>5. Stuck(t) \/ Ready(t) \/ (Passed(t) /\ hdr[t].retry)
  BY <1>1, <1>3 DEF Reassembly, Fragmentary, Delivered
<1>6. rx[t].last \in SeqControl /\ rx[t].last.seq \in Nat /\ rx[t].last.frag \in Nat
  BY <1>1, StatusTypes
<1>7. UNCHANGED <<current, fragment, hdr>>
  BY DEF ReceiveData, txopVars
<1>8. RxMiddleReceive(air)
  BY DEF ReceiveData
<1> DEFINE parts == Append(rx[t].parts, air.body)
           taken == /\ ~IsDuplicate(air)
                    /\ rx[t].parts # <<>> => IsNextFragment(rx[t].last, air.control)
<1>9. /\ taken /\ air.more => /\ rx' = [rx EXCEPT ![t] = [last |-> air.control, parts |-> parts]]
                              /\ UNCHANGED up
      /\ taken /\ ~air.more => /\ rx' = [rx EXCEPT ![t] = [last |-> air.control, parts |-> <<>>]]
                               /\ up' = [up EXCEPT ![t] = Append(@, parts)]
      /\ ~taken => UNCHANGED <<rx, up>>
  BY <1>2, <1>8 DEF RxMiddleReceive
<1>10. \A u \in Txop \ {t} : rx'[u] = rx[u] /\ up'[u] = up[u]
  <2> HIDE DEF taken, parts
  <2> QED BY <1>1, <1>9 DEF TypeOK
<1>11. CASE Stuck(t)
  <2>1. ~taken
    BY <1>4, <1>11 DEF Stuck, IsNextFragment
  <2> HIDE DEF taken
  <2> QED BY <1>1, <1>3, <1>9, <1>10, <1>11, <2>1
<1>12. CASE Passed(t) /\ hdr[t].retry
  <2>1. ~taken
    BY <1>2, <1>4, <1>12 DEF Passed, IsDuplicate
  <2> HIDE DEF taken
  <2> QED BY <1>1, <1>3, <1>9, <1>10, <1>12, <2>1
<1>13. CASE Ready(t)
  <2>1. taken
    <3>1. CASE k = 0
      BY <1>2, <1>4, <1>6, <1>13, <3>1 DEF Ready, IsDuplicate
    <3>2. CASE k # 0
      <4>1. rx[t].last = [seq |-> hdr[t].seq, frag |-> k - 1]
        BY <1>13, <3>2 DEF Ready
      <4>2. rx[t].last.seq = hdr[t].seq /\ rx[t].last.frag = k - 1
        BY <4>1
      <4>3. air.control.seq = hdr[t].seq /\ air.control.frag = k
        BY <1>4
      <4> QED BY <1>2, <1>4, <4>2, <4>3 DEF IsDuplicate, IsNextFragment
    <3> QED BY <3>1, <3>2
  <2>2. parts = Prefix(p, k + 1)
    <3>1. rx[t].parts = Prefix(p, k)
      BY <1>4, <1>13, Prefixes DEF Ready
    <3> QED BY <1>4, <3>1, Prefixes
  <2>3. Prefix(p, Frags[p]) = Whole(p)
    BY DEF Prefix, Whole
  <2> HIDE DEF taken, parts
  <2>4. rx'[t] = [last |-> air.control, parts |-> IF air.more THEN parts ELSE <<>>]
    BY <1>1, <1>4, <1>9, <2>1 DEF TypeOK
  <2>5. Passed(t)'
    <3>1. /\ rx'[t].last = [seq |-> hdr[t].seq, frag |-> k]
          /\ rx'[t].parts = IF IsLastFragment(p, k) THEN <<>> ELSE Prefix(p, k + 1)
      <4>1. rx'[t].last = air.control /\ rx'[t].parts = IF air.more THEN parts ELSE <<>>
        BY <2>4
      <4>2. CASE IsLastFragment(p, k)
        BY <1>4, <4>1, <4>2
      <4>3. CASE ~IsLastFragment(p, k)
        BY <1>4, <2>2, <4>1, <4>3
      <4> QED BY <4>2, <4>3
    <3> QED BY <1>7, <3>1 DEF Passed
  <2>6. IF IsLastFragment(p, k) THEN up'[t] = Append(up[t], Whole(p)) ELSE up'[t] = up[t]
    <3>1. CASE IsLastFragment(p, k)
      <4>1. k + 1 = Frags[p]
        BY <1>4, <3>1 DEF IsLastFragment
      <4>2. parts = Whole(p)
        BY <2>2, <2>3, <4>1
      <4> QED BY <1>1, <1>4, <1>9, <2>1, <3>1, <4>2 DEF TypeOK
    <3>2. CASE ~IsLastFragment(p, k)
      BY <1>4, <1>9, <2>1, <3>2
    <3> QED BY <3>1, <3>2
  <2> QED BY <1>1, <1>3, <1>10, <1>13, <2>5, <2>6
<1> QED BY <1>5, <1>11, <1>12, <1>13

LEMMA NumbersStep ==
  ASSUME TypeInv, TypeInv', Placement, NumbersSuffice, Exchange, Reassembly, Numbers, [Next]_vars
  PROVE  Numbers'
<1>1. TypeOK /\ TypeOK'
  BY DEF TypeInv
<1>2. CASE \E p \in Packet : Queue(p)
  BY <1>1, <1>2, QueueNumbers
<1>3. CASE \E t \in Txop : NotifyAccessGranted(t)
  BY <1>1, <1>3, AccessNumbers
<1>4. CASE \E t \in Txop : SendToOther(t)
  BY <1>1, <1>4, OtherNumbers
<1>5. CASE SenderSleeps
  BY <1>1, <1>5, SleepNumbers DEF SenderSleeps, rxVars
<1>6. CASE ReceiveData
  <2>1. UNCHANGED <<fresh, queue, current, hdr, fragment, nextSeq, others, sleeps>>
    BY <1>6 DEF ReceiveData, txopVars
  <2>2. PICK t \in Txop :
           /\ current[t] \in Packet
           /\ \A u \in Txop \ {t} : rx'[u] = rx[u]
           /\ rx'[t] = rx[t] \/ Passed(t)'
    BY <1>6, Reception
  <2>3. \A u \in Txop : Taken(u)' = Taken(u)
    BY <2>1, TakenSame
  <2> SUFFICES ASSUME NEW u \in Txop PROVE (\E n \in Nat : Numbered(u, n))'
    BY DEF Numbers
  <2>4. PICK n \in Nat : Numbered(u, n)
    BY DEF Numbers
  <2>5. rx'[u].last = NoControl \/ rx'[u].last.seq < n
    <3>1. CASE rx'[u] = rx[u]
      BY <2>4, <3>1 DEF Numbered
    <3>2. CASE u = t /\ Passed(t)'
      <4>1. rx'[u].last.seq = hdr[u].seq
        BY <2>1, <3>2 DEF Passed
      <4>2. current[u] # NoPacket
        BY <1>1, <2>2, <3>2, PlaceTypes
      <4>3. hdr[u].seq = n - 1
        BY <2>4, <4>2 DEF Numbered
      <4> QED BY <4>1, <4>3
    <3> QED BY <2>2, <3>1, <3>2
  <2>6. /\ nextSeq'[u] = nextSeq[u]
        /\ n <= (Cardinality(Taken(u)) + others + sleeps)'
        /\ current'[u] # NoPacket => hdr'[u].seq = n - 1
    BY <2>1, <2>3, <2>4 DEF Numbered
  <2>7. Numbered(u, n)'
    BY <2>1, <2>4, <2>5, <2>6 DEF Numbered
  <2> QED BY <2>7
<1>7. ASSUME UNCHANGED <<fresh, queue, nextSeq, rx, others, sleeps>>,
             \A t \in Txop : current'[t] # NoPacket => current[t] # NoPacket /\ hdr'[t].seq = hdr[t].seq
      PROVE  Numbers'
  BY <1>1, <1>7, TakenSame, NumbersKept
<1>8. CASE Transaction
  <2>1. /\ UNCHANGED <<fresh, nextSeq, rx, others>>
        /\ (FallAsleep /\ UNCHANGED hdr) \/ UNCHANGED <<queue, sleeps>>
    <3>1. UNCHANGED <<fresh, nextSeq, rx, others>>
      BY <1>8 DEF Transaction, GotCts, SendDataAfterCts, GotAck, StartNext, CtsTimeout, NormalAckTimeout,
                  txopVars, rxVars
    <3> QED BY <1>8, <3>1, TransactionSleeps
  <2>2. \A t \in Txop : hdr'[t].seq = hdr[t].seq
    <3>1. UNCHANGED hdr \/ \E u : hdr' = [hdr EXCEPT ![u].retry = TRUE]
      BY <1>8 DEF Transaction, GotCts, SendDataAfterCts, GotAck, StartNext, CtsTimeout, NormalAckTimeout,
                  MissedAck, txopVars
    <3>2. hdr \in [Txop -> Header]
      BY <1>1, SMTT(30) DEF TypeOK, Header
    <3> QED BY <3>1, <3>2 DEF Header
  <2>3. \A t \in Txop : current'[t] = NoPacket \/ current'[t] = current[t]
    BY <1>1, <1>8 DEF TypeOK, Transaction, GotCts, SendDataAfterCts, GotAck, StartNext, CtsTimeout,
                      NormalAckTimeout, MissedAck, MissedAckAsleep, FallAsleep, Abandon, txopVars
  <2>4. CASE FallAsleep /\ UNCHANGED hdr
    BY <1>1, <2>1, <2>4, SleepNumbers
  <2> QED BY <1>7, <2>1, <2>2, <2>3, <2>4
<1>9. CASE ReceiveRts \/ SendReply \/ Lose \/ ReceiverSleeps
           \/ (\E side \in {"sender", "receiver"} : WakeUp(side)) \/ UNCHANGED vars
  BY <1>7, <1>9 DEF ReceiveRts, SendReply, Lose, ReceiverSleeps, WakeUp, vars, txopVars, rxVars
<1> QED BY <1>2, <1>3, <1>4, <1>5, <1>6, <1>8, <1>9 DEF Next, Answer

(* A packet that starts, or starts again. *)
LEMMA AccessFragments ==
  ASSUME TypeInv, TypeInv', QosUnfragmented, NumbersSuffice, Placement, Placement',
         Exchange, Reassembly, Numbers, NEW t \in Txop, NotifyAccessGranted(t)
  PROVE  Reassembly'
<1>1. TypeOK /\ TypeOK' /\ low = Idle /\ reply' = "none" /\ UNCHANGED rx
  BY DEF NotifyAccessGranted, MediumIdle, TypeInv, rxVars
<1>2. /\ current'[t] \in Packet /\ fragment'[t] < Frags[current'[t]]
      /\ Sent(t)' \in DataFrame /\ Sent(t)'.txop = t
      /\ \/ low' = [stage |-> "ack", frame |-> Sent(t)'] /\ air' = Sent(t)'
         \/ low' = [stage |-> "cts", frame |-> Sent(t)'] /\ air' = [kind |-> "rts"]
  BY AccessSends
<1>3. /\ \A u \in Txop : ~Serves(u) /\ ~Delivered(u) /\ (Serves(u)' => u = t)
      /\ low'.stage # "next" /\ ~Answered(t)'
  BY <1>1, <1>2, Kinds DEF Serves, Delivered, Answered, Idle
<1>4. ASSUME NEW u \in Txop \ {t} PROVE Fragmentary(u)'
  <2>1. /\ current'[u] = current[u] /\ hdr'[u] = hdr[u] /\ fragment'[u] = fragment[u]
    BY <1>1 DEF NotifyAccessGranted, TypeOK
  <2>2. ~Answered(u)' /\ Fragmentary(u)
    BY <1>3 DEF Answered, Reassembly
  <2> QED BY <1>1, <1>3, <2>1, <2>2, FragmentKept
<1>5. CASE current[t] # NoPacket
  <2>1. UNCHANGED <<current, hdr, fragment>>
    BY <1>5 DEF NotifyAccessGranted
  <2>2. Fragmentary(t)'
    BY <1>1, <1>3, <2>1, FragmentKept DEF Reassembly
  <2> QED BY <1>4, <2>2 DEF Reassembly
<1>6. CASE current[t] = NoPacket
  <2>1. /\ queue[t] # <<>>
        /\ queue' = [queue EXCEPT ![t] = Tail(@)]
        /\ hdr' = [hdr EXCEPT ![t] = [seq |-> nextSeq[t], retry |-> FALSE]]
        /\ fragment' = [fragment EXCEPT ![t] = 0]
    BY <1>6 DEF NotifyAccessGranted
  <2>2. hdr'[t].seq = nextSeq[t] /\ fragment'[t] = 0
    BY <1>1, <2>1 DEF TypeOK
  <2>3. rx[t].last.seq # nextSeq[t]
    <3>1. PICK n \in Nat : Numbered(t, n)
      BY DEF Numbers
    <3>2. Head(queue[t]) \in OwnedBy(t) /\ Head(queue[t]) \notin Taken(t)
      <4>1. queue[t] \in Seq(Packet) /\ Waiting(t) \subseteq Packet
        BY <1>1, PlaceTypes
      <4>2. Head(queue[t]) \in Waiting(t)
        BY <2>1, <4>1, Popped DEF Waiting
      <4> QED BY <4>1, <4>2 DEF Placement, Owned, OwnedBy, Taken
    <3>3. n < SeqMod /\ SeqMod \in Nat
      BY <1>1, <3>1, <3>2, NumberBound
    <3>4. nextSeq[t] = n
      BY <3>1, <3>3, Draws DEF Numbered
    <3>5. rx[t].last.seq = SeqMod \/ rx[t].last.seq < n
      BY <3>1 DEF Numbered, NoControl
    <3>6. rx[t].last.seq \in Nat
      BY <1>1, StatusTypes
    <3> QED BY <3>3, <3>4, <3>5, <3>6
  <2>4. Stuck(t)' \/ Ready(t)'
    BY <1>1, <2>2, <2>3 DEF Stuck, Ready
  <2>5. Fragmentary(t)'
    BY <1>2, <1>3, <2>4 DEF Fragmentary
  <2> QED BY <1>4, <2>5 DEF Reassembly
<1> QED BY <1>5, <1>6

(* A transaction goes on with the function it is for; the others wait. *)
LEMMA TransactionFragments ==
  ASSUME TypeInv, TypeInv', Exchange, Exchange', Reassembly, Transaction, ~FallAsleep
  PROVE  Reassembly'
<1>1. TypeOK /\ TypeOK' /\ UNCHANGED rx
  BY DEF TypeInv, Transaction, GotCts, SendDataAfterCts, GotAck, StartNext, CtsTimeout, NormalAckTimeout, rxVars
<1>2. low.stage # "idle"
  BY DEF Transaction, GotCts, SendDataAfterCts, GotAck, StartNext, CtsTimeout, NormalAckTimeout, Arrives, TimesOut
<1>3. PICK t \in Txop : t = low.frame.txop /\ current[t] # NoPacket /\ low \in Busy
  <2>1. low \in Busy
    BY <1>2 DEF TypeInv, TypeOK, Idle, Busy
  <2>2. low.frame.txop \in Txop
    BY <1>2, IdleOrBusy DEF TypeInv, Idle
  <2> QED BY <1>2, <2>1, <2>2 DEF TypeInv, InService
<1>4. Serves(t) /\ \A u \in Txop \ {t} : ~Serves(u)
  BY <1>2, <1>3 DEF Serves
<1>5. low'.frame.txop = t \/ low' = Idle
  BY <1>3 DEF Transaction, GotCts, SendDataAfterCts, GotAck, StartNext, CtsTimeout, NormalAckTimeout,
              SendData, GetFragmentPacket, Busy
<1>6. \A u \in Txop \ {t} : ~Serves(u)'
  BY <1>5 DEF Serves, Idle
<1>7. ASSUME NEW u \in Txop \ {t} PROVE Fragmentary(u)'
  <2>1. /\ current'[u] = current[u] /\ fragment'[u] = fragment[u] /\ hdr'[u] = hdr[u]
    BY <1>1, <1>3 DEF TypeOK, Transaction, GotCts, SendDataAfterCts, GotAck, StartNext, CtsTimeout,
                      NormalAckTimeout, MissedAck, MissedAckAsleep, Abandon, txopVars
  <2>2. ~Answered(u)' /\ ~Delivered(u)
    BY <1>4, <1>6 DEF Answered, Delivered
  <2> QED BY <1>1, <1>6, <2>1, <2>2, FragmentKept DEF Reassembly
<1>8. Fragmentary(t)
  BY DEF Reassembly
<1>9. CASE GotCts \/ SendDataAfterCts
  <2>1. UNCHANGED <<current, fragment, hdr>> /\ low.stage \in {"cts", "sifs"} /\ low'.stage \in {"sifs", "ack"}
    BY <1>3, <1>9 DEF GotCts, SendDataAfterCts, Arrives, SendData, txopVars, Busy
  <2>2. reply' = "none" /\ air' # [kind |-> "ack"]
    <3>1. CASE GotCts
      BY <3>1, Kinds DEF GotCts, Arrives, Exchange, rxVars
    <3>2. CASE SendDataAfterCts
      BY <1>3, <3>2, Kinds DEF SendDataAfterCts, SendData, Exchange, rxVars, Busy
    <3> QED BY <1>9, <3>1, <3>2
  <2>3. ~Delivered(t) /\ ~Answered(t)'
    BY <2>1, <2>2 DEF Delivered, Answered
  <2>4. Fragmentary(t)'
    BY <1>1, <1>8, <2>1, <2>3, FragmentKept
  <2> QED BY <1>7, <2>4 DEF Reassembly
<1>10. CASE GotAck
  <2>1. current'[t] = NoPacket \/ (/\ low' = [low EXCEPT !.stage = "next"]
                                   /\ ~IsLastFragment(current[t], fragment[t])
                                   /\ UNCHANGED current)
    BY <1>1, <1>3, <1>10 DEF GotAck, TypeOK
  <2>2. /\ UNCHANGED <<fragment, hdr>> /\ air' = NoFrame
        /\ low.stage = "ack" /\ air = [kind |-> "ack"]
    BY <1>10 DEF GotAck, Arrives
  <2>3. Stuck(t) \/ Passed(t)
    BY <1>3, <1>4, <1>8, <2>2 DEF Fragmentary, Answered
  <2>4. low' = [low EXCEPT !.stage = "next"] => Delivered(t)'
    BY <1>3, <2>2, Kinds DEF Delivered, Serves, Busy
  <2>5. Fragmentary(t)'
    BY <1>1, <1>8, <2>1, <2>2, <2>3, <2>4, FragmentKept, SMTT(40)
  <2> QED BY <1>7, <2>5 DEF Reassembly
<1>11. CASE StartNext
  <2> DEFINE k == fragment[t]
  <2>1. /\ fragment' = [fragment EXCEPT ![t] = k + 1]
        /\ low.stage = "next" /\ UNCHANGED <<current, hdr, reply>>
        /\ low'.stage = "ack" /\ air' = low'.frame
    BY <1>3, <1>11 DEF StartNext, SendData, rxVars
  <2>2. k \in Nat /\ fragment'[t] = k + 1
    BY <1>1, <2>1 DEF TypeOK
  <2>3. Frags[current[t]] \in Nat
    BY <1>1, <1>3, TxopAssumption DEF TypeOK
  <2>4. k < Frags[current[t]] /\ ~IsLastFragment(current[t], k) /\ (Stuck(t) \/ Passed(t))
    BY <1>3, <1>4, <1>8, <2>1 DEF Fragmentary, Answered
  <2>5. k + 1 < Frags[current[t]]
    BY <2>2, <2>3, <2>4 DEF IsLastFragment
  <2>6. Stuck(t) => Stuck(t)'
    BY <1>1, <2>1 DEF Stuck
  <2>7. Passed(t) => Ready(t)'
    <3> SUFFICES ASSUME Passed(t) PROVE Ready(t)'
      OBVIOUS
    <3>1. rx'[t].parts = Prefix(current'[t], k + 1) /\ rx'[t].last = [seq |-> hdr'[t].seq, frag |-> k]
      BY <1>1, <2>1, <2>4 DEF Passed
    <3>2. k + 1 # 0 /\ (k + 1) - 1 = k
      BY <2>2
    <3> QED BY <2>2, <3>1, <3>2 DEF Ready
  <2>8. ~Answered(t)'
    <3>1. reply' = "none"
      BY <2>1 DEF Exchange
    <3>2. air' \in DataFrame
      <4>1. low' # Idle
        BY <2>1 DEF Idle
      <4> QED BY <1>1, <2>1, <4>1 DEF TypeOK
    <3> QED BY <2>1, <3>1, <3>2, Kinds DEF Answered
  <2>9. Fragmentary(t)'
    BY <2>1, <2>2, <2>4, <2>5, <2>6, <2>7, <2>8 DEF Fragmentary
  <2> QED BY <1>7, <2>9 DEF Reassembly
<1>12. CASE CtsTimeout \/ NormalAckTimeout
  <2>1. low' = Idle /\ UNCHANGED fragment
    BY <1>12 DEF CtsTimeout, NormalAckTimeout
  <2>2. ~Serves(t)' /\ ~Answered(t)'
    BY <2>1 DEF Serves, Answered, Idle
  <2>3. CASE CtsTimeout
    <3>1. low.stage = "cts" /\ ~Delivered(t) /\ UNCHANGED hdr
      BY <2>3 DEF CtsTimeout, TimesOut, Delivered
    <3>2. current'[t] = NoPacket \/ UNCHANGED current
      BY <1>1, <1>3, <2>3 DEF CtsTimeout, Abandon, TypeOK
    <3>3. Fragmentary(t)'
      BY <1>1, <1>8, <2>1, <2>2, <3>1, <3>2, FragmentKept
    <3> QED BY <1>7, <3>3 DEF Reassembly
  <2>4. CASE NormalAckTimeout
    <3>1. current'[t] = NoPacket \/ (UNCHANGED current /\ hdr' = [hdr EXCEPT ![t].retry = TRUE])
      BY <1>1, <1>3, <2>4 DEF NormalAckTimeout, MissedAck, MissedAckAsleep, Abandon, TypeOK
    <3>2. hdr \in [Txop -> Header]
      BY <1>1, SMTT(30) DEF TypeOK, Header
    <3>3. hdr' = [hdr EXCEPT ![t].retry = TRUE] => hdr'[t].retry /\ hdr'[t].seq = hdr[t].seq
      BY <3>2 DEF Header
    <3>4. Fragmentary(t)'
      BY <1>1, <1>8, <2>1, <2>2, <3>1, <3>3, FragmentKept
    <3> QED BY <1>7, <3>4 DEF Reassembly
  <2> QED BY <1>12, <2>3, <2>4
<1> QED BY <1>9, <1>10, <1>11, <1>12 DEF Transaction

LEMMA ReassemblyStep ==
  ASSUME TypeInv, TypeInv', QosUnfragmented, NumbersSuffice, Placement, Placement',
         Exchange, Exchange', Reassembly, Numbers, [Next]_vars
  PROVE  Reassembly'
<1>1. TypeOK
  BY DEF TypeInv
<1>2. CASE \E t \in Txop : NotifyAccessGranted(t)
  BY <1>2, AccessFragments
<1>3. CASE Transaction /\ ~FallAsleep
  BY <1>3, TransactionFragments
<1>4. CASE ReceiveData
  <2>1. /\ UNCHANGED <<current, hdr, fragment, low>> /\ air' = NoFrame
    BY <1>4 DEF ReceiveData, txopVars
  <2>2. PICK t \in Txop :
           /\ Serves(t) /\ low.stage = "ack"
           /\ \A u \in Txop \ {t} : rx'[u] = rx[u]
           /\ \/ (Stuck(t) \/ (Passed(t) /\ hdr[t].retry)) /\ rx'[t] = rx[t]
              \/ Passed(t)'
    BY <1>4, Reception
  <2>3. ASSUME NEW u \in Txop \ {t} PROVE Fragmentary(u)'
    <3>1. ~Serves(u) /\ ~Serves(u)'
      BY <2>1, <2>2 DEF Serves
    <3> QED BY <2>1, <2>2, <3>1, FragmentKept DEF Reassembly, Delivered, Answered
  <2>4. Fragmentary(t)'
    <3>1. Delivered(t)'
      BY <2>1, <2>2, Kinds DEF Delivered, Serves
    <3>2. CASE (Stuck(t) \/ (Passed(t) /\ hdr[t].retry)) /\ rx'[t] = rx[t]
      BY <2>1, <2>2, <3>1, <3>2, FragmentKept DEF Reassembly, Serves
    <3>3. CASE Passed(t)'
      BY <2>1, <2>2, <3>1, <3>3 DEF Reassembly, Fragmentary, Serves
    <3> QED BY <2>2, <3>2, <3>3
  <2> QED BY <2>3, <2>4 DEF Reassembly
<1>5. ASSUME UNCHANGED <<current, hdr, fragment, rx, low>>,
             air' \in DataFrame => air \in DataFrame,
             low.stage = "ack" /\ (reply' = "ack" \/ air' = [kind |-> "ack"])
               => (reply = "ack" \/ air = [kind |-> "ack"])
      PROVE  Reassembly'
  <2> SUFFICES ASSUME NEW t \in Txop PROVE Fragmentary(t)'
    BY DEF Reassembly
  <2>1. Fragmentary(t) /\ (Serves(t)' <=> Serves(t))
    BY <1>5 DEF Reassembly, Serves
  <2>2. (Delivered(t) => Delivered(t)') /\ (Answered(t)' => Answered(t))
    BY <1>5, <2>1 DEF Delivered, Answered
  <2>3. current[t] # NoPacket => (Answered(t)' => Stuck(t) \/ Passed(t))
    BY <2>1, <2>2 DEF Fragmentary
  <2>4. current[t] # NoPacket => (Serves(t)' /\ low'.stage = "next" => ~IsLastFragment(current[t], fragment[t]))
    BY <1>5, <2>1 DEF Fragmentary
  <2> QED BY <1>5, <2>1, <2>2, <2>3, <2>4, FragmentKept
<1>6. CASE ReceiveRts \/ SendReply \/ Lose \/ ReceiverSleeps
           \/ (\E side \in {"sender", "receiver"} : WakeUp(side)) \/ UNCHANGED vars
  <2>1. UNCHANGED <<current, hdr, fragment, rx, low>>
    BY <1>6 DEF ReceiveRts, SendReply, Lose, ReceiverSleeps, WakeUp, vars, txopVars, rxVars
  <2>2. reply \in {"ack", "cts", "none"}
    BY <1>1 DEF TypeOK
  <2>3. /\ air' \in DataFrame => air \in DataFrame
        /\ reply' = "ack" \/ air' = [kind |-> "ack"] => reply = "ack" \/ air = [kind |-> "ack"]
    BY <1>6, <2>2, Kinds DEF ReceiveRts, SendReply, Lose, ReceiverSleeps, WakeUp, vars, txopVars, rxVars
  <2> QED BY <1>5, <2>1, <2>3
<1>7. CASE (\E p \in Packet : Queue(p)) \/ (\E t \in Txop : SendToOther(t))
  <2>1. UNCHANGED <<current, hdr, fragment, rx, low, air, reply>>
    BY <1>7 DEF Queue, SendToOther, rxVars
  <2> QED BY <1>5, <2>1
<1>8. CASE SenderSleeps \/ FallAsleep
  <2>1. \A t \in Txop : current'[t] = NoPacket
    BY <1>8 DEF SenderSleeps, FallAsleep
  <2> QED BY <2>1 DEF Reassembly, Fragmentary
<1> QED BY <1>2, <1>3, <1>4, <1>6, <1>7, <1>8 DEF Next, Answer

LEMMA InitReception ==
  ASSUME Init
  PROVE  Numbers /\ Exchange /\ Reassembly /\ OnlyWholePacketsForwarded
<1>1. ASSUME NEW t \in Txop PROVE Numbered(t, 0)
  <2>1. 0 % SeqMod = 0
    BY LimitAssumption
  <2>2. Cardinality(Taken(t)) \in Nat
    BY TakenFinite DEF Taken
  <2>3. 0 <= Cardinality(Taken(t)) + others + sleeps
    BY <2>2 DEF Init
  <2> QED BY <2>1, <2>3 DEF Init, Numbered
<1>2. Numbers
  BY <1>1 DEF Numbers
<1>3. Exchange
  BY Kinds DEF Init, Exchange, Idle
<1> QED BY <1>2, <1>3 DEF Init, Reassembly, Fragmentary, OnlyWholePacketsForwarded

LEMMA WholeTypes == ASSUME NEW p \in Packet PROVE Whole(p) \in Seq(Fragment)
<1>1. Frags[p] \in Nat
  BY TxopAssumption
<1>2. \A i \in 1..Frags[p] : [packet |-> p, part |-> i - 1] \in Fragment
  BY <1>1 DEF Fragment
<1> QED BY <1>1, <1>2 DEF Whole

LEMMA HandUp ==
  ASSUME NEW S, NEW s \in Seq(S), NEW e \in S
  PROVE  /\ DOMAIN s \subseteq DOMAIN Append(s, e)
         /\ \A i \in DOMAIN s : Append(s, e)[i] = s[i]
         /\ \A i \in DOMAIN Append(s, e) : i \in DOMAIN s \/ Append(s, e)[i] = e
         /\ \E i \in DOMAIN Append(s, e) : Append(s, e)[i] = e
<1>1. /\ Len(s) \in Nat /\ DOMAIN s = 1..Len(s) /\ DOMAIN Append(s, e) = 1..(Len(s) + 1)
      /\ Append(s, e)[Len(s) + 1] = e /\ \A n \in 1..Len(s) : Append(s, e)[n] = s[n]
  OBVIOUS
<1>2. \A i \in 1..(Len(s) + 1) : i \in 1..Len(s) \/ i = Len(s) + 1
  BY <1>1
<1>3. Len(s) + 1 \in 1..(Len(s) + 1) /\ 1..Len(s) \subseteq 1..(Len(s) + 1)
  BY <1>1
<1> QED BY <1>1, <1>2, <1>3

LEMMA WholeStep ==
  ASSUME TypeInv, Exchange, Reassembly, Numbers, OnlyWholePacketsForwarded, [Next]_vars
  PROVE  OnlyWholePacketsForwarded'
<1>1. UNCHANGED up \/ ReceiveData
  BY DEF Next, Queue, NotifyAccessGranted, SendToOther, Transaction, GotCts, SendDataAfterCts, GotAck,
         StartNext, CtsTimeout, NormalAckTimeout, Answer, ReceiveRts, SendReply, Lose, ReceiverSleeps,
         SenderSleeps, WakeUp, vars, rxVars
<1>2. CASE UNCHANGED up
  BY <1>2 DEF OnlyWholePacketsForwarded
<1>3. CASE ReceiveData
  <2>1. PICK t \in Txop :
           /\ current[t] \in Packet
           /\ \A u \in Txop \ {t} : up'[u] = up[u]
           /\ up'[t] = up[t] \/ up'[t] = Append(up[t], Whole(current[t]))
    BY <1>3, Reception
  <2> SUFFICES ASSUME NEW u \in Txop, NEW i \in DOMAIN up'[u] PROVE \E p \in Packet : up'[u][i] = Whole(p)
    BY DEF OnlyWholePacketsForwarded
  <2>2. up[u] \in Seq(Seq(Fragment))
    BY DEF TypeInv, TypeOK
  <2>3. Whole(current[t]) \in Seq(Fragment)
    BY <2>1, WholeTypes
  <2>4. (i \in DOMAIN up[u] /\ up'[u][i] = up[u][i]) \/ up'[u][i] = Whole(current[t])
    <3>1. CASE up'[u] = up[u]
      BY <3>1
    <3>2. CASE up'[u] = Append(up[u], Whole(current[t]))
      <4>1. \A j \in DOMAIN Append(up[u], Whole(current[t])) :
              \/ j \in DOMAIN up[u] /\ Append(up[u], Whole(current[t]))[j] = up[u][j]
              \/ Append(up[u], Whole(current[t]))[j] = Whole(current[t])
        BY <2>2, <2>3, HandUp
      <4> QED BY <3>2, <4>1
    <3> QED BY <2>1, <3>1, <3>2
  <2> QED BY <2>1, <2>4 DEF OnlyWholePacketsForwarded
<1> QED BY <1>1, <1>2, <1>3

Received == Numbers /\ Exchange /\ Reassembly /\ OnlyWholePacketsForwarded

(* While no function draws a sequence number twice, what is handed up is a *)
(* whole packet: no fragment alone and no mixture of two packets, whatever *)
(* is lost, given up or put back to the queue between two fragments.       *)
THEOREM WholePackets ==
  ASSUME QosUnfragmented, NumbersSuffice
  PROVE  Spec => []OnlyWholePacketsForwarded
<1>1. /\ TypeInv /\ TypeInv' /\ Placement /\ Placement' /\ Received /\ [Next]_vars => Received'
  BY NumbersStep, ExchangeStep, ReassemblyStep, WholeStep DEF Received
<1>2. Init => Received
  BY InitReception DEF Received
<1>3. Received => OnlyWholePacketsForwarded
  BY DEF Received
<1> QED BY <1>1, <1>2, <1>3, InitTypes, TypeStep, InitPlaces, PlacementStep, PTL DEF Spec, TypeInv

-----------------------------------------------------------------------------
(* Unfragmented packets and a sender that stays awake: the link.           *)

(* The packets of t that were handed up, and those still to be sent.       *)
Handed(t) == {p \in OwnedBy(t) : \E i \in DOMAIN up[t] : up[t][i] = Whole(p)}
Later(t)  == Waiting(t) \cup (fresh \cap OwnedBy(t))

(* Only whole packets were handed up, and what the receiver knows of the   *)
(* current packet tells whether it was among them.                         *)
Tells(t) ==
  /\ \A i \in DOMAIN up[t] : \E p \in OwnedBy(t) : up[t][i] = Whole(p)
  /\ rx[t].parts = <<>>
  /\ current[t] # NoPacket => (current[t] \in Handed(t) <=> Passed(t))
Forwarded == \A t \in Txop : Tells(t)
(* Packets are handed up in the order of their numbers. *)
Ahead(t) ==
  /\ \A q \in Later(t) : current[t] < q /\ \A p \in Handed(t) : p < q
  /\ current[t] # NoPacket /\ current[t] \notin Handed(t) => \A p \in Handed(t) : p < current[t]
  /\ \A p \in Waiting(t) : \A q \in fresh \cap OwnedBy(t) : p < q
  /\ \A m, n \in DOMAIN queue[t] : m < n => queue[t][m] < queue[t][n]
InOrder == \A t \in Txop : Ahead(t)

LinkInv == Forwarded /\ InOrder /\ TxOkMeansForwarded

LEMMA PacketNumbers ==
  ASSUME TypeOK, NEW t \in Txop
  PROVE  /\ OwnedBy(t) \subseteq Packet /\ Packet \subseteq Nat /\ NoPacket = 0 /\ \A p \in Packet : 0 < p
         /\ Waiting(t) \subseteq Packet /\ Handed(t) \subseteq Packet /\ Later(t) \subseteq Packet
         /\ current[t] \in Nat
<1>1. Packet \subseteq Nat \ {0}
  BY TxopAssumption
<1>2. \A p \in Packet : p \in Nat /\ 0 < p
  BY <1>1
<1>3. current[t] \in Packet \cup {0} /\ Waiting(t) \subseteq Packet
  BY PlaceTypes DEF NoPacket
<1> QED BY <1>2, <1>3 DEF OwnedBy, Handed, Later, NoPacket

(* Nothing is handed up, and nothing is taken from a queue. *)
LEMMA AheadKept ==
  ASSUME TypeOK, NEW t \in Txop, Ahead(t), up'[t] = up[t], queue'[t] = queue[t], fresh' \subseteq fresh,
         current'[t] = current[t] \/ current'[t] = NoPacket
  PROVE  Ahead(t)'
<1>1. Handed(t)' = Handed(t) /\ Waiting(t)' = Waiting(t) /\ Later(t)' \subseteq Later(t)
  BY DEF Handed, Waiting, Later, OwnedBy
<1>2. \A q \in Later(t) : NoPacket < q
  BY PacketNumbers
<1>3. fresh' \cap OwnedBy(t) \subseteq fresh \cap OwnedBy(t)
  OBVIOUS
<1> QED BY <1>1, <1>2, <1>3 DEF Ahead

LEMMA QueueAhead ==
  ASSUME TypeOK, Placement, InOrder, NEW p \in Packet, Queue(p)
  PROVE  InOrder'
<1>1. /\ p \in fresh /\ fresh' = fresh \ {p} /\ UNCHANGED <<current, up>>
      /\ \A q \in fresh : Owner[q] = Owner[p] => p <= q
  BY DEF Queue, rxVars
<1> SUFFICES ASSUME NEW t \in Txop PROVE Ahead(t)'
  BY DEF InOrder
<1>2. CASE queue'[t] = queue[t]
  BY <1>1, <1>2, AheadKept DEF InOrder
<1>3. CASE queue'[t] # queue[t]
  <2>1. Owner[p] = t /\ queue'[t] = Append(queue[t], p)
    BY <1>3 DEF Queue, TypeOK
  <2>2. queue[t] \in Seq(Packet)
    BY PlaceTypes
  <2>3. Waiting(t)' = Waiting(t) \cup {p}
    BY <2>1, <2>2, Appended DEF Waiting
  <2>4. p \in Later(t) /\ p \in fresh \cap OwnedBy(t)
    BY <1>1, <2>1 DEF Later, OwnedBy
  <2>5. Later(t)' \subseteq Later(t) /\ Handed(t)' = Handed(t)
    BY <1>1, <2>3, <2>4 DEF Later, OwnedBy, Handed
  <2>6. \A q \in (fresh \cap OwnedBy(t)) \ {p} : p < q
    BY <1>1, <2>1, PacketNumbers DEF OwnedBy
  <2>7. (fresh \cap OwnedBy(t))' = (fresh \cap OwnedBy(t)) \ {p}
    BY <1>1 DEF OwnedBy
  <2>8. \A q \in Waiting(t) : q < p
    BY <2>4 DEF InOrder, Ahead
  <2>9. \A m, n \in DOMAIN queue'[t] : m < n => queue'[t][m] < queue'[t][n]
    <3>1. /\ Len(queue[t]) \in Nat /\ DOMAIN queue[t] = 1..Len(queue[t])
          /\ DOMAIN queue'[t] = 1..(Len(queue[t]) + 1)
          /\ queue'[t][Len(queue[t]) + 1] = p /\ \A n \in 1..Len(queue[t]) : queue'[t][n] = queue[t][n]
      BY <2>1, <2>2
    <3> SUFFICES ASSUME NEW m \in DOMAIN queue'[t], NEW n \in DOMAIN queue'[t], m < n
                 PROVE  queue'[t][m] < queue'[t][n]
      OBVIOUS
    <3>2. m \in DOMAIN queue[t] /\ (n \in DOMAIN queue[t] \/ n = Len(queue[t]) + 1)
      BY <3>1
    <3>3. queue[t][m] \in Waiting(t) /\ queue'[t][m] = queue[t][m]
      BY <3>1, <3>2 DEF Waiting, Elements
    <3>4. CASE n \in DOMAIN queue[t]
      BY <3>1, <3>2, <3>3, <3>4 DEF InOrder, Ahead
    <3>5. CASE n = Len(queue[t]) + 1
      BY <2>8, <3>1, <3>3, <3>5
    <3> QED BY <3>2, <3>4, <3>5
  <2>10. \A q \in Waiting(t)' : \A r \in (fresh \cap OwnedBy(t))' : q < r
    BY <2>3, <2>6, <2>7 DEF InOrder, Ahead
  <2> QED BY <1>1, <2>5, <2>9, <2>10 DEF InOrder, Ahead
<1> QED BY <1>2, <1>3

(* The head of an increasing queue is before the rest of it. *)
LEMMA ServeAhead ==
  ASSUME TypeOK, NEW t \in Txop, Ahead(t), current[t] = NoPacket, queue[t] # <<>>,
         queue'[t] = Tail(queue[t]), current'[t] = Head(queue[t]), up'[t] = up[t], UNCHANGED fresh
  PROVE  Ahead(t)' /\ current'[t] \notin Handed(t)'
<1>1. queue[t] \in Seq(Packet)
  BY PlaceTypes
<1>2. /\ Len(queue[t]) \in Nat \ {0} /\ DOMAIN queue[t] = 1..Len(queue[t])
      /\ DOMAIN queue'[t] = 1..(Len(queue[t]) - 1)
      /\ Head(queue[t]) = queue[t][1] /\ \A n \in 1..(Len(queue[t]) - 1) : queue'[t][n] = queue[t][n + 1]
  BY <1>1
<1>3. /\ Waiting(t) = Waiting(t)' \cup {current'[t]}
  BY <1>1, Popped DEF Waiting
<1>4. Handed(t)' = Handed(t) /\ Later(t)' \subseteq Later(t) /\ current'[t] \in Later(t)
  BY <1>3 DEF Handed, Later, OwnedBy
<1>5. \A n \in DOMAIN queue'[t] : n + 1 \in DOMAIN queue[t] /\ queue'[t][n] = queue[t][n + 1] /\ 1 < n + 1
  BY <1>2
<1>6. \A q \in Waiting(t)' : current'[t] < q
  <2> SUFFICES ASSUME NEW n \in DOMAIN queue'[t] PROVE current'[t] < queue'[t][n]
    BY DEF Waiting, Elements
  <2>1. 1 \in DOMAIN queue[t]
    BY <1>2
  <2> QED BY <1>2, <1>5, <2>1 DEF Ahead
<1>7. \A q \in fresh' \cap OwnedBy(t) : current'[t] < q
  BY <1>3 DEF Ahead
<1>8. \A q \in Later(t)' : current'[t] < q
  BY <1>6, <1>7 DEF Later, OwnedBy
<1>9. \A p \in Handed(t) : p < current'[t]
  BY <1>4 DEF Ahead
<1>10. current'[t] \notin Handed(t)
  <2>1. current'[t] \in Nat
    BY <1>4, PacketNumbers
  <2> QED BY <1>9, <2>1
<1>11. \A m, n \in DOMAIN queue'[t] : m < n => queue'[t][m] < queue'[t][n]
  <2> SUFFICES ASSUME NEW m \in DOMAIN queue'[t], NEW n \in DOMAIN queue'[t], m < n
               PROVE  queue'[t][m] < queue'[t][n]
    OBVIOUS
  <2>1. m + 1 < n + 1
    BY <1>2
  <2> QED BY <1>5, <2>1 DEF Ahead
<1>12. \A p \in Waiting(t)' : \A q \in (fresh \cap OwnedBy(t))' : p < q
  BY <1>3 DEF Ahead, OwnedBy
<1> QED BY <1>4, <1>8, <1>9, <1>10, <1>11, <1>12 DEF Ahead

LEMMA WholeNames ==
  ASSUME NEW p \in Packet
  PROVE  Whole(p)[1] = [packet |-> p, part |-> 0] /\ Whole(p)[1].packet = p
<1>1. Frags[p] \in Nat \ {0}
  BY TxopAssumption
<1>2. 1 \in 1..Frags[p] /\ 1 - 1 = 0
  BY <1>1
<1>3. Whole(p)[1] = [packet |-> p, part |-> 0]
  BY <1>2 DEF Whole
<1> QED BY <1>3

LEMMA HandedUp ==
  ASSUME TypeOK, NEW t \in Txop, NEW p \in OwnedBy(t), up'[t] = Append(up[t], Whole(p))
  PROVE  /\ Handed(t)' = Handed(t) \cup {p}
         /\ \A i \in DOMAIN up'[t] : (i \in DOMAIN up[t] /\ up'[t][i] = up[t][i]) \/ up'[t][i] = Whole(p)
<1>1. p \in Packet /\ up[t] \in Seq(Seq(Fragment))
  BY DEF OwnedBy, TypeOK
<1>2. Whole(p) \in Seq(Fragment)
  BY <1>1, WholeTypes
<1>3. /\ DOMAIN up[t] \subseteq DOMAIN up'[t] /\ \A i \in DOMAIN up[t] : up'[t][i] = up[t][i]
      /\ \A i \in DOMAIN up'[t] : i \in DOMAIN up[t] \/ up'[t][i] = Whole(p)
      /\ \E i \in DOMAIN up'[t] : up'[t][i] = Whole(p)
  <2> DEFINE Frames == Seq(Fragment)
  <2>1. PICK s \in Seq(Frames) : s = up[t]
    BY <1>1
  <2>2. PICK e \in Frames : e = Whole(p)
    BY <1>2
  <2> HIDE DEF Frames
  <2>3. /\ DOMAIN s \subseteq DOMAIN Append(s, e)
        /\ \A i \in DOMAIN s : Append(s, e)[i] = s[i]
        /\ \A i \in DOMAIN Append(s, e) : i \in DOMAIN s \/ Append(s, e)[i] = e
        /\ \E i \in DOMAIN Append(s, e) : Append(s, e)[i] = e
    BY HandUp
  <2>4. up'[t] = Append(s, e)
    BY <2>1, <2>2
  <2> QED BY <2>1, <2>2, <2>3, <2>4
<1>4. \A q \in Packet : Whole(q) = Whole(p) => q = p
  BY <1>1, WholeNames
<1>5. Handed(t) \cup {p} \subseteq Handed(t)'
  BY <1>3 DEF Handed
<1>6. ASSUME NEW q \in Handed(t)' PROVE q \in Handed(t) \cup {p}
  <2>1. q \in OwnedBy(t) /\ q \in Packet
    BY DEF Handed, OwnedBy
  <2>2. PICK i \in DOMAIN up'[t] : up'[t][i] = Whole(q)
    BY DEF Handed
  <2>3. CASE i \in DOMAIN up[t]
    BY <1>3, <2>1, <2>2, <2>3 DEF Handed
  <2>4. CASE up'[t][i] = Whole(p)
    BY <1>4, <2>1, <2>2, <2>4
  <2> QED BY <1>3, <2>3, <2>4
<1> QED BY <1>3, <1>5, <1>6

(* An unfragmented packet is taken once: the receiver has it already, or   *)
(* hands it up and can tell.                                               *)
LEMMA PacketReceived ==
  ASSUME TypeInv, NoFragments, Placement, Received, Forwarded, ReceiveData
  PROVE  \E t \in Txop :
           /\ current[t] \in OwnedBy(t) /\ Passed(t)'
           /\ \A u \in Txop \ {t} : rx'[u] = rx[u] /\ up'[u] = up[u]
           /\ \/ Passed(t) /\ up'[t] = up[t]
              \/ ~Passed(t) /\ up'[t] = Append(up[t], Whole(current[t]))
<1>1. PICK t \in Txop :
           /\ current[t] \in Packet
           /\ \A u \in Txop \ {t} : rx'[u] = rx[u] /\ up'[u] = up[u]
           /\ \/ /\ Stuck(t) \/ Passed(t)
                 /\ rx'[t] = rx[t] /\ up'[t] = up[t]
              \/ /\ Ready(t) /\ Passed(t)'
                 /\ IF IsLastFragment(current[t], fragment[t])
                      THEN up'[t] = Append(up[t], Whole(current[t]))
                      ELSE up'[t] = up[t]
  BY Reception DEF Received
<1>2. current[t] # NoPacket /\ current[t] \in OwnedBy(t)
  BY <1>1, PlaceTypes DEF TypeInv, Placement, Owned, OwnedBy
<1>3. fragment[t] = 0 /\ IsLastFragment(current[t], fragment[t])
  <2>1. fragment[t] \in Nat /\ fragment[t] < Frags[current[t]]
    BY <1>2 DEF TypeInv, TypeOK, Received, Reassembly, Fragmentary
  <2>2. Frags[current[t]] = 1
    BY <1>1 DEF NoFragments
  <2> QED BY <2>1, <2>2 DEF IsLastFragment
<1>4. ~Stuck(t)
  BY DEF Stuck, Forwarded, Tells
<1>5. UNCHANGED <<current, fragment, hdr>>
  BY DEF ReceiveData, txopVars
<1>6. CASE Passed(t) /\ rx'[t] = rx[t] /\ up'[t] = up[t]
  <2>1. Passed(t)'
    BY <1>5, <1>6 DEF Passed
  <2> QED BY <1>1, <1>2, <1>6, <2>1
<1>7. CASE Ready(t) /\ Passed(t)' /\ up'[t] = Append(up[t], Whole(current[t]))
  <2>1. ~Passed(t)
    BY <1>3, <1>7 DEF Ready, Passed
  <2> QED BY <1>1, <1>2, <1>7, <2>1
<1> QED BY <1>1, <1>3, <1>4, <1>6, <1>7

(* A packet that is drawn was not received, and it shows. *)
LEMMA NotPassed ==
  ASSUME TypeInv, TypeInv', NoFragments, QosUnfragmented, Placement, Placement', Received, Received',
         NEW t \in Txop, NotifyAccessGranted(t), current[t] = NoPacket
  PROVE  ~Passed(t)'
<1>1. /\ current'[t] # NoPacket
      /\ \/ low' = [stage |-> "ack", frame |-> Sent(t)'] /\ air' = Sent(t)' /\ Sent(t)' \in DataFrame
         \/ low' = [stage |-> "cts", frame |-> Sent(t)']
  BY AccessSends, PlaceTypes DEF Received, TypeInv
<1>2. ~Delivered(t)'
  BY <1>1 DEF Delivered
<1>3. hdr'[t].retry = FALSE /\ fragment'[t] = 0
  <2>1. /\ hdr' = [hdr EXCEPT ![t] = [seq |-> nextSeq[t], retry |-> FALSE]]
        /\ fragment' = [fragment EXCEPT ![t] = 0]
    BY DEF NotifyAccessGranted
  <2> QED BY <2>1 DEF TypeInv, TypeOK
<1>4. Stuck(t)' \/ Ready(t)'
  BY <1>1, <1>2, <1>3 DEF Received, Reassembly, Fragmentary
<1>5. rx'[t].last.seq # hdr'[t].seq
  BY <1>3, <1>4 DEF Stuck, Ready
<1> QED BY <1>5 DEF Passed

LEMMA TellsKept ==
  ASSUME NEW t \in Txop, Tells(t), up'[t] = up[t], rx'[t] = rx[t],
         current'[t] # NoPacket => /\ current'[t] = current[t] /\ fragment'[t] = fragment[t]
                                   /\ hdr'[t].seq = hdr[t].seq
  PROVE  Tells(t)'
<1>1. Handed(t)' = Handed(t)
  BY DEF Handed, OwnedBy
<1>2. current'[t] # NoPacket => (Passed(t)' <=> Passed(t))
  BY DEF Passed
<1> QED BY <1>1, <1>2 DEF Tells, OwnedBy

LEMMA AccessLink ==
  ASSUME TypeInv, TypeInv', NoFragments, QosUnfragmented, Placement, Placement', Received, Received',
         LinkInv, NEW t \in Txop, NotifyAccessGranted(t)
  PROVE  LinkInv'
<1>1. TypeOK /\ UNCHANGED <<fresh, rx, up, outcome>>
  BY DEF NotifyAccessGranted, TypeInv, rxVars
<1>2. TxOkMeansForwarded'
  BY <1>1 DEF LinkInv, TxOkMeansForwarded
<1>3. ASSUME NEW u \in Txop, UNCHANGED <<current[u], hdr[u], fragment[u], queue[u]>>
      PROVE  Tells(u)' /\ Ahead(u)'
  BY <1>1, <1>3, TellsKept, AheadKept DEF LinkInv, Forwarded, InOrder
<1>4. CASE current[t] # NoPacket
  BY <1>2, <1>3, <1>4 DEF NotifyAccessGranted, LinkInv, Forwarded, InOrder
<1>5. CASE current[t] = NoPacket
  <2>1. /\ queue[t] # <<>>
        /\ queue' = [queue EXCEPT ![t] = Tail(@)]
        /\ current' = [current EXCEPT ![t] = Head(queue[t])]
        /\ hdr' = [hdr EXCEPT ![t] = [seq |-> nextSeq[t], retry |-> FALSE]]
        /\ fragment' = [fragment EXCEPT ![t] = 0]
    BY <1>5 DEF NotifyAccessGranted
  <2>2. queue'[t] = Tail(queue[t]) /\ current'[t] = Head(queue[t])
    BY <1>1, <2>1 DEF TypeOK
  <2>3. Ahead(t)' /\ current'[t] \notin Handed(t)'
    BY <1>1, <1>5, <2>1, <2>2, ServeAhead DEF LinkInv, InOrder
  <2>4. Tells(t)'
    <3>1. ~Passed(t)'
      BY <1>5, NotPassed
    <3> QED BY <1>1, <2>3, <3>1 DEF LinkInv, Forwarded, Tells, OwnedBy
  <2>5. ASSUME NEW u \in Txop, u # t PROVE Tells(u)' /\ Ahead(u)'
    BY <1>1, <1>3, <2>1, <2>5 DEF TypeOK
  <2> QED BY <1>2, <2>3, <2>4, <2>5 DEF LinkInv, Forwarded, InOrder
<1> QED BY <1>4, <1>5

LEMMA ReceiveLink ==
  ASSUME TypeInv, NoFragments, Placement, Received, Received', LinkInv, ReceiveData
  PROVE  LinkInv'
<1>1. TypeOK /\ UNCHANGED <<fresh, queue, current, fragment, hdr, outcome>>
  BY DEF ReceiveData, TypeInv, txopVars
<1>2. PICK t \in Txop :
           /\ current[t] \in OwnedBy(t) /\ Passed(t)'
           /\ \A u \in Txop \ {t} : rx'[u] = rx[u] /\ up'[u] = up[u]
           /\ \/ Passed(t) /\ up'[t] = up[t]
              \/ ~Passed(t) /\ up'[t] = Append(up[t], Whole(current[t]))
  BY PacketReceived DEF LinkInv
<1>3. PICK p \in OwnedBy(t) : p = current[t] /\ p # NoPacket /\ p \in Packet
  BY <1>1, <1>2, PlaceTypes DEF OwnedBy
<1>4. \A u \in Txop : UNCHANGED <<current[u], queue[u], hdr[u], fragment[u]>>
  BY <1>1
<1>5. ASSUME NEW u \in Txop \ {t} PROVE Tells(u)' /\ Ahead(u)'
  BY <1>1, <1>2, <1>4, TellsKept, AheadKept DEF LinkInv, Forwarded, InOrder
<1>6. rx'[t].parts = <<>>
  <2>1. IsLastFragment(current[t], fragment[t])
    <3>1. fragment[t] \in Nat /\ fragment[t] < Frags[p] /\ Frags[p] = 1
      BY <1>1, <1>3 DEF TypeOK, Received, Reassembly, Fragmentary, NoFragments
    <3> QED BY <1>3, <3>1 DEF IsLastFragment
  <2> QED BY <1>1, <1>2, <2>1 DEF Passed
<1>7. CASE Passed(t) /\ up'[t] = up[t]
  <2>1. Handed(t)' = Handed(t) /\ Waiting(t)' = Waiting(t) /\ Later(t)' = Later(t)
    BY <1>1, <1>7 DEF Handed, Waiting, Later, OwnedBy
  <2>2. Ahead(t)'
    BY <1>1, <1>4, <1>7, AheadKept DEF LinkInv, InOrder
  <2>3. p \in Handed(t)
    BY <1>3, <1>7 DEF LinkInv, Forwarded, Tells
  <2>4. Tells(t)'
    BY <1>1, <1>2, <1>3, <1>6, <1>7, <2>1, <2>3 DEF LinkInv, Forwarded, Tells, OwnedBy
  <2>5. \A u \in Txop : up'[u] = up[u]
    BY <1>2, <1>7
  <2>6. TxOkMeansForwarded'
    BY <1>1, <2>5, TxopAssumption DEF LinkInv, TxOkMeansForwarded
  <2> QED BY <1>5, <2>2, <2>4, <2>6 DEF LinkInv, Forwarded, InOrder
<1>8. CASE ~Passed(t) /\ up'[t] = Append(up[t], Whole(current[t]))
  <2>1. /\ Handed(t)' = Handed(t) \cup {p}
        /\ \A i \in DOMAIN up'[t] : (i \in DOMAIN up[t] /\ up'[t][i] = up[t][i]) \/ up'[t][i] = Whole(p)
    BY <1>1, <1>3, <1>8, HandedUp
  <2>2. p \notin Handed(t)
    BY <1>3, <1>8 DEF LinkInv, Forwarded, Tells
  <2>3. Tells(t)'
    BY <1>1, <1>2, <1>3, <1>6, <2>1 DEF LinkInv, Forwarded, Tells, OwnedBy
  <2>4. Later(t)' = Later(t) /\ Waiting(t)' = Waiting(t)
    BY <1>1 DEF Later, Waiting, OwnedBy
  <2>5. Ahead(t)'
    BY <1>1, <1>3, <2>1, <2>4 DEF LinkInv, InOrder, Ahead, OwnedBy
  <2>6. TxOkMeansForwarded'
    <3> SUFFICES ASSUME NEW q \in Packet, outcome[q] = "ok"
                 PROVE  \E i \in DOMAIN up'[Owner[q]] : up'[Owner[q]][i] = Whole(q)
      BY <1>1 DEF TxOkMeansForwarded
    <3>1. Owner[q] \in Txop /\ \E i \in DOMAIN up[Owner[q]] : up[Owner[q]][i] = Whole(q)
      BY TxopAssumption DEF LinkInv, TxOkMeansForwarded
    <3>2. CASE Owner[q] # t
      BY <1>2, <3>1, <3>2
    <3>3. CASE Owner[q] = t
      <4>1. q \in Handed(t)'
        BY <2>1, <3>1, <3>3 DEF Handed, OwnedBy
      <4> QED BY <3>3, <4>1 DEF Handed
    <3> QED BY <3>2, <3>3
  <2> QED BY <1>5, <2>3, <2>5, <2>6 DEF LinkInv, Forwarded, InOrder
<1> QED BY <1>2, <1>7, <1>8

LEMMA TransactionLink ==
  ASSUME TypeInv, NoFragments, StaysAwake, Placement, Received, LinkInv, Transaction
  PROVE  LinkInv'
<1>1. TypeOK /\ UNCHANGED <<fresh, queue, rx, up>>
  <2>1. UNCHANGED <<fresh, rx, up>>
    BY DEF Transaction, GotCts, SendDataAfterCts, GotAck, StartNext, CtsTimeout, NormalAckTimeout,
           txopVars, rxVars
  <2> QED BY <2>1, TransactionSleeps, NeverAsleep DEF TypeInv
<1>2. low.stage # "idle"
  BY DEF Transaction, GotCts, SendDataAfterCts, GotAck, StartNext, CtsTimeout, NormalAckTimeout, Arrives, TimesOut
<1>3. PICK t \in Txop : t = low.frame.txop /\ current[t] # NoPacket /\ current[t] \in Packet /\ Serves(t)
  BY <1>1, <1>2, IdleOrBusy, PlaceTypes DEF TypeInv, InService, Serves, Idle
<1>4. PICK p \in Packet : p = current[t] /\ Owner[p] = t
  BY <1>3 DEF Placement, Owned
<1>5. Fragmentary(t) /\ IsLastFragment(p, fragment[t])
  <2>1. Fragmentary(t) /\ fragment[t] \in Nat /\ fragment[t] < Frags[p] /\ Frags[p] = 1
    BY <1>1, <1>3, <1>4 DEF Received, Reassembly, Fragmentary, TypeOK, NoFragments
  <2> QED BY <2>1 DEF IsLastFragment
<1>6. ~StartNext
  BY <1>3, <1>4, <1>5 DEF StartNext, Fragmentary
<1>7. \A u \in Txop : hdr'[u].seq = hdr[u].seq
  <2>1. UNCHANGED hdr \/ \E u : hdr' = [hdr EXCEPT ![u].retry = TRUE]
    BY DEF Transaction, GotCts, SendDataAfterCts, GotAck, StartNext, CtsTimeout, NormalAckTimeout,
           MissedAck, txopVars
  <2>2. hdr \in [Txop -> Header]
    BY <1>1, SMTT(30) DEF TypeOK, Header
  <2> QED BY <2>1, <2>2 DEF Header
<1>8. UNCHANGED fragment /\ \A u \in Txop : current'[u] = current[u] \/ current'[u] = NoPacket
  BY <1>1, <1>6 DEF TypeOK, Transaction, GotCts, SendDataAfterCts, GotAck, CtsTimeout, NormalAckTimeout,
                    MissedAck, MissedAckAsleep, FallAsleep, Abandon, txopVars
<1>9. ASSUME NEW u \in Txop PROVE Tells(u)' /\ Ahead(u)'
  BY <1>1, <1>7, <1>8, TellsKept, AheadKept DEF LinkInv, Forwarded, InOrder
<1>10. TxOkMeansForwarded'
  <2>1. CASE GotAck
    <3>1. Answered(t)
      BY <1>3, <2>1 DEF GotAck, Arrives, Answered
    <3>2. Passed(t)
      BY <1>3, <1>5, <3>1 DEF Fragmentary, Stuck, LinkInv, Forwarded, Tells
    <3>3. p \in Handed(t)
      BY <1>3, <1>4, <3>2 DEF LinkInv, Forwarded, Tells
    <3>4. outcome' = [outcome EXCEPT ![p] = "ok"]
      BY <1>3, <1>4, <1>5, <2>1 DEF GotAck
    <3>5. \A q \in Packet : outcome'[q] = "ok" => q = p \/ outcome[q] = "ok"
      BY <1>1, <3>4 DEF TypeOK
    <3> QED BY <1>1, <1>4, <3>3, <3>5 DEF LinkInv, TxOkMeansForwarded, Handed
  <2>2. CASE ~GotAck
    <3>1. UNCHANGED outcome \/ outcome' = [outcome EXCEPT ![p] = "failed"]
      BY <1>3, <1>4, <2>2, NeverAsleep
         DEF Transaction, GotCts, SendDataAfterCts, StartNext, CtsTimeout, NormalAckTimeout, MissedAck, Abandon
    <3>2. \A q \in Packet : outcome'[q] = "ok" => outcome[q] = "ok"
      BY <1>1, <3>1 DEF TypeOK
    <3> QED BY <1>1, <3>2 DEF LinkInv, TxOkMeansForwarded
  <2> QED BY <2>1, <2>2
<1> QED BY <1>9, <1>10 DEF LinkInv, Forwarded, InOrder

LEMMA LinkStep ==
  ASSUME TypeInv, TypeInv', NoFragments, QosUnfragmented, StaysAwake, Placement, Placement',
         Received, Received', LinkInv, [Next]_vars
  PROVE  LinkInv'
<1>1. TypeOK
  BY DEF TypeInv
<1>2. ASSUME UNCHANGED <<fresh, queue, current, hdr, fragment, rx, up, outcome>> PROVE LinkInv'
  <2>1. ASSUME NEW t \in Txop PROVE Tells(t)' /\ Ahead(t)'
    BY <1>1, <1>2, TellsKept, AheadKept DEF LinkInv, Forwarded, InOrder
  <2> QED BY <1>2, <2>1 DEF LinkInv, Forwarded, InOrder, TxOkMeansForwarded
<1>3. ASSUME NEW p \in Packet, Queue(p) PROVE LinkInv'
  <2>1. UNCHANGED <<current, hdr, fragment, rx, up>>
    BY <1>3 DEF Queue, rxVars
  <2>2. Forwarded'
    <3>1. ASSUME NEW t \in Txop PROVE Tells(t)'
      BY <2>1, TellsKept DEF LinkInv, Forwarded
    <3> QED BY <3>1 DEF Forwarded
  <2>3. InOrder'
    BY <1>1, <1>3, QueueAhead DEF LinkInv
  <2>4. \A q \in Packet : outcome'[q] = "ok" => outcome[q] = "ok"
    BY <1>1, <1>3 DEF Queue, TypeOK
  <2> QED BY <2>1, <2>2, <2>3, <2>4 DEF LinkInv, TxOkMeansForwarded
<1>4. ASSUME NEW t \in Txop, NotifyAccessGranted(t) PROVE LinkInv'
  BY <1>4, AccessLink
<1>5. CASE \E t \in Txop : SendToOther(t)
  BY <1>2, <1>5 DEF SendToOther, rxVars
<1>6. CASE Transaction
  BY <1>6, TransactionLink
<1>7. CASE ReceiveData
  BY <1>7, ReceiveLink
<1>8. CASE ReceiveRts \/ SendReply \/ Lose \/ ReceiverSleeps
           \/ (\E side \in {"sender", "receiver"} : WakeUp(side)) \/ UNCHANGED vars
  BY <1>2, <1>8 DEF ReceiveRts, SendReply, Lose, ReceiverSleeps, WakeUp, vars, txopVars, rxVars
<1>9. ~SenderSleeps
  BY NeverAsleep
<1> QED BY <1>3, <1>4, <1>5, <1>6, <1>7, <1>8, <1>9 DEF Next, Answer

LEMMA InitLink ==
  ASSUME Init
  PROVE  LinkInv
<1> SUFFICES ASSUME NEW t \in Txop PROVE Tells(t) /\ Ahead(t)
  BY DEF Init, LinkInv, Forwarded, InOrder, TxOkMeansForwarded
<1>1. queue[t] = <<>> /\ current[t] = NoPacket /\ up[t] = <<>> /\ rx[t].parts = <<>> /\ fresh = Packet
  BY DEF Init
<1>2. Handed(t) = {} /\ Waiting(t) = {} /\ Later(t) = OwnedBy(t)
  BY <1>1 DEF Handed, Waiting, Later, Elements, OwnedBy
<1>3. \A q \in OwnedBy(t) : NoPacket < q
  BY TxopAssumption DEF OwnedBy, NoPacket
<1> QED BY <1>1, <1>2, <1>3 DEF Tells, Ahead

(* No packet is reported sent that was not handed up, however often the    *)
(* acknowledgement was lost and whatever is sent in between: under the     *)
(* conditions above no answer to an older frame confirms a newer one.      *)
THEOREM SentMeansForwarded ==
  ASSUME NoFragments, StaysAwake, NumbersSuffice
  PROVE  Spec => []TxOkMeansForwarded
<1>1. QosUnfragmented
  BY DEF NoFragments, QosUnfragmented
<1>2. /\ TypeInv /\ TypeInv' /\ Placement /\ Placement' /\ Received /\ [Next]_vars => Received'
  BY <1>1, NumbersStep, ExchangeStep, ReassemblyStep, WholeStep DEF Received
<1>3. /\ TypeInv /\ TypeInv' /\ Placement /\ Placement' /\ Received /\ Received' /\ LinkInv /\ [Next]_vars
        => LinkInv'
  BY <1>1, LinkStep
<1>4. Init => Received
  BY InitReception DEF Received
<1>5. LinkInv => TxOkMeansForwarded
  BY DEF LinkInv
<1> QED BY <1>2, <1>3, <1>4, <1>5, InitLink, InitTypes, TypeStep, InitPlaces, PlacementStep, PTL
        DEF Spec, TypeInv

-----------------------------------------------------------------------------
(* The exchange implements the link.                                       *)

(* The packets handed up, as Link has them. *)
Got(t) == [i \in DOMAIN up[t] |-> up[t][i][1].packet]

LEMMA GotHanded ==
  ASSUME TypeOK, NEW t \in Txop, Tells(t)
  PROVE  /\ Got(t) \in Seq(Packet) /\ Len(Got(t)) = Len(up[t])
         /\ \A i \in DOMAIN Got(t) : Got(t)[i] \in Handed(t) /\ up[t][i] = Whole(Got(t)[i])
<1>1. Len(up[t]) \in Nat /\ DOMAIN up[t] = 1..Len(up[t])
  BY DEF TypeOK
<1>2. ASSUME NEW i \in DOMAIN up[t]
      PROVE  Got(t)[i] \in Handed(t) /\ up[t][i] = Whole(Got(t)[i]) /\ Got(t)[i] \in Packet
  <2>1. PICK p \in OwnedBy(t) : up[t][i] = Whole(p)
    BY DEF Tells
  <2>2. p \in Packet
    BY DEF OwnedBy
  <2>3. Got(t)[i] = p
    BY <2>1, <2>2, WholeNames DEF Got
  <2> QED BY <2>1, <2>2, <2>3 DEF Handed
<1>3. DOMAIN Got(t) = 1..Len(up[t])
  BY <1>1 DEF Got
<1>4. Got(t) \in [1..Len(up[t]) -> Packet]
  BY <1>1, <1>2 DEF Got
<1>5. Got(t) \in Seq(Packet) /\ Len(Got(t)) = Len(up[t])
  <2> HIDE DEF Got
  <2> QED BY <1>1, <1>3, <1>4
<1> QED BY <1>1, <1>2, <1>3, <1>5

LEMMA GotOneMore ==
  ASSUME TypeOK, NEW t \in Txop, Tells(t), NEW p \in Packet, up'[t] = Append(up[t], Whole(p))
  PROVE  Got(t)' = Append(Got(t), p)
<1>1. PICK n \in Nat : n = Len(up[t])
  BY DEF TypeOK
<1>2. PICK g \in Seq(Packet) : g = Got(t) /\ Len(g) = n
  BY <1>1, GotHanded
<1>3. /\ DOMAIN up'[t] = 1..(n + 1) /\ up'[t][n + 1] = Whole(p)
      /\ \A i \in 1..n : up'[t][i] = up[t][i]
  <2>1. up[t] \in Seq(Seq(Fragment)) /\ Whole(p) \in Seq(Fragment)
    BY WholeTypes DEF TypeOK
  <2> QED BY <1>1, <2>1
<1>4. \A i \in 1..n : Got(t)'[i] = g[i]
  <2>1. DOMAIN up[t] = 1..n /\ 1..n \subseteq 1..(n + 1)
    BY <1>1 DEF TypeOK
  <2> QED BY <1>2, <1>3, <2>1 DEF Got
<1>5. Got(t)'[n + 1] = p /\ DOMAIN Got(t)' = 1..(n + 1)
  <2>1. n + 1 \in 1..(n + 1)
    OBVIOUS
  <2> QED BY <1>3, <2>1, WholeNames DEF Got
<1> DEFINE r == Append(g, p)
<1>6. /\ r \in Seq(Packet) /\ Len(r) = n + 1 /\ r[n + 1] = p
      /\ \A i \in 1..n : r[i] = g[i]
  BY <1>2
<1> HIDE DEF r
<1>7. \A i \in 1..(n + 1) : Got(t)'[i] = r[i] /\ r[i] \in Packet
  <2>1. \A i \in 1..(n + 1) : i \in 1..n \/ i = n + 1
    OBVIOUS
  <2> QED BY <1>4, <1>5, <1>6, <2>1
<1>8. Got(t)' \in [1..(n + 1) -> Packet]
  BY <1>3, <1>7 DEF Got
<1>9. r \in [1..(n + 1) -> Packet]
  <2>1. r \in [1..Len(r) -> Packet]
    BY <1>6
  <2> QED BY <1>6, <2>1
<1>10. Got(t)' = r
  <2> HIDE DEF Got
  <2> QED BY <1>7, <1>8, <1>9
<1> QED BY <1>2, <1>10 DEF r

LinkStepped == [LinkOf!LinkNext]_(LinkOf!lvars)

(* Nothing that shows at the link. *)
LEMMA Unseen ==
  ASSUME UNCHANGED <<up, outcome>>
  PROVE  LinkStepped
  BY DEF LinkStepped, LinkOf!lvars

(* A packet is dropped, or given up. *)
LEMMA LinkGivesUp ==
  ASSUME NEW p \in Packet, outcome[p] = "pending", NEW o \in {"failed", "dropped"},
         outcome' = [outcome EXCEPT ![p] = o], UNCHANGED up
  PROVE  LinkStepped
<1>1. LinkOf!GiveUp(p)
  BY DEF LinkOf!GiveUp
<1> QED BY <1>1 DEF LinkStepped, LinkOf!LinkNext

LEMMA QueueLinks ==
  ASSUME TypeInv, StaysAwake, Placement, NEW p \in Packet, Queue(p)
  PROVE  LinkStepped
<1>1. UNCHANGED up /\ (UNCHANGED outcome \/ outcome' = [outcome EXCEPT ![p] = "dropped"])
  BY DEF Queue, rxVars
<1>2. outcome[p] = "pending"
  BY PlacedPending DEF Queue, Placed
<1> QED BY <1>1, <1>2, Unseen, LinkGivesUp

(* What is handed up is forwarded, once and after what came before it.     *)
LEMMA ReceiveLinks ==
  ASSUME TypeInv, NoFragments, StaysAwake, Placement, Received, LinkInv, ReceiveData
  PROVE  LinkStepped
<1>1. TypeOK /\ UNCHANGED outcome
  BY DEF ReceiveData, TypeInv
<1>2. PICK t \in Txop :
           /\ current[t] \in OwnedBy(t) /\ Passed(t)'
           /\ \A u \in Txop \ {t} : rx'[u] = rx[u] /\ up'[u] = up[u]
           /\ \/ Passed(t) /\ up'[t] = up[t]
              \/ ~Passed(t) /\ up'[t] = Append(up[t], Whole(current[t]))
  BY PacketReceived DEF LinkInv
<1>3. PICK p \in OwnedBy(t) : p = current[t] /\ p # NoPacket /\ p \in Packet /\ Owner[p] = t
  BY <1>1, <1>2, PlaceTypes DEF OwnedBy
<1>5. CASE up'[t] = up[t]
  <2>1. \A u \in Txop : up'[u] = up[u]
    BY <1>2, <1>5
  <2>2. [u \in Txop |-> Got(u)]' = [u \in Txop |-> Got(u)]
    BY <2>1 DEF Got
  <2> QED BY <1>1, <2>2 DEF LinkStepped, LinkOf!lvars, Got
<1>6. CASE ~Passed(t) /\ up'[t] = Append(up[t], Whole(current[t]))
  <2> DEFINE got == [u \in Txop |-> Got(u)]
  <2>1. Got(t)' = Append(Got(t), p)
    BY <1>1, <1>3, <1>6, GotOneMore DEF LinkInv, Forwarded
  <2>2. \A u \in Txop \ {t} : Got(u)' = Got(u)
    BY <1>2 DEF Got
  <2>3. got' = [got EXCEPT ![t] = Append(got[t], p)]
    <3> HIDE DEF Got
    <3> QED BY <2>1, <2>2
  <2>4. outcome[p] = "pending"
    BY <1>3, PlacedPending DEF Placed
  <2>5. \A i \in DOMAIN got[t] : got[t][i] < p
    <3>1. p \notin Handed(t)
      BY <1>3, <1>6 DEF LinkInv, Forwarded, Tells
    <3>2. \A q \in Handed(t) : q < p
      BY <1>3, <3>1 DEF LinkInv, InOrder, Ahead
    <3>3. \A i \in DOMAIN Got(t) : Got(t)[i] \in Handed(t)
      BY <1>1, GotHanded DEF LinkInv, Forwarded
    <3> HIDE DEF Got
    <3> QED BY <3>2, <3>3
  <2>6. LinkOf!Forward(p)
    BY <1>1, <1>3, <2>3, <2>4, <2>5 DEF LinkOf!Forward, Got
  <2> QED BY <1>3, <2>6 DEF LinkStepped, LinkOf!LinkNext
<1> QED BY <1>2, <1>5, <1>6

(* An acknowledgement confirms the packet, the last timeout gives it up.   *)
LEMMA TransactionLinks ==
  ASSUME TypeInv, StaysAwake, Placement, LinkInv, LinkInv', Transaction
  PROVE  LinkStepped
<1>1. TypeOK /\ UNCHANGED up
  BY DEF TypeInv, Transaction, GotCts, SendDataAfterCts, GotAck, StartNext, CtsTimeout, NormalAckTimeout, rxVars
<1>2. low.stage # "idle"
  BY DEF Transaction, GotCts, SendDataAfterCts, GotAck, StartNext, CtsTimeout, NormalAckTimeout, Arrives, TimesOut
<1>3. PICK t \in Txop : t = low.frame.txop /\ current[t] # NoPacket /\ current[t] \in Packet
  BY <1>1, <1>2, IdleOrBusy, PlaceTypes DEF TypeInv, InService, Idle
<1>4. PICK p \in Packet : p = current[t] /\ Owner[p] = t
  BY <1>3 DEF Placement, Owned
<1>5. outcome[p] = "pending"
  BY <1>4, PlacedPending DEF Placed
<1>6. UNCHANGED outcome \/ \E o \in {"ok", "failed"} : outcome' = [outcome EXCEPT ![p] = o]
  BY <1>3, <1>4, NeverAsleep
     DEF Transaction, GotCts, SendDataAfterCts, GotAck, StartNext, CtsTimeout, NormalAckTimeout, MissedAck, Abandon
<1>7. CASE outcome' = [outcome EXCEPT ![p] = "ok"]
  <2>1. outcome'[p] = "ok"
    BY <1>1, <1>7 DEF TypeOK
  <2>2. PICK i \in DOMAIN up[t] : up[t][i] = Whole(p)
    BY <1>1, <1>4, <2>1 DEF LinkInv, TxOkMeansForwarded
  <2>3. up[t][i][1].packet = p
    BY <2>2, WholeNames
  <2>4. LinkOf!Confirm(p)
    BY <1>1, <1>4, <1>5, <1>7, <2>3 DEF LinkOf!Confirm
  <2> QED BY <2>4 DEF LinkStepped, LinkOf!LinkNext
<1>8. CASE outcome' = [outcome EXCEPT ![p] = "failed"]
  BY <1>1, <1>5, <1>8, LinkGivesUp
<1> QED BY <1>1, <1>6, <1>7, <1>8, Unseen

LEMMA LinkSteps ==
  ASSUME TypeInv, NoFragments, StaysAwake, Placement, Received, LinkInv, LinkInv', [Next]_vars
  PROVE  LinkStepped
<1>1. CASE \E p \in Packet : Queue(p)
  BY <1>1, QueueLinks
<1>2. CASE Transaction
  BY <1>2, TransactionLinks
<1>3. CASE ReceiveData
  BY <1>3, ReceiveLinks
<1>4. CASE (\E t \in Txop : NotifyAccessGranted(t) \/ SendToOther(t)) \/ ReceiveRts \/ SendReply \/ Lose
           \/ ReceiverSleeps \/ (\E side \in {"sender", "receiver"} : WakeUp(side)) \/ UNCHANGED vars
  <2>1. UNCHANGED <<up, outcome>>
    BY <1>4 DEF NotifyAccessGranted, SendToOther, ReceiveRts, SendReply, Lose, ReceiverSleeps, WakeUp,
                vars, rxVars
  <2> QED BY <2>1, Unseen
<1>5. ~SenderSleeps
  BY NeverAsleep
<1> QED BY <1>1, <1>2, <1>3, <1>4, <1>5 DEF Next, Answer

(* Under the same conditions the exchange implements the link: packets are *)
(* handed up once and in the order in which they were queued, TxOk follows *)
(* the packet it confirms, and what was reported is not handed up later.   *)
THEOREM LinkImplemented ==
  ASSUME NoFragments, StaysAwake, NumbersSuffice
  PROVE  Spec => ImplementsLink
<1>1. QosUnfragmented
  BY DEF NoFragments, QosUnfragmented
<1>2. /\ TypeInv /\ TypeInv' /\ Placement /\ Placement' /\ Received /\ [Next]_vars => Received'
  BY <1>1, NumbersStep, ExchangeStep, ReassemblyStep, WholeStep DEF Received
<1>3. /\ TypeInv /\ TypeInv' /\ Placement /\ Placement' /\ Received /\ Received' /\ LinkInv /\ [Next]_vars
        => LinkInv'
  BY <1>1, LinkStep
<1>4. Init => Received
  BY InitReception DEF Received
<1>5. Init => LinkOf!LinkInit
  BY DEF Init, LinkOf!LinkInit
<1>6. ASSUME TypeInv, Placement, Received, LinkInv, LinkInv', [Next]_vars
      PROVE  [LinkOf!LinkNext]_(LinkOf!lvars)
  BY <1>6, LinkSteps DEF LinkStepped
<1> QED BY <1>2, <1>3, <1>4, <1>5, <1>6, InitLink, InitTypes, TypeStep, InitPlaces, PlacementStep, PTL
        DEF Spec, ImplementsLink, LinkOf!LinkSpec
=============================================================================
