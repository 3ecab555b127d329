-------------------------------- MODULE BlockAck --------------------------------
(***************************************************************************)
(* Packets of one TID from an originator to a recipient under a block ack  *)
(* agreement: EdcaTxopN and BlockAckManager at the originator, the         *)
(* reordering buffer of MacLow, BlockAckCache and the duplicate filter of  *)
(* MacRxMiddle at the recipient, and the handshake that sets an agreement  *)
(* up and tears it down.                                                   *)
(*                                                                         *)
(* Immediate compressed block ack between stations without HT, hence       *)
(* without fragments, A-MSDU and A-MPDU.  One frame is in the air at a     *)
(* time; an answer follows its frame after a SIFS, so a recipient's        *)
(* handler and the answer it schedules are one step.  A frame may be lost; *)
(* a timeout finds nothing in the air.                                     *)
(***************************************************************************)
EXTENDS Naturals, Sequences, FiniteSets, SequencesExt

CONSTANTS
  Packet,         \* the packets, 1..n in the order they are queued
  SeqSpace,       \* sequence numbers (4096)
  FragMod,        \* fragment numbers in a sequence control (16)
  Window,         \* packets a bitmap covers (64)
  FirstSeq,       \* the counter of MacTxMiddle when the first packet is queued
  Threshold,      \* BlockAckThreshold of EdcaTxopN
  MaxSlrc,        \* WifiRemoteStationManager's MaxSlrc (7)
  HasInactivity,  \* BlockAckInactivityTimeout is not 0
  MaxLosses,      \* bound: frames lost
  MaxExpired,     \* bound: packets that outlive WifiMacQueue's MaxDelay
  MaxTimeouts     \* bound: inactivity timers that expire

ASSUME BlockAckAssumption ==
  /\ IsFiniteSet(Packet) /\ Packet = 1..Cardinality(Packet)
  /\ {SeqSpace, FragMod, Window, Threshold, MaxSlrc} \subseteq Nat \ {0}
  /\ {FirstSeq, MaxLosses, MaxExpired, MaxTimeouts} \subseteq Nat
  /\ FirstSeq < SeqSpace /\ 2 * Window <= SeqSpace
  /\ HasInactivity \in BOOLEAN

VARIABLES
  offered,   \* packets handed to EdcaTxopN::Queue so far
  expired,   \* packets 1..expired are older than MaxDelay
  queue,     \* packets in WifiMacQueue
  delbas,    \* DELBA frames pushed to the front of it
  cur,       \* m_currentPacket and m_currentHdr of the originator
  nextSeq,   \* the counter of MacTxMiddle for the TID
  blocked,   \* the destination is in QosBlockedDestinations
  ba,        \* BlockAckManager: the agreement, its packets, m_retryPackets, m_bars
  outcome,   \* per packet, what became of it at the originator
  rx,        \* MacLow and BlockAckCache of the recipient
  slrc,      \* per side, WifiRemoteStation::m_slrc of the other
  seen,      \* sides whose management frame in service has arrived
  lastSeq,   \* OriginatorRxStatus of the TID: the last sequence number
  up,        \* packets the recipient handed up
  replies,   \* frames in the queue of the recipient
  rcur,      \* m_currentPacket of the recipient
  air,       \* the frame in the air
  low,       \* what the MacLow that sent it waits for
  timers,    \* inactivity timers that run
  losses, timeouts

sender == <<offered, expired, queue, delbas, cur, nextSeq, blocked, ba, outcome>>
receiver == <<rx, lastSeq, up, replies, rcur>>
medium == <<air, low>>
vars == <<sender, receiver, medium, slrc, seen, timers, losses, timeouts>>

-----------------------------------------------------------------------------
(* Sequence numbers.                                                       *)

Seqs == 0..(SeqSpace - 1)
Plus(s, n) == (s + n) % SeqSpace
Dist(s, start) == (s + SeqSpace - start) % SeqSpace
IsOld(start, s) == Dist(s, start) >= SeqSpace \div 2
IsInWindow(s, start) == Dist(s, start) < Window
Between(first, final) == {s \in Seqs : Dist(s, first) <= Dist(final, first)}

(* The key a buffer is sorted by.  It takes a sequence control, a number   *)
(* times FragMod plus a fragment.                                          *)
MapSeqControl(control, start) ==
  LET end == Plus(start, SeqSpace \div 2 - 1) IN
  Dist(control \div FragMod, end + 1) * FragMod + (control % FragMod)

(* Puts an item before the first one for which Later holds.                *)
InsertBefore(s, item, Later(_)) ==
  LET n == SelectInSeq(s, Later) IN
  IF n = 0 THEN Append(s, item) ELSE InsertAt(s, n, item)

(* The elements of s at the positions in I, in order.                      *)
Selected(s, I) ==
  LET nth(n) == CHOOSE i \in I : Cardinality({j \in I : j < i}) = n - 1
  IN [n \in 1..Cardinality(I) |-> s[nth(n)]]

PrefixLen(s, Fails(_)) == LET n == SelectInSeq(s, Fails) IN IF n = 0 THEN Len(s) ELSE n - 1

-----------------------------------------------------------------------------
(* The originator's records.  An item is a packet with its number.         *)

Item == [packet : Packet, seq : Seqs, retry : BOOLEAN]
NoFrame == [kind |-> "none"]
NoAgreement == [state |-> "none", start |-> 0, needBar |-> FALSE,
                sent |-> <<>>, retry |-> <<>>, bars |-> <<>>]
NoRecord == [exists |-> FALSE, start |-> 0, buffer |-> <<>>,
             winStart |-> 0, winEnd |-> Window - 1, bitmap |-> {}]

InSent(a, s) == \E i \in DOMAIN a.sent : a.sent[i].seq = s
Excluding(seqs, S) == Selected(seqs, {i \in DOMAIN seqs : seqs[i] \notin S})
Without(items, S) == Selected(items, {i \in DOMAIN items : items[i].seq \notin S})
SeqsOf(items) == {items[i].seq : i \in DOMAIN items}
PacketsOf(items) == {items[i].packet : i \in DOMAIN items}

(* Fault: the first packet that is young enough goes as well. *)
CleanupOneTooMany(a) ==
  LET n == PrefixLen(a.sent, LAMBDA it : it.packet > expired)
  IN IF n + 1 >= Len(a.sent) THEN a
     ELSE [a EXCEPT !.sent = SubSeq(@, n + 2, Len(@)), !.start = a.sent[n + 2].seq,
                    !.retry = Excluding(@, SeqsOf(SubSeq(a.sent, 1, n + 1)))]

(* CleanupBuffers: packets that outlived MaxDelay are no longer retried,   *)
(* and forgotten if one that did not follows them.                         *)
Cleanup(a) ==
  IF a.sent = <<>> THEN a
  ELSE LET n    == PrefixLen(a.sent, LAMBDA it : it.packet > expired)
           kept == IF n = Len(a.sent) THEN a.sent ELSE SubSeq(a.sent, n + 1, Len(a.sent))
           dead == SeqsOf(SubSeq(a.sent, 1, n))
       IN [a EXCEPT !.sent = kept, !.start = kept[1].seq,
                    !.retry = Excluding(@, dead)]

Gone(before, after) == PacketsOf(before.sent) \ PacketsOf(after.sent)
Report(packets, what) == [p \in Packet |-> IF p \in packets THEN what ELSE outcome[p]]

(* SwitchToBlockAckIfNeeded: with enough packets at hand the window starts *)
(* at the given number.                                                    *)
Enough(a) == Len(queue) + Len(a.sent) >= Threshold
SwitchToBlockAck(a, s) ==
  IF a.state \notin {"none", "unsuccessful"} /\ Enough(a)
  THEN [a EXCEPT !.state = "established", !.start = s]
  ELSE a

StorePacket(a, item) ==
  [a EXCEPT !.sent = InsertBefore(@, item, LAMBDA q : IsOld(q.seq, item.seq))]

InsertInRetryQueue(retry, s) == InsertBefore(retry, s, LAMBDA q : IsOld(q, s))
Retrying(retry, items) ==
  LET after[n \in 0..Len(items)] ==
        IF n = 0 THEN retry ELSE InsertInRetryQueue(after[n - 1], items[n].seq)
  IN after[Len(items)]

(* NotifyMpduTransmission: a request is due when the next packet would     *)
(* leave the window, or when nothing else is left to be sent.              *)
NotifyMpduTransmission(a, next, rest) ==
  LET s    == IF a.retry # <<>> THEN a.retry[1] ELSE next
      need == a.needBar \/ Dist(s, a.start) >= Window
  IN IF need \/ (a.retry = <<>> /\ rest = <<>>)
     THEN [a EXCEPT !.needBar = FALSE, !.bars = Append(@, a.start)]
     ELSE [a EXCEPT !.needBar = need]

(* NotifyGotBlockAck, for the packets the bitmap does and does not cover.  *)
NotifyGotBlockAck(a, acked) ==
  LET lost  == Without(a.sent, acked)
      b     == [a EXCEPT !.sent = lost,
                         !.start = IF lost = <<>> THEN @ ELSE lost[1].seq,
                         !.retry = Retrying(@, Without(lost, ToSet(@)))]
      first == IF lost = <<>> THEN nextSeq ELSE lost[1].seq
  IN IF Enough(b) THEN SwitchToBlockAck(b, first) ELSE [b EXCEPT !.needBar = FALSE]

-----------------------------------------------------------------------------
(* The recipient's records.  r gathers rx, up and lastSeq.                 *)

Recipient == [rx |-> rx, up |-> up, last |-> lastSeq]

(* MacRxMiddle::Receive for each of the items: a retry of the one that     *)
(* came before it is dropped.                                              *)
HandUpAll(r, items) ==
  LET last(i) == IF i = 1 THEN r.last ELSE items[i - 1].seq
      new     == {i \in DOMAIN items : ~(items[i].retry /\ items[i].seq = last(i))}
      passed  == Selected(items, new)
  IN [r EXCEPT !.up = @ \o [i \in DOMAIN passed |-> passed[i].packet],
               !.last = last(Len(items) + 1)]

(* Fault: the buffer is in order of arrival. *)
StoreMpduLast(r, item) == [r EXCEPT !.rx.buffer = Append(@, item)]
StoreMpdu(r, item) ==
  LET key(s) == MapSeqControl(s * FragMod, r.rx.start) IN
  [r EXCEPT !.rx.buffer = InsertBefore(@, item, LAMBDA q : key(q.seq) >= key(item.seq))]

(* RxCompleteBufferedPacketsWithSmallerSequence gives sequence numbers to  *)
(* a map of sequence controls.  Of equal neighbours the first is taken.    *)
RxCompleteSmaller(r, s) ==
  LET key(x) == MapSeqControl(x, r.rx.start)
      buffer == r.rx.buffer
      n      == PrefixLen(buffer, LAMBDA q : key(q.seq) >= key(s))
      firsts == {i \in 1..n : i = 1 \/ buffer[i].seq # buffer[i - 1].seq}
  IN HandUpAll([r EXCEPT !.rx.buffer = SubSeq(@, n + 1, Len(@))], Selected(buffer, firsts))

(* RxCompleteBufferedPacketsUntilFirstLost.                                *)
RxCompleteUntilLost(r) ==
  LET buffer == r.rx.buffer
      broken == {i \in DOMAIN buffer : buffer[i].seq # Plus(r.rx.start, i - 1)}
      n      == IF broken = {} THEN Len(buffer) ELSE Min(broken) - 1
  IN HandUpAll([r EXCEPT !.rx.buffer = SubSeq(@, n + 1, Len(@)), !.rx.start = Plus(@, n)],
               SubSeq(buffer, 1, n))

(* DestroyBlockAckAgreement.                                               *)
Destroy(r) ==
  IF ~r.rx.exists THEN r
  ELSE [RxCompleteUntilLost(RxCompleteSmaller(r, r.rx.start)) EXCEPT !.rx = NoRecord]

(* Fault: the end of the window moves alone. *)
CacheMovesEnd(c, s) ==
  IF IsOld(c.winStart, s) THEN c
  ELSE [c EXCEPT !.bitmap = @ \cup {s}, !.winEnd = IF IsInWindow(s, c.winStart) THEN @ ELSE s]

(* BlockAckCache, with a set for m_bitmap.                                 *)
CacheMpdu(c, s) ==
  IF IsOld(c.winStart, s) THEN c
  ELSE IF IsInWindow(s, c.winStart) THEN [c EXCEPT !.bitmap = @ \cup {s}]
  ELSE LET delta == Dist(s, c.winEnd)
           reset == IF delta > 1 THEN Between(Plus(c.winEnd, 1), Plus(s, SeqSpace - 1)) ELSE {}
       IN [c EXCEPT !.bitmap = (@ \ reset) \cup {s}, !.winStart = Plus(@, delta), !.winEnd = s]

(* Fault: a request moves the window over bits of the previous round. *)
CacheKeepsBits(c, s) ==
  IF IsOld(c.winStart, s) \/ s = c.winStart THEN c
  ELSE [c EXCEPT !.winStart = s, !.winEnd = Plus(s, Window - 1)]

CacheBlockAckReq(c, s) ==
  LET newEnd == Plus(s, Window - 1)
      reset  == IF IsInWindow(s, c.winStart) THEN Between(Plus(c.winEnd, 1), newEnd)
                                             ELSE Between(s, newEnd)
  IN IF IsOld(c.winStart, s) \/ s = c.winStart THEN c
     ELSE [c EXCEPT !.winStart = s, !.winEnd = newEnd, !.bitmap = @ \ reset]

FillBlockAckBitmap(c, s) == {x \in c.bitmap : IsInWindow(x, s)}

-----------------------------------------------------------------------------
(* Initially nothing was sent and nothing was agreed on.                   *)

Init ==
  /\ offered = 0 /\ expired = 0
  /\ queue = <<>> /\ delbas = <<>>
  /\ cur = NoFrame
  /\ nextSeq = FirstSeq
  /\ blocked = FALSE
  /\ ba = NoAgreement
  /\ outcome = [p \in Packet |-> "pending"]
  /\ rx = NoRecord
  /\ lastSeq = SeqSpace              \* 0xffff, which no packet has
  /\ up = <<>>
  /\ replies = <<>> /\ rcur = NoFrame
  /\ air = NoFrame /\ low = "idle"
  /\ slrc = [originator |-> 0, recipient |-> 0]
  /\ seen = {}
  /\ timers = {}
  /\ losses = 0 /\ timeouts = 0

-----------------------------------------------------------------------------
(* Packets come and grow old.                                              *)

Queue ==
  /\ offered < Cardinality(Packet)
  /\ offered' = offered + 1
  /\ queue' = Append(queue, offered + 1)
  /\ UNCHANGED <<expired, delbas, cur, nextSeq, blocked, ba, outcome, receiver, medium,
                 slrc, seen, timers, losses, timeouts>>

(* WifiMacQueue drops what outlived MaxDelay whenever it is looked at; the *)
(* oldest packet is in front.                                              *)
Expire ==
  /\ expired < offered /\ expired < MaxExpired
  /\ expired' = expired + 1
  /\ IF queue # <<>> /\ Head(queue) = expired + 1
     THEN queue' = Tail(queue) /\ outcome' = Report({Head(queue)}, "gone")
     ELSE UNCHANGED <<queue, outcome>>
  /\ UNCHANGED <<offered, delbas, cur, nextSeq, blocked, ba, receiver, medium,
                 slrc, seen, timers, losses, timeouts>>

-----------------------------------------------------------------------------
(* EdcaTxopN::NotifyAccessGranted at the originator.                       *)

DataFrame(item, policy) == [kind |-> "data", item |-> item, policy |-> policy]
BarFrame(s) == [kind |-> "bar", start |-> s]
Management(k) == [kind |-> k]
AddBa(s) == [kind |-> "addba", start |-> s]

MediumIdle == air = NoFrame /\ low = "idle"
Transmit(frame, wait) == air' = frame /\ low' = wait /\ cur' = frame
NothingElseSent == UNCHANGED <<offered, expired, receiver, timers, losses, timeouts, slrc>>

Resend ==
  /\ MediumIdle /\ cur # NoFrame
  /\ Transmit(cur, IF cur.kind = "bar" THEN "blockack" ELSE "ack")
  /\ NothingElseSent
  /\ UNCHANGED <<queue, delbas, nextSeq, blocked, ba, outcome, seen>>

SendBlockAckRequest ==
  /\ MediumIdle /\ cur = NoFrame /\ ba.bars # <<>>
  /\ Transmit(BarFrame(Head(ba.bars)), "blockack")
  /\ ba' = [ba EXCEPT !.bars = Tail(@)]
  /\ NothingElseSent
  /\ UNCHANGED <<queue, delbas, nextSeq, blocked, outcome, seen>>

(* GetNextPacket: retries that the window left behind are discarded.       *)
Prepared ==
  LET c    == Cleanup(ba)
      n    == PrefixLen(c.retry, LAMBDA s : ~IsOld(c.start, s))
      dead == ToSet(SubSeq(c.retry, 1, n))
  IN IF c.retry = <<>> THEN c
     ELSE [c EXCEPT !.sent = Without(@, dead), !.retry = SubSeq(@, n + 1, Len(@))]

HasNoBar == MediumIdle /\ cur = NoFrame /\ ba.bars = <<>>

SendRetry ==
  LET b    == Prepared
      s    == Head(b.retry)
      item == b.sent[SelectInSeq(b.sent, LAMBDA it : it.seq = s)]
      c    == [b EXCEPT !.retry = Tail(@),
                        !.start = IF s > Plus(@, Window - 1) THEN s ELSE @]
  IN /\ HasNoBar /\ b.retry # <<>>
     /\ Transmit(DataFrame([item EXCEPT !.retry = TRUE], "block"), "noack")
     /\ ba' = NotifyMpduTransmission(c, nextSeq, queue)
     /\ outcome' = Report(Gone(ba, b), "gone")
     /\ NothingElseSent
     /\ UNCHANGED <<queue, delbas, nextSeq, blocked, seen>>

(* Without retries the queue is next: DELBA frames are at its front, and   *)
(* packets to a blocked destination stay in it.                            *)
HasNoRetry == HasNoBar /\ Prepared.retry = <<>>

SendDelba ==
  /\ HasNoRetry /\ delbas # <<>>
  /\ Transmit(Management("delba"), "ack")
  /\ delbas' = Tail(delbas)
  /\ ba' = Prepared
  /\ outcome' = Report(Gone(ba, Prepared), "gone")
  /\ seen' = seen \ {"originator"}
  /\ NothingElseSent
  /\ UNCHANGED <<queue, nextSeq, blocked>>

HasData == HasNoRetry /\ delbas = <<>> /\ queue # <<>> /\ ~blocked
NeedSetup == ba.state = "none" /\ Len(queue) >= Threshold

SetupBlockAck ==
  /\ HasData /\ NeedSetup
  /\ Transmit(AddBa(nextSeq), "ack")
  /\ ba' = [NoAgreement EXCEPT !.state = "pending", !.start = nextSeq]
  /\ blocked' = TRUE
  /\ seen' = seen \ {"originator"}
  /\ NothingElseSent
  /\ UNCHANGED <<queue, delbas, nextSeq, outcome>>

SendFirst ==
  LET item == [packet |-> Head(queue), seq |-> nextSeq, retry |-> FALSE]
      next == Plus(nextSeq, 1)
      b    == StorePacket(Prepared, item)
  IN /\ HasData /\ ~NeedSetup
     /\ queue' = Tail(queue)
     /\ nextSeq' = next
     /\ IF ba.state = "established"
        THEN /\ Transmit(DataFrame(item, "block"), "noack")
             /\ ba' = NotifyMpduTransmission(b, next, Tail(queue))
        ELSE /\ Transmit(DataFrame(item, "normal"), "ack")
             /\ ba' = Prepared
     /\ outcome' = Report(Gone(ba, Prepared), "gone")
     /\ NothingElseSent
     /\ UNCHANGED <<delbas, blocked, seen>>

(* Nothing may be sent, but CleanupBuffers has run.                        *)
SendNothing ==
  /\ HasNoRetry /\ ba.retry # <<>>
  /\ delbas = <<>> /\ (queue = <<>> \/ blocked)
  /\ ba' = Prepared
  /\ outcome' = Report(Gone(ba, Prepared), "gone")
  /\ NothingElseSent
  /\ UNCHANGED <<queue, delbas, cur, nextSeq, blocked, seen, medium>>

EndTxNoAck ==
  /\ low = "noack" /\ low' = "idle"
  /\ cur' = NoFrame
  /\ UNCHANGED <<offered, expired, queue, delbas, nextSeq, blocked, ba, outcome, receiver,
                 air, slrc, seen, timers, losses, timeouts>>

(* NotifyAccessGranted at the recipient.                                   *)
SendReply ==
  /\ MediumIdle
  /\ IF rcur # NoFrame
     THEN UNCHANGED <<replies, rcur, seen>>
     ELSE /\ replies # <<>>
          /\ rcur' = Management(Head(replies))
          /\ replies' = Tail(replies)
          /\ seen' = seen \ {"recipient"}
  /\ air' = rcur' /\ low' = "rack"
  /\ UNCHANGED <<sender, rx, lastSeq, up, slrc, timers, losses, timeouts>>

Lose ==
  /\ air # NoFrame /\ losses < MaxLosses
  /\ losses' = losses + 1
  /\ air' = NoFrame
  /\ UNCHANGED <<sender, receiver, low, slrc, seen, timers, timeouts>>

-----------------------------------------------------------------------------
(* MacLow::ReceiveOk at the recipient.                                     *)

Becomes(r) == rx' = r.rx /\ up' = r.up /\ lastSeq' = r.last
Running(side) == IF HasInactivity THEN timers \cup {side} ELSE timers
Stored(item) == [StoreMpdu(Recipient, item) EXCEPT !.rx = CacheMpdu(@, item.seq)]
NothingElseReceived == UNCHANGED <<sender, low, slrc, losses, timeouts>>

ReceiveUnderBlockAck ==
  /\ air.kind = "data" /\ air.policy = "block"
  /\ IF rx.exists
     THEN /\ Becomes(Stored(air.item))
          /\ timers' = Running("recipient")
          /\ UNCHANGED replies
     ELSE /\ replies' = <<"delba">> \o replies
          /\ UNCHANGED <<rx, up, lastSeq, timers>>
  /\ air' = NoFrame
  /\ NothingElseReceived
  /\ UNCHANGED <<rcur, seen>>

ReceiveUnderNormalAck ==
  /\ air.kind = "data" /\ air.policy = "normal"
  /\ Becomes(IF rx.exists
             THEN RxCompleteUntilLost(RxCompleteSmaller(Stored(air.item), rx.start))
             ELSE HandUpAll(Recipient, <<air.item>>))
  /\ air' = Management("ack")
  /\ NothingElseReceived
  /\ UNCHANGED <<replies, rcur, seen, timers>>

ReceiveBlockAckReq ==
  /\ air.kind = "bar"
  /\ IF rx.exists
     THEN LET cached == [Recipient EXCEPT !.rx = CacheBlockAckReq(@, air.start)] IN
          /\ air' = [kind |-> "ba", start |-> air.start,
                     acked |-> FillBlockAckBitmap(cached.rx, air.start)]
          /\ Becomes(RxCompleteUntilLost(RxCompleteSmaller(cached, air.start)))
          /\ timers' = Running("recipient")
     ELSE /\ air' = NoFrame
          /\ UNCHANGED <<rx, up, lastSeq, timers>>
  /\ NothingElseReceived
  /\ UNCHANGED <<replies, rcur, seen>>

(* RegularWifiMac::Receive, after the duplicate filter.                    *)
ReceiveAddBaRequest ==
  /\ air.kind = "addba"
  /\ seen' = seen \cup {"originator"}
  /\ IF "originator" \in seen
     THEN UNCHANGED <<rx, replies, timers>>
     ELSE /\ rx' = IF rx.exists THEN rx
                   ELSE [exists |-> TRUE, start |-> air.start, buffer |-> <<>>, winStart |-> air.start,
                         winEnd |-> Plus(air.start, Window - 1), bitmap |-> {}]
          /\ replies' = <<"resp">> \o replies
          /\ timers' = Running("recipient")
  /\ air' = Management("ack")
  /\ NothingElseReceived
  /\ UNCHANGED <<up, lastSeq, rcur>>

ReceiveDelBa ==
  /\ air.kind = "delba" /\ low = "ack"
  /\ seen' = seen \cup {"originator"}
  /\ IF "originator" \in seen
     THEN UNCHANGED <<rx, up, lastSeq, timers>>
     ELSE Becomes(Destroy(Recipient)) /\ timers' = timers \ {"recipient"}
  /\ air' = Management("ack")
  /\ NothingElseReceived
  /\ UNCHANGED <<replies, rcur>>

-----------------------------------------------------------------------------
(* MacLow::ReceiveOk at the originator.                                    *)

NothingElseTold == UNCHANGED <<offered, expired, queue, nextSeq, losses, timeouts>>

(* Fault: the destination stays blocked. *)
EstablishedButBlocked ==
  ba' = [ba EXCEPT !.state = "established"] /\ timers' = Running("originator") /\ UNCHANGED blocked

(* GotAddBaResponse: only a pending agreement is established.              *)
Established ==
  ba' = [ba EXCEPT !.state = "established"] /\ timers' = Running("originator") /\ blocked' = FALSE

ReceiveAddBaResponse ==
  /\ air.kind = "resp"
  /\ seen' = seen \cup {"recipient"}
  /\ IF "recipient" \notin seen /\ ba.state = "pending"
     THEN Established
     ELSE UNCHANGED <<ba, blocked, timers>>
  /\ air' = Management("ack")
  /\ NothingElseTold
  /\ UNCHANGED <<delbas, cur, outcome, receiver, low, slrc>>

(* Fault: m_retryPackets survives the agreement. *)
TearDownKeepsRetries ==
  /\ ba' = [NoAgreement EXCEPT !.retry = ba.retry]
  /\ outcome' = Report(PacketsOf(ba.sent), "gone")
  /\ timers' = timers \ {"originator"}

TearDownBlockAck ==
  /\ ba' = NoAgreement
  /\ outcome' = Report(PacketsOf(ba.sent), "gone")
  /\ timers' = timers \ {"originator"}

GotDelBaFrame ==
  /\ air.kind = "delba" /\ low = "rack"
  /\ seen' = seen \cup {"recipient"}
  /\ IF "recipient" \in seen THEN UNCHANGED <<ba, outcome, timers>> ELSE TearDownBlockAck
  /\ air' = Management("ack")
  /\ NothingElseTold
  /\ UNCHANGED <<delbas, cur, blocked, receiver, low, slrc>>

Answered == air' = NoFrame /\ low' = "idle"

(* m_slrc is reset by each packet that is covered, and counts the others.  *)
FailedInARow(acked) ==
  LET hits == {i \in DOMAIN ba.sent : ba.sent[i].seq \in acked}
  IN IF hits = {} THEN slrc.originator + Len(ba.sent) ELSE Len(ba.sent) - Max(hits)

GotBlockAck ==
  /\ air.kind = "ba"
  /\ IF ba.state = "established"
     THEN LET n == FailedInARow(air.acked) IN
          /\ ba' = NotifyGotBlockAck(ba, air.acked)
          /\ outcome' = Report(Gone(ba, ba'), "ok")
          /\ slrc' = [slrc EXCEPT !.originator = IF n < MaxSlrc THEN n ELSE MaxSlrc]
     ELSE UNCHANGED <<ba, outcome, slrc>>
  /\ cur' = NoFrame
  /\ Answered
  /\ NothingElseTold
  /\ UNCHANGED <<delbas, blocked, receiver, seen, timers>>

GotAck ==
  /\ air.kind = "ack" /\ low = "ack"
  /\ IF cur.kind = "delba" THEN TearDownBlockAck
     ELSE /\ UNCHANGED <<ba, timers>>
          /\ outcome' = IF cur.kind = "data" THEN Report({cur.item.packet}, "ok") ELSE outcome
  /\ cur' = NoFrame
  /\ slrc' = [slrc EXCEPT !.originator = 0]
  /\ Answered
  /\ NothingElseTold
  /\ UNCHANGED <<delbas, blocked, receiver, seen>>

ReplyGotAck ==
  /\ air.kind = "ack" /\ low = "rack"
  /\ IF rcur.kind = "delba"
     THEN Becomes(Destroy(Recipient)) /\ timers' = timers \ {"recipient"}
     ELSE UNCHANGED <<rx, up, lastSeq, timers>>
  /\ rcur' = NoFrame
  /\ slrc' = [slrc EXCEPT !.recipient = 0]
  /\ Answered
  /\ UNCHANGED <<sender, replies, seen, losses, timeouts>>

-----------------------------------------------------------------------------
(* MacLow's timeouts, and the inactivity timers.                           *)

TimedOut(wait) == low = wait /\ air = NoFrame /\ low' = "idle" /\ UNCHANGED air
Failed(side) == slrc[side] + 1        \* ReportDataFailed

(* Fault: a packet that is given up is dropped silently. *)
MissedAckUnreported ==
  /\ TimedOut("ack")
  /\ slrc' = [slrc EXCEPT !.originator = IF @ + 1 < MaxSlrc THEN @ + 1 ELSE 0]
  /\ cur' = IF slrc'.originator = 0 THEN NoFrame ELSE cur
  /\ UNCHANGED <<offered, expired, queue, delbas, nextSeq, blocked, ba, outcome, receiver, seen,
                 timers, losses, timeouts>>

MissedAck ==
  LET n == Failed("originator") IN
  /\ TimedOut("ack")
  /\ IF n < MaxSlrc
     THEN /\ cur' = IF cur.kind = "data" THEN [cur EXCEPT !.item.retry = TRUE] ELSE cur
          /\ slrc' = [slrc EXCEPT !.originator = n]
          /\ UNCHANGED outcome
     ELSE /\ cur' = NoFrame
          /\ slrc' = [slrc EXCEPT !.originator = 0]
          /\ outcome' = IF cur.kind = "data" THEN Report({cur.item.packet}, "failed") ELSE outcome
  /\ UNCHANGED <<offered, expired, queue, delbas, nextSeq, blocked, ba, receiver, seen, timers,
                 losses, timeouts>>

ReplyMissedAck ==
  LET n == Failed("recipient") IN
  /\ TimedOut("rack")
  /\ IF n < MaxSlrc
     THEN slrc' = [slrc EXCEPT !.recipient = n] /\ UNCHANGED rcur
     ELSE slrc' = [slrc EXCEPT !.recipient = 0] /\ rcur' = NoFrame
  /\ UNCHANGED <<sender, rx, lastSeq, up, replies, seen, timers, losses, timeouts>>

(* The agreement of the request must still exist (an assertion).           *)
MissedBlockAck ==
  LET c == Cleanup(ba)
      n == Failed("originator")
  IN /\ TimedOut("blockack") /\ ba.state # "none"
     /\ ba' = c
     /\ outcome' = Report(Gone(ba, c), "gone")
     /\ cur' = IF cur.start + Window - 1 < c.start THEN NoFrame ELSE cur
     /\ slrc' = [slrc EXCEPT !.originator = IF n < MaxSlrc THEN n ELSE MaxSlrc]
     /\ UNCHANGED <<offered, expired, queue, delbas, nextSeq, blocked, receiver, seen, timers,
                    losses, timeouts>>

InactivityTimeout(side) ==
  /\ side \in timers /\ timeouts < MaxTimeouts
  /\ timers' = timers \ {side}
  /\ timeouts' = timeouts + 1
  /\ IF side = "originator"
     THEN delbas' = <<"delba">> \o delbas /\ UNCHANGED replies
     ELSE replies' = <<"delba">> \o replies /\ UNCHANGED delbas
  /\ UNCHANGED <<offered, expired, queue, cur, nextSeq, blocked, ba, outcome, rx, lastSeq, up, rcur,
                 medium, slrc, seen, losses>>

-----------------------------------------------------------------------------
Originate ==
  \/ Resend \/ SendBlockAckRequest \/ SendRetry \/ SendDelba \/ SetupBlockAck
  \/ SendFirst \/ SendNothing \/ EndTxNoAck

Receive ==
  \/ ReceiveUnderBlockAck \/ ReceiveUnderNormalAck \/ ReceiveBlockAckReq
  \/ ReceiveAddBaRequest \/ ReceiveDelBa \/ ReceiveAddBaResponse
  \/ GotDelBaFrame \/ GotBlockAck \/ GotAck \/ ReplyGotAck

Timeout == MissedAck \/ ReplyMissedAck \/ MissedBlockAck

Next ==
  \/ Queue \/ Expire \/ Lose
  \/ Originate \/ SendReply \/ Receive \/ Timeout
  \/ \E side \in {"originator", "recipient"} : InactivityTimeout(side)

Spec == Init /\ [][Next]_vars

-----------------------------------------------------------------------------
(* Correctness.                                                            *)

(* Frames, queues, windows and buffers keep their types: of the code, the  *)
(* headers MacLow switches on and the containers of both sides.            *)
Frame ==
  [kind : {"none", "ack", "delba", "resp"}]
    \cup [kind : {"data"}, item : Item, policy : {"block", "normal"}]
    \cup [kind : {"bar", "addba"}, start : Seqs]
    \cup [kind : {"ba"}, start : Seqs, acked : SUBSET Seqs]

TypeOK ==
  /\ offered \in 0..Cardinality(Packet) /\ expired \in 0..MaxExpired
  /\ queue \in Seq(Packet) /\ delbas \in Seq({"delba"})
  /\ {cur, rcur, air} \subseteq Frame
  /\ nextSeq \in Seqs /\ lastSeq \in 0..SeqSpace /\ blocked \in BOOLEAN
  /\ ba \in [state : {"none", "pending", "established"}, start : Seqs, needBar : BOOLEAN,
              sent : Seq(Item), retry : Seq(Seqs), bars : Seq(Seqs)]
  /\ outcome \in [Packet -> {"pending", "ok", "failed", "gone"}]
  /\ rx \in [exists : BOOLEAN, start : Seqs, buffer : Seq(Item),
              winStart : Seqs, winEnd : Seqs, bitmap : SUBSET Seqs]
  /\ up \in Seq(Packet) /\ replies \in Seq({"resp", "delba"})
  /\ low \in {"idle", "noack", "ack", "rack", "blockack"}
  /\ slrc \in [{"originator", "recipient"} -> 0..MaxSlrc]
  /\ {seen, timers} \subseteq {{}, {"originator"}, {"recipient"}, {"originator", "recipient"}}
  /\ losses \in 0..MaxLosses /\ timeouts \in 0..MaxTimeouts

(* Only an inactivity timer begins a teardown.  DestroyBlockAckAgreement   *)
(* throws away what is behind a gap, and DestroyAgreement what was not     *)
(* acknowledged; neither of them unblocks the destination.                 *)
NeverTornDown == timeouts = 0

(* The iterators of m_retryPackets point into the packets of the           *)
(* agreement: whatever erases a packet takes its retry out first, and what *)
(* a block ack covers is not waiting to be sent again.                     *)
RetriesAreKept ==
  /\ \A i \in DOMAIN ba.retry : InSent(ba, ba.retry[i])
  /\ \A i, j \in DOMAIN ba.retry : ba.retry[i] = ba.retry[j] => i = j

(* WINSIZE_ASSERT of BlockAckCache: data and requests that move the window *)
(* move both of its ends.                                                  *)
CacheWindow == rx.exists => Dist(rx.winEnd, rx.winStart) = Window - 1

(* The records of both sides stay sound: their types, and both ends of the *)
(* window of BlockAckCache.                                                *)
RecordsAreSound == TypeOK /\ CacheWindow

(* A packet is reported sent only after the recipient got it: its bit in   *)
(* BlockAckCache is of this round of the numbers, never one that a moved   *)
(* window should have cleared.                                             *)
SentMeansReceived ==
  NeverTornDown =>
    \A p \in Packet : outcome[p] = "ok" => p \in ToSet(up) \cup PacketsOf(rx.buffer)

(* Packets are handed up in order, although the buffer keeps copies of     *)
(* retries and two handlers empty it, and once, while no timer ends an     *)
(* agreement, as long as their numbers are in the first half of the space: *)
(* beyond, RxCompleteSmaller may take a number for smaller than one before *)
(* it.  Of all packets see HandedUpInOrder.  When only one side has ended, *)
(* a packet under normal acknowledgement empties the buffer                *)
(* (mac-low.cc:1140) as far as the copy of a retry, which is then handed   *)
(* up by itself.                                                           *)
InFirstHalf(p) == FirstSeq + p <= SeqSpace \div 2
InOrderInFirstHalf ==
  (\A i \in DOMAIN up : InFirstHalf(up[i])) =>
    \A i, j \in DOMAIN up : i < j => up[i] < up[j] \/ (~NeverTornDown /\ up[i] = up[j])

(* A packet is dropped silently only for its age: GetNextPacket never has  *)
(* to discard a retry that the window has left behind.                     *)
OnlyOldAreGone ==
  NeverTornDown => \A p \in Packet : outcome[p] = "gone" => p <= expired

(* Every packet is somewhere: in the queue, in service, kept for the block *)
(* ack, or reported.                                                       *)
EveryPacketKept ==
  \A p \in 1..offered :
    \/ outcome[p] # "pending"
    \/ p \in ToSet(queue) \cup PacketsOf(ba.sent)
    \/ cur.kind = "data" /\ cur.item.packet = p

(* A destination is blocked exactly while its agreement is pending.        *)
BlockedWhilePending == NeverTornDown => (blocked <=> ba.state = "pending")

(* Packets are handed up in order, whatever their numbers.                 *)
HandedUpInOrder == \A i, j \in DOMAIN up : i < j => up[i] < up[j]
=============================================================================
