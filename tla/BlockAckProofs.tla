------------------------------ MODULE BlockAckProofs ------------------------------
(***************************************************************************)
(* Theorems about BlockAck, for any packets, numbers, windows, losses and  *)
(* retry limits: the handshake of an agreement, that no packet vanishes    *)
(* and, while the packets take at most half of the numbers, that both      *)
(* windows keep what they promise: what is retried is kept, what is        *)
(* dropped is old, what is reported sent was received.                     *)
(***************************************************************************)
EXTENDS BlockAck, FiniteSetTheorems, SequenceTheorems, WellFoundedInduction, TLAPS

-----------------------------------------------------------------------------
(* Sequences.                                                              *)

(* A nonempty set of numbers has a least element: of a sequence, the       *)
(* induction the library offers for sets instead of operators.             *)
LEMMA Descending ==
  ASSUME NEW R, IsWellFoundedOn(R, Nat), NEW T, T \subseteq Nat, T # {}
  PROVE  \E x \in T : \A y \in T : ~(<<y, x>> \in R)
  BY WFMin

Below(R) == \A x, y \in Nat : (<<x, y>> \in R) <=> (x < y)

LEMMA Least ==
  ASSUME NEW S, S \subseteq Nat, S # {}
  PROVE  Min(S) \in S /\ \A k \in S : Min(S) <= k
<1>1. PICK R : IsWellFoundedOn(R, Nat) /\ Below(R)
  <2>1. Below(OpToRel(<, Nat))
    BY DEF OpToRel, Below
  <2> QED BY <2>1, NatLessThanWellFounded, Zenon
<1>2. \E x \in S : \A y \in S : ~(<<y, x>> \in R)
  BY <1>1, Descending
<1>3. \A x, y \in S : x \in Nat /\ y \in Nat
  OBVIOUS
<1>4. \A x, y \in S : (<<x, y>> \in R) <=> (x < y)
  BY <1>1, <1>3, Zenon DEF Below
<1>5. PICK m \in S : \A y \in S : ~(y < m)
  BY <1>2, <1>4
<1>6. \A y \in S : m <= y
  BY <1>3, <1>5
<1> QED BY <1>6 DEF Min

LEMMA LeastPosition ==
  ASSUME NEW n \in Nat, NEW I, I \subseteq 1..n, I # {}
  PROVE  Min(I) \in I /\ Min(I) \in 1..n /\ \A k \in I : Min(I) <= k
<1>1. I \subseteq Nat
  OBVIOUS
<1> QED BY <1>1, Least

(* A sequence, of whatever elements. *)
Listed(s) == \E S : s \in Seq(S)

LEMMA SelectedListed ==
  ASSUME NEW s, NEW n \in Nat, NEW I, I \subseteq 1..n
  PROVE  Listed(Selected(s, I)) /\ (I = {} => Selected(s, I) = <<>>)
<1>1. IsFiniteSet(I) /\ Cardinality(I) \in Nat
  <2>1. IsFiniteSet(1..n)
    BY FS_Interval
  <2>2. I \in SUBSET (1..n)
    OBVIOUS
  <2>3. IsFiniteSet(I)
    BY <2>1, <2>2, FS_Subset
  <2> QED BY <2>3, FS_CardinalityType
<1>2. PICK k \in Nat : k = Cardinality(I)
  BY <1>1
<1>3. PICK e : Selected(s, I) = [i \in 1..k |-> e[i]]
  <2> DEFINE nth(i) == CHOOSE j \in I : Cardinality({l \in I : l < j}) = i - 1
             e == [i \in 1..k |-> s[nth(i)]]
  <2>1. Selected(s, I) = e
    BY <1>2 DEF Selected
  <2>2. e = [i \in 1..k |-> e[i]]
    OBVIOUS
  <2> HIDE DEF e
  <2> QED BY <2>1, <2>2
<1>4. [i \in 1..k |-> e[i]] \in Seq({e[i] : i \in 1..k})
  OBVIOUS
<1>5. I = {} => k = 0
  BY <1>2, FS_EmptySet
<1>6. k = 0 => Selected(s, I) = <<>>
  BY <1>3
<1> QED BY <1>3, <1>4, <1>5, <1>6 DEF Listed

LEMMA WithoutListed ==
  ASSUME NEW items, Listed(items), NEW S
  PROVE  Listed(Without(items, S)) /\ (items = <<>> => Without(items, S) = <<>>)
<1>1. PICK n \in Nat : n = Len(items) /\ DOMAIN items = 1..n
  BY DEF Listed
<1>2. PICK I : I = {i \in DOMAIN items : items[i].seq \notin S}
  OBVIOUS
<1>3. I \subseteq 1..n /\ (items = <<>> => I = {})
  BY <1>1, <1>2
<1>4. Without(items, S) = Selected(items, I)
  BY <1>2 DEF Without
<1> QED BY <1>3, <1>4, SelectedListed

(* t is s with x before its element n. *)
Insertion(t, s, n, x) == /\ Len(t) = Len(s) + 1 /\ t[n] = x
                         /\ \A i \in 1..(n - 1) : t[i] = s[i]
                         /\ \A i \in n..Len(s) : t[i + 1] = s[i]

LEMMA InsertedIs ==
  ASSUME NEW S, NEW s \in Seq(S), NEW x \in S, NEW n \in 1..Len(s)
  PROVE  InsertAt(s, n, x) \in Seq(S) /\ Insertion(InsertAt(s, n, x), s, n, x)
<1>1. PICK before, after :
         before = SubSeq(s, 1, n - 1) /\ after = SubSeq(s, n, Len(s))
  OBVIOUS
<1>2. /\ before \in Seq(S) /\ Len(before) = n - 1
      /\ \A i \in 1..(n - 1) : before[i] = s[i]
  BY <1>1, SubSeqProperties
<1>3. /\ after \in Seq(S) /\ Len(after) = Len(s) - n + 1
      /\ \A i \in 1..(Len(s) - n + 1) : after[i] = s[n + i - 1]
  BY <1>1, SubSeqProperties
<1>4. PICK head : head = before \o <<x>>
  OBVIOUS
<1>5. /\ head \in Seq(S) /\ Len(head) = n /\ head[n] = x
      /\ \A i \in 1..(n - 1) : head[i] = s[i]
  BY <1>2, <1>4, ConcatProperties
<1>6. PICK all : all = head \o after
  OBVIOUS
<1>7. /\ all \in Seq(S) /\ Len(all) = Len(s) + 1 /\ all[n] = x
      /\ \A i \in 1..(n - 1) : all[i] = s[i]
      /\ \A i \in n..Len(s) : all[i + 1] = s[i]
  <2>1. /\ all \in Seq(S) /\ Len(all) = Len(head) + Len(after)
        /\ \A i \in 1..Len(head) + Len(after) :
             all[i] = IF i <= Len(head) THEN head[i] ELSE after[i - Len(head)]
    BY <1>3, <1>5, <1>6, ConcatProperties
  <2>2. \A i \in n..Len(s) : all[i + 1] = s[i]
    <3> TAKE i \in n..Len(s)
    <3>1. /\ i - n + 1 \in 1..(Len(s) - n + 1) /\ i + 1 \in 1..Len(head) + Len(after)
          /\ ~(i + 1 <= Len(head)) /\ i + 1 - Len(head) = i - n + 1
          /\ n + (i - n + 1) - 1 = i
      BY <1>3, <1>5
    <3>2. after[i - n + 1] = s[i]
      BY <1>3, <3>1
    <3> QED BY <2>1, <3>1, <3>2
  <2> QED BY <1>3, <1>5, <2>1, <2>2
<1>8. InsertAt(s, n, x) = all
  BY <1>1, <1>4, <1>6 DEF InsertAt
<1> QED BY <1>7, <1>8 DEF Insertion

LEMMA Inserted ==
  ASSUME NEW S, NEW s \in Seq(S), NEW x \in S, NEW n \in 1..Len(s)
  PROVE  /\ InsertAt(s, n, x) \in Seq(S)
         /\ \A i \in DOMAIN s : \E j \in DOMAIN InsertAt(s, n, x) : InsertAt(s, n, x)[j] = s[i]
         /\ \E j \in DOMAIN InsertAt(s, n, x) : InsertAt(s, n, x)[j] = x
<1>1. PICK all : all = InsertAt(s, n, x)
  OBVIOUS
<1>2. all \in Seq(S) /\ Insertion(all, s, n, x)
  BY <1>1, InsertedIs
<1>7. /\ all \in Seq(S) /\ Len(all) = Len(s) + 1 /\ all[n] = x
      /\ \A i \in 1..(n - 1) : all[i] = s[i]
      /\ \A i \in n..Len(s) : all[i + 1] = s[i]
  BY <1>2 DEF Insertion
<1>9. DOMAIN s = 1..Len(s) /\ DOMAIN all = 1..(Len(s) + 1)
  BY <1>7
<1>10. \A i \in DOMAIN s : \E j \in DOMAIN all : all[j] = s[i]
  <2> TAKE i \in DOMAIN s
  <2>1. CASE i < n
    BY <1>7, <1>9, <2>1
  <2>2. CASE i >= n
    <3>1. i + 1 \in DOMAIN all /\ all[i + 1] = s[i]
      BY <1>7, <1>9, <2>2
    <3> QED BY <3>1
  <2> QED BY <1>9, <2>1, <2>2
<1> QED BY <1>1, <1>7, <1>9, <1>10

-----------------------------------------------------------------------------
(* The records of both sides, whatever their contents.                     *)

IsBlock(f) == f.kind = "data" /\ f.policy = "block"
Framed(f)  == f.kind = "data" => \E it, policy : f = DataFrame(it, policy)
Records == /\ DOMAIN ba = DOMAIN NoAgreement /\ DOMAIN rx = DOMAIN NoRecord
           /\ Framed(cur) /\ cur.kind # "resp" /\ timeouts \in Nat

(* Nobody begins a teardown while the agreements of both sides match.      *)
NoDelba == /\ delbas = <<>> /\ replies \in Seq({"resp"})
           /\ "delba" \notin {cur.kind, air.kind} /\ rcur.kind \in {"none", "resp"}
(* What the recipient was told or has told implies that it has a record.   *)
Promised == \/ ba.state = "established" \/ replies # <<>> \/ "resp" \in {rcur.kind, air.kind}
            \/ IsBlock(cur) \/ IsBlock(air)
Handshake == /\ NoDelba
             /\ Promised => rx.exists
             /\ ba.state # "established" => ba.sent = <<>> /\ ba.retry = <<>>
             /\ blocked <=> ba.state = "pending"

AgreementInv == Records /\ (NeverTornDown => Handshake)

(* What the originator does with its agreement leaves its state alone.     *)
LEMMA CleanupState ==
  ASSUME NEW a, DOMAIN a = DOMAIN NoAgreement
  PROVE  /\ DOMAIN Cleanup(a) = DOMAIN a /\ Cleanup(a).state = a.state
         /\ a.sent = <<>> => Cleanup(a) = a
  BY DEF Cleanup, NoAgreement

LEMMA PreparedState ==
  ASSUME DOMAIN ba = DOMAIN NoAgreement
  PROVE  /\ DOMAIN Prepared = DOMAIN ba /\ Prepared.state = ba.state
         /\ ba.sent = <<>> /\ ba.retry = <<>> => Prepared = ba
  BY CleanupState DEF Prepared, NoAgreement

LEMMA TransmissionState ==
  ASSUME NEW a, DOMAIN a = DOMAIN NoAgreement, NEW next, NEW rest
  PROVE  /\ DOMAIN NotifyMpduTransmission(a, next, rest) = DOMAIN a
         /\ NotifyMpduTransmission(a, next, rest).state = a.state
  BY DEF NotifyMpduTransmission, NoAgreement

LEMMA BlockAckState ==
  ASSUME NEW a, DOMAIN a = DOMAIN NoAgreement, NEW S, a.state = "established"
  PROVE  /\ DOMAIN NotifyGotBlockAck(a, S) = DOMAIN a
         /\ NotifyGotBlockAck(a, S).state = "established"
  BY DEF NotifyGotBlockAck, SwitchToBlockAck, NoAgreement

(* The handlers of the recipient keep its record.                          *)
LEMMA HandUpKeeps ==
  ASSUME NEW r, "rx" \in DOMAIN r, NEW items
  PROVE  HandUpAll(r, items).rx = r.rx
  BY DEF HandUpAll

Kept(r, q) == DOMAIN q = DOMAIN NoRecord /\ q.exists = r.exists

LEMMA CacheKeeps ==
  ASSUME NEW c, DOMAIN c = DOMAIN NoRecord, NEW s
  PROVE  Kept(c, CacheMpdu(c, s)) /\ Kept(c, CacheBlockAckReq(c, s))
  BY DEF Kept, CacheMpdu, CacheBlockAckReq, NoRecord
LEMMA StoredKeeps ==
  ASSUME DOMAIN rx = DOMAIN NoRecord, NEW item
  PROVE  "rx" \in DOMAIN Stored(item) /\ Kept(rx, Stored(item).rx)
<1>1. /\ DOMAIN StoreMpdu(Recipient, item) = {"rx", "up", "last"}
      /\ Kept(rx, StoreMpdu(Recipient, item).rx)
  BY DEF StoreMpdu, Recipient, Kept, NoRecord
<1>2. Kept(StoreMpdu(Recipient, item).rx, CacheMpdu(StoreMpdu(Recipient, item).rx, item.seq))
  BY <1>1, CacheKeeps DEF Kept
<1> QED BY <1>1, <1>2 DEF Stored, Kept

LEMMA CompleteKeeps ==
  ASSUME NEW r, "rx" \in DOMAIN r, DOMAIN r.rx = DOMAIN NoRecord, NEW s
  PROVE  /\ Kept(r.rx, RxCompleteSmaller(r, s).rx) /\ "rx" \in DOMAIN RxCompleteSmaller(r, s)
         /\ Kept(r.rx, RxCompleteUntilLost(r).rx)
<1>1. ASSUME NEW q, "rx" \in DOMAIN q, NEW items
      PROVE  HandUpAll(q, items).rx = q.rx /\ "rx" \in DOMAIN HandUpAll(q, items)
  BY <1>1 DEF HandUpAll
<1>2. Kept(r.rx, RxCompleteSmaller(r, s).rx) /\ "rx" \in DOMAIN RxCompleteSmaller(r, s)
  BY <1>1, ZenonT(60) DEF RxCompleteSmaller, Kept, NoRecord
<1>3. Kept(r.rx, RxCompleteUntilLost(r).rx)
  <2>1. PICK n, items :
           RxCompleteUntilLost(r) =
             HandUpAll([r EXCEPT !.rx.buffer = SubSeq(@, n + 1, Len(@)), !.rx.start = Plus(@, n)], items)
    BY Zenon DEF RxCompleteUntilLost
  <2> DEFINE q == [r EXCEPT !.rx.buffer = SubSeq(@, n + 1, Len(@)), !.rx.start = Plus(@, n)]
  <2>2. "rx" \in DOMAIN q /\ Kept(r.rx, q.rx)
    BY DEF Kept, NoRecord
  <2> QED BY <1>1, <2>1, <2>2, ZenonT(60)
<1> QED BY <1>2, <1>3

-----------------------------------------------------------------------------
(* The steps.                                                              *)

LEMMA Kinds ==
  /\ NoFrame.kind = "none" /\ \A k : Management(k).kind = k
  /\ \A s : BarFrame(s).kind = "bar" /\ AddBa(s).kind = "addba"
  /\ \A item, policy : DataFrame(item, policy).kind = "data" /\ DataFrame(item, policy).policy = policy
  BY DEF NoFrame, Management, BarFrame, AddBa, DataFrame

LEMMA Items == \A item, policy : DataFrame(item, policy).item = item
  BY DEF DataFrame

LEMMA FramesFramed ==
  /\ Framed(NoFrame) /\ \A k : k # "data" => Framed(Management(k))
  /\ \A s : Framed(BarFrame(s)) /\ Framed(AddBa(s))
  /\ \A item, policy : Framed(DataFrame(item, policy))
  BY Kinds DEF Framed

(* A step after which both sides know no more than before. *)
LEMMA NothingNew ==
  ASSUME AgreementInv, UNCHANGED <<delbas, blocked, timeouts>>,
         DOMAIN ba' = DOMAIN ba, ba'.state = ba.state,
         ba.state = "established" \/ (ba'.sent = ba.sent /\ ba'.retry = ba.retry),
         Kept(rx, rx'), Framed(cur)',
         replies' = replies \/ (replies' = Tail(replies) /\ replies # <<>>),
         cur'.kind \notin {"delba", "resp"} \/ cur'.kind = cur.kind,
         rcur'.kind \in {"none", rcur.kind},
         air'.kind \notin {"delba", "resp"} \/ air' = air \/ air' = cur,
         IsBlock(cur)' => IsBlock(cur) \/ IsBlock(air) \/ ba.state = "established",
         IsBlock(air)' => IsBlock(air) \/ IsBlock(cur) \/ ba.state = "established"
  PROVE  AgreementInv'
<1>1. Records'
  BY DEF AgreementInv, Records, Kept
<1> SUFFICES ASSUME NeverTornDown' PROVE Handshake'
  BY <1>1 DEF AgreementInv
<1>2. Handshake
  BY DEF AgreementInv, NeverTornDown
<1>3. replies' \in Seq({"resp"}) /\ (replies' # <<>> => replies # <<>>)
  BY <1>2 DEF Handshake, NoDelba
<1>4. NoDelba'
  BY <1>2, <1>3 DEF Handshake, NoDelba
<1>5. Promised' => Promised
  BY <1>2, <1>3 DEF Handshake, NoDelba, Promised, AgreementInv, Records
<1> QED BY <1>2, <1>4, <1>5 DEF Handshake, Kept
LEMMA QueueSteps ==
  ASSUME AgreementInv, Queue \/ Expire \/ Lose \/ Resend \/ SendBlockAckRequest \/ EndTxNoAck
  PROVE  AgreementInv'
<1>1. UNCHANGED <<delbas, blocked, timeouts, replies, rcur, rx>>
  BY DEF Queue, Expire, Lose, Resend, SendBlockAckRequest, EndTxNoAck, receiver, sender, NothingElseSent
<1>2. Kept(rx, rx')
  BY <1>1 DEF Kept, AgreementInv, Records
<1>3. CASE Queue \/ Expire \/ Lose \/ Resend \/ EndTxNoAck
  <2>1. /\ ba' = ba /\ Framed(cur)' /\ (cur' = cur \/ cur' = NoFrame)
        /\ air' = air \/ air' = NoFrame \/ air' = cur
    BY <1>3, FramesFramed DEF Queue, Expire, Lose, Resend, Transmit, EndTxNoAck, sender, medium,
                              AgreementInv, Records
  <2>2. (IsBlock(cur)' => IsBlock(cur)) /\ (IsBlock(air)' => IsBlock(air) \/ IsBlock(cur))
    BY <2>1, Kinds DEF IsBlock
  <2>3. /\ cur'.kind \notin {"delba", "resp"} \/ cur'.kind = cur.kind
        /\ air'.kind \notin {"delba", "resp"} \/ air' = air \/ air' = cur
    BY <2>1, Kinds
  <2> QED BY <1>1, <1>2, <2>1, <2>2, <2>3, NothingNew
<1>4. CASE SendBlockAckRequest
  <2>1. PICK s : air' = BarFrame(s) /\ cur' = BarFrame(s)
    BY <1>4 DEF SendBlockAckRequest, Transmit
  <2>2. Framed(cur)'
    BY <2>1, FramesFramed DEF Framed
  <2>3. DOMAIN ba' = DOMAIN ba /\ ba'.state = ba.state /\ ba'.sent = ba.sent /\ ba'.retry = ba.retry
    BY <1>4 DEF SendBlockAckRequest, AgreementInv, Records, NoAgreement
  <2>4. ~IsBlock(cur)' /\ ~IsBlock(air)'
    BY <2>1, Kinds DEF IsBlock
  <2>5. cur'.kind \notin {"delba", "resp"} /\ air'.kind \notin {"delba", "resp"}
    BY <2>1, Kinds
  <2> QED BY <1>1, <1>2, <2>2, <2>3, <2>4, <2>5, NothingNew
<1> QED BY <1>3, <1>4
(* Only an agreement that is established has retries and sends data under  *)
(* it; the others the preparation leaves as they are.                      *)
LEMMA PreparedSteps ==
  ASSUME AgreementInv
  PROVE  /\ DOMAIN Prepared = DOMAIN NoAgreement /\ Prepared.state = ba.state
         /\ NeverTornDown /\ ba.state # "established" => Prepared = ba /\ ba.sent = <<>> /\ ba.retry = <<>>
  BY PreparedState DEF AgreementInv, Records, Handshake

LEMMA SendSteps ==
  ASSUME AgreementInv, SendRetry \/ SendFirst \/ SendNothing
  PROVE  AgreementInv'
<1>1. /\ UNCHANGED <<delbas, blocked, timeouts, replies, rcur, rx>> /\ Kept(rx, rx')
  BY DEF SendRetry, SendFirst, SendNothing, receiver, NothingElseSent, Kept, AgreementInv, Records
<1>2. DOMAIN ba' = DOMAIN ba /\ ba'.state = ba.state
  <2>1. CASE SendNothing
    BY <2>1, PreparedSteps DEF SendNothing, AgreementInv, Records
  <2>2. CASE SendRetry
    <3>1. PICK a, next, rest :
             /\ ba' = NotifyMpduTransmission(a, next, rest)
             /\ \E start : a = [Prepared EXCEPT !.retry = Tail(@), !.start = start]
      BY <2>2, Zenon DEF SendRetry
    <3>2. DOMAIN a = DOMAIN NoAgreement /\ a.state = ba.state
      BY <3>1, PreparedSteps DEF NoAgreement
    <3>3. /\ DOMAIN NotifyMpduTransmission(a, next, rest) = DOMAIN NoAgreement
          /\ NotifyMpduTransmission(a, next, rest).state = ba.state
      BY <3>2, TransmissionState
    <3> QED BY <3>1, <3>3 DEF AgreementInv, Records
  <2>3. CASE SendFirst
    <3>1. PICK item, next, rest :
             \/ ba' = NotifyMpduTransmission(StorePacket(Prepared, item), next, rest)
             \/ ba' = Prepared
      BY <2>3 DEF SendFirst
    <3>2. DOMAIN StorePacket(Prepared, item) = DOMAIN NoAgreement /\ StorePacket(Prepared, item).state = ba.state
      BY PreparedSteps DEF StorePacket, NoAgreement
    <3>3. PICK a : a = StorePacket(Prepared, item)
      OBVIOUS
    <3>4. /\ DOMAIN NotifyMpduTransmission(a, next, rest) = DOMAIN NoAgreement
          /\ NotifyMpduTransmission(a, next, rest).state = ba.state
      BY <3>2, <3>3, TransmissionState
    <3> QED BY <3>1, <3>3, <3>4, PreparedSteps DEF AgreementInv, Records
  <2> QED BY <2>1, <2>2, <2>3
<1>3. cur' = cur \/ \E item : \/ cur' = DataFrame(item, "normal")
                              \/ cur' = DataFrame(item, "block")
  BY DEF SendRetry, SendFirst, SendNothing, Transmit
<1>4. air' = air \/ air' = cur'
  BY DEF SendRetry, SendFirst, SendNothing, Transmit, medium
<1>5. Framed(cur)' /\ (cur'.kind \notin {"delba", "resp"} \/ cur' = cur)
  BY <1>3, Kinds, FramesFramed DEF AgreementInv, Records, Framed
<1>6. Records'
  BY <1>1, <1>2, <1>5 DEF AgreementInv, Records, Kept
<1> SUFFICES ASSUME NeverTornDown PROVE AgreementInv'
  BY <1>1, <1>6 DEF AgreementInv, NeverTornDown
<1>7. CASE ba.state # "established"
  <2>1. Prepared = ba /\ ba.retry = <<>>
    BY <1>7, PreparedSteps
  <2>2. ba' = ba
    BY <1>7, <2>1 DEF SendRetry, SendFirst, SendNothing
  <2>3. cur' = cur \/ \E item : cur' = DataFrame(item, "normal")
    BY <1>7, <2>1 DEF SendRetry, SendFirst, SendNothing, Transmit
  <2>4. IsBlock(cur)' => IsBlock(cur)
    BY <2>3, Kinds DEF IsBlock
  <2>5. IsBlock(air)' => IsBlock(air) \/ IsBlock(cur)
    BY <1>4, <2>4 DEF IsBlock
  <2>6. air'.kind \notin {"delba", "resp"} \/ air' = air \/ air' = cur
    BY <1>4, <1>5
  <2> QED BY <1>1, <1>5, <2>2, <2>4, <2>5, <2>6, NothingNew
<1>8. CASE ba.state = "established"
  <2>1. air'.kind \notin {"delba", "resp"} \/ air' = air \/ air' = cur
    BY <1>4, <1>5
  <2> QED BY <1>1, <1>2, <1>5, <1>8, <2>1, NothingNew
<1> QED BY <1>7, <1>8

(* No DELBA is in the way, and a request makes the agreement pending and   *)
(* blocks its destination.                                                 *)
LEMMA SetupSteps ==
  ASSUME AgreementInv, SendDelba \/ SetupBlockAck
  PROVE  AgreementInv'
<1>1. CASE SendDelba
  <2>1. DOMAIN ba' = DOMAIN NoAgreement /\ UNCHANGED <<rx, timeouts>> /\ delbas # <<>> /\ cur' = Management("delba")
    BY <1>1, PreparedSteps DEF SendDelba, Transmit, NothingElseSent, receiver
  <2>2. ~NeverTornDown' /\ Records'
    BY <2>1, FramesFramed, Kinds DEF AgreementInv, Handshake, NoDelba, NeverTornDown, Records, Framed
  <2> QED BY <2>2 DEF AgreementInv
<1>2. CASE SetupBlockAck
  <2>1. /\ UNCHANGED <<rx, timeouts, replies, rcur, delbas>> /\ blocked' = TRUE
        /\ ba' = [NoAgreement EXCEPT !.state = "pending", !.start = nextSeq]
        /\ cur' = AddBa(nextSeq) /\ air' = AddBa(nextSeq)
    BY <1>2 DEF SetupBlockAck, Transmit, NothingElseSent, receiver
  <2>2. DOMAIN ba' = DOMAIN NoAgreement /\ ba'.state = "pending" /\ ba'.sent = <<>> /\ ba'.retry = <<>>
    BY <2>1 DEF NoAgreement
  <2>3. cur'.kind = "addba" /\ air'.kind = "addba" /\ Framed(cur)'
    BY <2>1, Kinds DEF Framed
  <2>4. Records'
    BY <2>1, <2>2, <2>3 DEF AgreementInv, Records
  <2>5. NeverTornDown => Handshake'
    BY <2>1, <2>2, <2>3 DEF AgreementInv, Handshake, NoDelba, Promised, IsBlock
  <2> QED BY <2>1, <2>4, <2>5 DEF AgreementInv, NeverTornDown
<1> QED BY <1>1, <1>2

LEMMA ReplySteps ==
  ASSUME AgreementInv, SendReply
  PROVE  AgreementInv'
<1>1. /\ UNCHANGED <<ba, rx, cur, delbas, blocked, timeouts>> /\ air' = rcur'
      /\ \/ rcur' = rcur /\ replies' = replies
         \/ replies # <<>> /\ rcur' = Management(Head(replies)) /\ replies' = Tail(replies)
  BY DEF SendReply, sender
<1>2. Records'
  BY <1>1 DEF AgreementInv, Records, Framed
<1>3. ASSUME NeverTornDown PROVE Handshake'
  <2>1. Handshake
    BY <1>3 DEF AgreementInv
  <2>2. CASE rcur' = rcur /\ replies' = replies
    BY <1>1, <2>1, <2>2 DEF Handshake, NoDelba, Promised, IsBlock, AgreementInv, Records
  <2>3. CASE replies # <<>> /\ rcur' = Management(Head(replies)) /\ replies' = Tail(replies)
    <3>1. Head(replies) = "resp" /\ replies' \in Seq({"resp"}) /\ rx.exists
      BY <2>1, <2>3 DEF Handshake, NoDelba, Promised
    <3>2. rcur'.kind = "resp" /\ air'.kind = "resp"
      BY <1>1, <2>3, <3>1, Kinds
    <3> QED BY <1>1, <2>1, <3>1, <3>2 DEF Handshake, NoDelba
  <2> QED BY <1>1, <2>2, <2>3
<1> QED BY <1>1, <1>2, <1>3 DEF AgreementInv, NeverTornDown
(* Data and requests for a block ack leave the record in place. *)
LEMMA DataReceived ==
  ASSUME DOMAIN rx = DOMAIN NoRecord, ReceiveUnderBlockAck \/ ReceiveUnderNormalAck \/ ReceiveBlockAckReq
  PROVE  Kept(rx, rx')
<1>1. CASE rx' = rx
  BY <1>1 DEF Kept
<1>2. CASE ReceiveUnderBlockAck
  BY <1>1, <1>2, StoredKeeps DEF ReceiveUnderBlockAck, Becomes
<1>3. CASE ReceiveUnderNormalAck
  <2>1. CASE ~rx.exists
    <3>1. PICK item : rx' = HandUpAll(Recipient, <<item>>).rx
      BY <1>3, <2>1 DEF ReceiveUnderNormalAck, Becomes
    <3>2. rx' = rx
      BY <3>1 DEF HandUpAll, Recipient
    <3> QED BY <1>1, <3>2
  <2>2. CASE rx.exists
    <3>1. PICK item, start : rx' = RxCompleteUntilLost(RxCompleteSmaller(Stored(item), start)).rx
      BY <1>3, <2>2 DEF ReceiveUnderNormalAck, Becomes
    <3>2. PICK r : r = Stored(item)
      OBVIOUS
    <3>3. "rx" \in DOMAIN r /\ Kept(rx, r.rx)
      BY <3>2, StoredKeeps
    <3>4. PICK q : q = RxCompleteSmaller(r, start)
      OBVIOUS
    <3>5. "rx" \in DOMAIN q /\ Kept(r.rx, q.rx)
      BY <3>3, <3>4, CompleteKeeps DEF Kept
    <3>6. Kept(q.rx, RxCompleteUntilLost(q).rx)
      BY <3>5, CompleteKeeps DEF Kept
    <3> QED BY <3>1, <3>2, <3>3, <3>4, <3>5, <3>6 DEF Kept
  <2> QED BY <2>1, <2>2
<1>4. CASE ReceiveBlockAckReq
  <2>1. CASE ~rx.exists
    BY <1>1, <1>4, <2>1 DEF ReceiveBlockAckReq
  <2>2. CASE rx.exists
    <3>1. PICK r, start :
             /\ r = [Recipient EXCEPT !.rx = CacheBlockAckReq(@, start)]
             /\ rx' = RxCompleteUntilLost(RxCompleteSmaller(r, start)).rx
      BY <1>4, <2>2 DEF ReceiveBlockAckReq, Becomes
    <3>2. "rx" \in DOMAIN r /\ r.rx = CacheBlockAckReq(rx, start)
      BY <3>1 DEF Recipient
    <3>3. Kept(rx, CacheBlockAckReq(rx, start))
      BY CacheKeeps
    <3>4. PICK q : q = RxCompleteSmaller(r, start)
      OBVIOUS
    <3>5. "rx" \in DOMAIN q /\ Kept(r.rx, q.rx)
      BY <3>2, <3>3, <3>4, CompleteKeeps DEF Kept
    <3>6. Kept(q.rx, RxCompleteUntilLost(q).rx)
      BY <3>3, <3>2, <3>5, CompleteKeeps DEF Kept
    <3> QED BY <3>1, <3>2, <3>3, <3>4, <3>5, <3>6 DEF Kept
  <2> QED BY <2>1, <2>2
<1> QED BY <1>2, <1>3, <1>4

LEMMA DataSteps ==
  ASSUME AgreementInv, ReceiveUnderBlockAck \/ ReceiveUnderNormalAck \/ ReceiveBlockAckReq
  PROVE  AgreementInv'
<1>1. UNCHANGED <<ba, cur, delbas, blocked, rcur, timeouts>>
  BY DEF ReceiveUnderBlockAck, ReceiveUnderNormalAck, ReceiveBlockAckReq, NothingElseReceived, sender
<1>2. Kept(rx, rx')
  BY DataReceived DEF AgreementInv, Records
<1>3. Records'
  BY <1>1, <1>2 DEF AgreementInv, Records, Framed, Kept
<1>4. air'.kind \in {"none", "ack", "ba"}
  BY Kinds DEF ReceiveUnderBlockAck, ReceiveUnderNormalAck, ReceiveBlockAckReq
<1>5. ASSUME NeverTornDown PROVE UNCHANGED replies
  <2>1. ReceiveUnderBlockAck => rx.exists
    BY <1>5 DEF AgreementInv, Handshake, Promised, IsBlock, ReceiveUnderBlockAck
  <2> QED BY <2>1 DEF ReceiveUnderBlockAck, ReceiveUnderNormalAck, ReceiveBlockAckReq
<1>6. ASSUME NeverTornDown PROVE Handshake'
  BY <1>1, <1>2, <1>4, <1>5, <1>6 DEF AgreementInv, Handshake, NoDelba, Promised, IsBlock, Kept
<1> QED BY <1>1, <1>3, <1>6 DEF AgreementInv, NeverTornDown

LEMMA DestroyKeeps == ASSUME DOMAIN rx = DOMAIN NoRecord, Becomes(Destroy(Recipient)) PROVE DOMAIN rx' = DOMAIN NoRecord
<1>1. CASE ~rx.exists
  BY <1>1 DEF Becomes, Destroy, Recipient
<1>2. CASE rx.exists
  <2>1. PICK r : rx' = [r EXCEPT !.rx = NoRecord].rx /\ r = RxCompleteUntilLost(RxCompleteSmaller(Recipient, rx.start))
    BY <1>2 DEF Becomes, Destroy, Recipient
  <2>2. "rx" \in DOMAIN r
    <3>1. PICK q : q = RxCompleteSmaller(Recipient, rx.start)
      OBVIOUS
    <3>2. "rx" \in DOMAIN q
      BY <3>1, CompleteKeeps DEF Recipient
    <3>3. PICK n, items :
             RxCompleteUntilLost(q) =
               HandUpAll([q EXCEPT !.rx.buffer = SubSeq(@, n + 1, Len(@)), !.rx.start = Plus(@, n)], items)
      BY Zenon DEF RxCompleteUntilLost
    <3>4. \A all : "rx" \in DOMAIN all => "rx" \in DOMAIN HandUpAll(all, items)
      BY DEF HandUpAll
    <3>5. PICK all : /\ all = [q EXCEPT !.rx.buffer = SubSeq(@, n + 1, Len(@)), !.rx.start = Plus(@, n)]
                     /\ RxCompleteUntilLost(q) = HandUpAll(all, items)
      BY <3>3
    <3>6. "rx" \in DOMAIN all
      BY <3>2, <3>5
    <3> QED BY <2>1, <3>1, <3>4, <3>5, <3>6, Zenon
  <2> QED BY <2>1, <2>2
<1> QED BY <1>1, <1>2
(* A request makes the record, and its response, which follows the record, *)
(* establishes the agreement and unblocks the destination.                 *)
LEMMA HandshakeSteps ==
  ASSUME AgreementInv, ReceiveAddBaRequest \/ ReceiveAddBaResponse
  PROVE  AgreementInv'
<1>1. CASE ReceiveAddBaRequest
  <2>1. UNCHANGED <<ba, cur, delbas, blocked, rcur, timeouts>> /\ air'.kind = "ack"
    BY <1>1, Kinds DEF ReceiveAddBaRequest, NothingElseReceived, sender
  <2>2. /\ DOMAIN rx' = DOMAIN NoRecord /\ (rx.exists => rx'.exists)
        /\ (replies' = replies \/ (replies' = <<"resp">> \o replies /\ rx'.exists))
    BY <1>1 DEF ReceiveAddBaRequest, AgreementInv, Records, NoRecord
  <2>3. Records'
    BY <2>1, <2>2 DEF AgreementInv, Records, Framed
  <2>4. ASSUME NeverTornDown PROVE Handshake'
    <3>1. Handshake
      BY <2>4 DEF AgreementInv
    <3>2. replies' \in Seq({"resp"}) /\ (replies' # replies => rx'.exists)
      <4>1. replies \in Seq({"resp"})
        BY <3>1 DEF Handshake, NoDelba
      <4>2. <<"resp">> \o replies \in Seq({"resp"})
        BY <4>1
      <4> QED BY <2>2, <4>1, <4>2
    <3> QED BY <2>1, <2>2, <3>1, <3>2 DEF Handshake, NoDelba, Promised, IsBlock
  <2> QED BY <2>1, <2>3, <2>4 DEF AgreementInv, NeverTornDown
<1>2. CASE ReceiveAddBaResponse
  <2>1. UNCHANGED <<cur, delbas, rx, replies, rcur, timeouts>> /\ air'.kind = "ack" /\ air.kind = "resp"
    BY <1>2, Kinds DEF ReceiveAddBaResponse, NothingElseTold, receiver
  <2>2. \/ UNCHANGED <<ba, blocked>>
        \/ /\ DOMAIN ba' = DOMAIN ba /\ ba'.state = "established" /\ blocked' = FALSE
    BY <1>2 DEF ReceiveAddBaResponse, Established, AgreementInv, Records, NoAgreement
  <2>3. Records'
    BY <2>1, <2>2 DEF AgreementInv, Records, Framed
  <2>4. ASSUME NeverTornDown PROVE Handshake'
    BY <2>1, <2>2, <2>4 DEF AgreementInv, Handshake, NoDelba, Promised, IsBlock
  <2> QED BY <2>1, <2>3, <2>4 DEF AgreementInv, NeverTornDown
<1> QED BY <1>1, <1>2

(* A teardown needs a DELBA. *)
LEMMA TearDownSteps ==
  ASSUME AgreementInv, ReceiveDelBa \/ GotDelBaFrame
                       \/ (GotAck /\ cur.kind = "delba") \/ (ReplyGotAck /\ rcur.kind = "delba")
  PROVE  AgreementInv'
<1>1. ~NeverTornDown
  BY DEF AgreementInv, Handshake, NoDelba, ReceiveDelBa, GotDelBaFrame
<1>2. timeouts' = timeouts /\ (cur' = cur \/ cur' = NoFrame)
  BY DEF ReceiveDelBa, GotDelBaFrame, GotAck, ReplyGotAck, NothingElseReceived, NothingElseTold, sender
<1>3. DOMAIN ba' = DOMAIN NoAgreement
  BY DEF ReceiveDelBa, GotDelBaFrame, GotAck, ReplyGotAck, TearDownBlockAck, NothingElseReceived, sender,
         AgreementInv, Records
<1>4. DOMAIN rx' = DOMAIN NoRecord
  <2>1. rx' = rx \/ Becomes(Destroy(Recipient))
    BY DEF ReceiveDelBa, GotDelBaFrame, GotAck, ReplyGotAck, receiver
  <2> QED BY <2>1, DestroyKeeps DEF AgreementInv, Records
<1>5. Framed(cur)' /\ cur'.kind # "resp"
  BY <1>2, FramesFramed, Kinds DEF AgreementInv, Records, Framed
<1> QED BY <1>1, <1>2, <1>3, <1>4, <1>5 DEF AgreementInv, Records, NeverTornDown

LEMMA AnswerSteps ==
  ASSUME AgreementInv, \/ GotBlockAck
                       \/ (GotAck /\ cur.kind # "delba") \/ (ReplyGotAck /\ rcur.kind # "delba")
  PROVE  AgreementInv'
<1>1. /\ UNCHANGED <<delbas, blocked, timeouts, rx, replies>> /\ Kept(rx, rx') /\ air' = NoFrame
      /\ cur' = cur \/ cur' = NoFrame
      /\ rcur' = rcur \/ rcur' = NoFrame
  BY DEF GotBlockAck, GotAck, ReplyGotAck, Answered, NothingElseTold, receiver, sender, Kept, AgreementInv, Records
<1>2. /\ DOMAIN ba' = DOMAIN ba /\ ba'.state = ba.state
      /\ ba.state = "established" \/ (ba'.sent = ba.sent /\ ba'.retry = ba.retry)
  <2>1. CASE ba' = ba
    BY <2>1
  <2>2. CASE ba.state = "established" /\ \E S : ba' = NotifyGotBlockAck(ba, S)
    BY <2>2, BlockAckState DEF AgreementInv, Records
  <2> QED BY <2>1, <2>2 DEF GotBlockAck, GotAck, ReplyGotAck, sender
<1>3. /\ Framed(cur)'
      /\ cur'.kind \notin {"delba", "resp"} \/ cur'.kind = cur.kind
      /\ rcur'.kind \in {"none", rcur.kind} /\ air'.kind = "none"
      /\ (IsBlock(cur)' => IsBlock(cur)) /\ ~IsBlock(air)'
  BY <1>1, FramesFramed, Kinds DEF AgreementInv, Records, Framed, IsBlock
<1> QED BY <1>1, <1>2, <1>3, NothingNew

LEMMA TimeoutSteps ==
  ASSUME AgreementInv, MissedAck \/ ReplyMissedAck \/ MissedBlockAck
  PROVE  AgreementInv'
<1>1. /\ UNCHANGED <<delbas, blocked, timeouts, rx, replies, air>> /\ Kept(rx, rx')
      /\ rcur' = rcur \/ rcur' = NoFrame
  BY DEF MissedAck, ReplyMissedAck, MissedBlockAck, TimedOut, receiver, sender, Kept, AgreementInv, Records
<1>2. /\ DOMAIN ba' = DOMAIN ba /\ ba'.state = ba.state
      /\ NeverTornDown => ba.state = "established" \/ (ba'.sent = ba.sent /\ ba'.retry = ba.retry)
  <2>1. CASE ba' = ba
    BY <2>1
  <2>2. CASE ba' = Cleanup(ba)
    BY <2>2, CleanupState DEF AgreementInv, Records, Handshake
  <2> QED BY <2>1, <2>2 DEF MissedAck, ReplyMissedAck, MissedBlockAck, sender
<1>3. cur' = cur \/ cur' = NoFrame \/ (cur.kind = "data" /\ cur' = [cur EXCEPT !.item.retry = TRUE])
  BY DEF MissedAck, ReplyMissedAck, MissedBlockAck, sender
<1>4. Framed(cur)' /\ (cur'.kind = "none" \/ cur'.kind = cur.kind) /\ (IsBlock(cur)' => IsBlock(cur))
  <2>1. CASE cur' = cur \/ cur' = NoFrame
    BY <2>1, FramesFramed, Kinds DEF AgreementInv, Records, Framed, IsBlock
  <2>2. CASE cur.kind = "data" /\ cur' = [cur EXCEPT !.item.retry = TRUE]
    <3>1. PICK item, policy : cur = DataFrame(item, policy)
      BY <2>2 DEF AgreementInv, Records, Framed
    <3>2. cur' = DataFrame([item EXCEPT !.retry = TRUE], policy)
      BY <2>2, <3>1 DEF DataFrame
    <3> QED BY <3>1, <3>2, Kinds, FramesFramed DEF IsBlock
  <2> QED BY <1>3, <2>1, <2>2
<1>5. rcur'.kind \in {"none", rcur.kind}
  BY <1>1, Kinds
<1>6. Records'
  BY <1>1, <1>2, <1>4 DEF AgreementInv, Records, Kept
<1>7. ASSUME NeverTornDown PROVE AgreementInv'
  BY <1>1, <1>2, <1>4, <1>5, <1>7, NothingNew
<1> QED BY <1>1, <1>6, <1>7 DEF AgreementInv, NeverTornDown

LEMMA AgreementStep == AgreementInv /\ [Next]_vars => AgreementInv'
<1> SUFFICES ASSUME AgreementInv, [Next]_vars PROVE AgreementInv'
  OBVIOUS
<1>1. CASE UNCHANGED vars
  BY <1>1 DEF vars, sender, receiver, medium, AgreementInv, Records, Framed, Handshake, NoDelba, Promised,
              IsBlock, NeverTornDown
<1>2. CASE Originate
  BY <1>2, QueueSteps, SendSteps, SetupSteps DEF Originate
<1>3. CASE Receive
  BY <1>3, DataSteps, HandshakeSteps, TearDownSteps, AnswerSteps DEF Receive
<1>4. CASE Timeout
  BY <1>4, TimeoutSteps DEF Timeout
<1>5. CASE \E side \in {"originator", "recipient"} : InactivityTimeout(side)
  <2>1. UNCHANGED <<ba, rx, cur>> /\ timeouts' = timeouts + 1
    BY <1>5 DEF InactivityTimeout
  <2>2. Records' /\ ~NeverTornDown'
    BY <2>1 DEF AgreementInv, Records, Framed, NeverTornDown
  <2> QED BY <2>2 DEF AgreementInv
<1> QED BY <1>1, <1>2, <1>3, <1>4, <1>5, QueueSteps, ReplySteps DEF Next

LEMMA InitAgreement == Init => AgreementInv
  BY FramesFramed, Kinds DEF Init, AgreementInv, Records, Handshake, NoDelba, Promised, IsBlock, NoAgreement

(* While no inactivity timer expired, a destination is blocked exactly     *)
(* while its agreement is pending: no lost, repeated or late response of   *)
(* the handshake leaves it blocked with an agreement that is established,  *)
(* and no data is sent under an agreement the recipient does not have,     *)
(* whose DELBA would tear the agreement down.                              *)
THEOREM BlockedIsPending == Spec => []BlockedWhilePending
<1>1. AgreementInv => BlockedWhilePending
  BY DEF AgreementInv, Handshake, BlockedWhilePending
<1> QED BY <1>1, InitAgreement, AgreementStep, PTL DEF Spec

-----------------------------------------------------------------------------
(* Packets.                                                                *)

IsNormal(f) == f.kind = "data" /\ f.policy = "normal"

(* What MacLow waits for fits the frame in service. *)
Serving ==
  /\ cur.kind # "ba" /\ rcur.kind \notin {"bar", "ba"} /\ replies \in Seq({"resp", "delba"})
  /\ low = "noack" => ~IsNormal(cur)
  /\ low = "blockack" => cur.kind = "bar"
  /\ air.kind \in {"bar", "ba"} => low = "blockack"
  /\ IsNormal(cur) => "packet" \in DOMAIN cur.item

Containers ==
  /\ Listed(queue) /\ Listed(ba.sent)
  /\ ba.state # "established" => ba.sent = <<>> /\ ba.retry = <<>>
  /\ offered \in 0..Cardinality(Packet) /\ DOMAIN outcome = Packet

(* Where a packet is until it is reported. *)
Placed(p) == \/ p \in ToSet(queue) \cup PacketsOf(ba.sent)
             \/ IsNormal(cur) /\ cur.item.packet = p

PacketInv == /\ AgreementInv /\ Serving /\ Containers
             /\ \A p \in 1..offered : outcome[p] # "pending" \/ Placed(p)

LEMMA Offers == Containers => 1..offered \subseteq Packet /\ offered \in Nat /\ Cardinality(Packet) \in Nat
  BY BlockAckAssumption, FS_CardinalityType DEF Containers

(* The originator's packets stay listed, whatever is taken out. *)
LEMMA CleanupListed ==
  ASSUME NEW a, DOMAIN a = DOMAIN NoAgreement, Listed(a.sent)
  PROVE  Listed(Cleanup(a).sent)
<1>1. CASE a.sent = <<>>
  BY <1>1 DEF Cleanup
<1>2. CASE a.sent # <<>>
  <2>1. PICK n : /\ n = PrefixLen(a.sent, LAMBDA it : it.packet > expired)
                 /\ Cleanup(a).sent = IF n = Len(a.sent) THEN a.sent ELSE SubSeq(a.sent, n + 1, Len(a.sent))
    BY <1>2 DEF Cleanup, NoAgreement
  <2>2. Len(a.sent) \in Nat
    BY DEF Listed
  <2>3. n \in 0..Len(a.sent)
    <3>1. PICK I : /\ I = {i \in 1..Len(a.sent) : a.sent[i].packet > expired}
                   /\ n = LET m == IF I # {} THEN Min(I) ELSE 0 IN IF m = 0 THEN Len(a.sent) ELSE m - 1
      BY <2>1 DEF PrefixLen, SelectInSeq
    <3>2. I # {} => Min(I) \in 1..Len(a.sent)
      BY <2>2, <3>1, LeastPosition
    <3> QED BY <2>2, <3>1, <3>2
  <2>4. Listed(SubSeq(a.sent, n + 1, Len(a.sent)))
    BY <2>2, <2>3 DEF Listed
  <2> QED BY <2>1, <2>4
<1> QED BY <1>1, <1>2

LEMMA PreparedListed ==
  ASSUME PacketInv
  PROVE  /\ Listed(Prepared.sent)
         /\ ba.state # "established" => Prepared = ba
<1>1. DOMAIN ba = DOMAIN NoAgreement /\ Listed(ba.sent)
  BY DEF PacketInv, AgreementInv, Records, Containers
<1>2. PICK c : c = Cleanup(ba) /\ DOMAIN c = DOMAIN NoAgreement /\ Listed(c.sent)
  BY <1>1, CleanupState, CleanupListed
<1>3. \A S : Listed(Without(c.sent, S))
  BY <1>2, WithoutListed
<1>4. Prepared.sent = c.sent \/ \E S : Prepared.sent = Without(c.sent, S)
  BY <1>2 DEF Prepared, NoAgreement
<1>5. ba.state # "established" => Prepared = ba
  BY <1>1, PreparedState DEF PacketInv, Containers
<1> QED BY <1>2, <1>3, <1>4, <1>5

LEMMA StoredListed ==
  ASSUME NEW a, DOMAIN a = DOMAIN NoAgreement, Listed(a.sent), NEW item
  PROVE  /\ Listed(StorePacket(a, item).sent)
         /\ PacketsOf(a.sent) \cup {item.packet} \subseteq PacketsOf(StorePacket(a, item).sent)
<1>1. PICK S : a.sent \in Seq(S) /\ item \in S
  <2>1. PICK T : a.sent \in Seq(T)
    BY DEF Listed
  <2>2. a.sent \in Seq(T \cup {item})
    BY <2>1, SeqMonotonic
  <2> QED BY <2>2
<1>2. PICK s, n : /\ s = a.sent /\ n \in 0..Len(s)
                  /\ StorePacket(a, item).sent = IF n = 0 THEN Append(s, item) ELSE InsertAt(s, n, item)
  <2>1. Len(a.sent) \in Nat
    BY <1>1
  <2>2. PICK I : I = {i \in 1..Len(a.sent) : IsOld(a.sent[i].seq, item.seq)}
    OBVIOUS
  <2>3. PICK n : n = IF I # {} THEN Min(I) ELSE 0
    OBVIOUS
  <2>4. StorePacket(a, item).sent = IF n = 0 THEN Append(a.sent, item) ELSE InsertAt(a.sent, n, item)
    BY <2>2, <2>3 DEF StorePacket, InsertBefore, SelectInSeq, NoAgreement
  <2>5. I # {} => Min(I) \in 1..Len(a.sent)
    BY <2>1, <2>2, LeastPosition
  <2>6. n \in 0..Len(a.sent)
    BY <2>1, <2>3, <2>5
  <2> QED BY <2>4, <2>6
<1>3. PICK t : /\ t = StorePacket(a, item).sent /\ t \in Seq(S)
               /\ \A i \in DOMAIN s : \E j \in DOMAIN t : t[j] = s[i]
               /\ \E j \in DOMAIN t : t[j] = item
  <2>1. CASE n = 0
    <3>1. PICK t : t = Append(s, item)
      OBVIOUS
    <3>2. /\ t \in Seq(S) /\ DOMAIN t = 1..(Len(s) + 1) /\ DOMAIN s = 1..Len(s) /\ Len(s) \in Nat
          /\ t[Len(s) + 1] = item /\ \A i \in 1..Len(s) : t[i] = s[i]
      BY <1>1, <1>2, <3>1
    <3>3. /\ \A i \in DOMAIN s : i \in DOMAIN t /\ t[i] = s[i]
          /\ Len(s) + 1 \in DOMAIN t
      BY <3>2
    <3> QED BY <1>2, <2>1, <3>1, <3>2, <3>3
  <2>2. CASE n # 0
    <3>1. n \in 1..Len(s) /\ s \in Seq(S)
      BY <1>1, <1>2, <2>2
    <3> QED BY <1>1, <1>2, <2>2, <3>1, Inserted, SMTT(30)
  <2> QED BY <2>1, <2>2
<1> QED BY <1>2, <1>3, SMTT(30) DEF Listed, PacketsOf

LEMMA Reports ==
  ASSUME NEW P, NEW what, what # "pending"
  PROVE  /\ DOMAIN Report(P, what) = Packet
         /\ \A p \in Packet : /\ outcome[p] # "pending" => Report(P, what)[p] # "pending"
                              /\ p \in P => Report(P, what)[p] # "pending"
  BY DEF Report

(* A packet that leaves its place is reported. *)
LEMMA Accounted ==
  ASSUME PacketInv, AgreementInv', Serving', Containers', offered' = offered,
         \A p \in Packet : outcome[p] # "pending" => outcome'[p] # "pending",
         \A p \in Packet : Placed(p) => outcome'[p] # "pending" \/ Placed(p)'
  PROVE  PacketInv'
<1>1. \A p \in 1..offered : outcome'[p] # "pending" \/ Placed(p)'
  BY Offers DEF PacketInv
<1> QED BY <1>1 DEF PacketInv

(* Packets that leave the agreement are reported, and nothing else moves. *)
LEMMA Released ==
  ASSUME PacketInv, UNCHANGED <<offered, queue>>, IsNormal(cur) => cur' = cur,
         NEW what, what # "pending", NEW b, outcome' = Report(Gone(ba, b), what),
         PacketsOf(b.sent) \subseteq PacketsOf(ba'.sent)
  PROVE  /\ DOMAIN outcome' = Packet
         /\ \A p \in Packet : outcome[p] # "pending" => outcome'[p] # "pending"
         /\ \A p \in Packet : Placed(p) => outcome'[p] # "pending" \/ Placed(p)'
<1>1. /\ DOMAIN outcome' = Packet
      /\ \A p \in Packet : /\ outcome[p] # "pending" => outcome'[p] # "pending"
                           /\ p \in Gone(ba, b) => outcome'[p] # "pending"
  BY Reports
<1>2. ASSUME NEW p \in Packet, Placed(p), outcome'[p] = "pending" PROVE Placed(p)'
  <2>1. p \notin Gone(ba, b)
    BY <1>1, <1>2
  <2>2. p \in PacketsOf(ba.sent) => p \in PacketsOf(ba'.sent)
    BY <2>1 DEF Gone
  <2> QED BY <1>2, <2>2 DEF Placed
<1> QED BY <1>1, <1>2

LEMMA ArrivalSteps ==
  ASSUME PacketInv, AgreementInv', Queue \/ Expire \/ Lose
  PROVE  PacketInv'
<1>1. UNCHANGED <<cur, rcur, replies, low, ba>> /\ (air' = air \/ air' = NoFrame)
  BY DEF Queue, Expire, Lose, receiver, medium, sender
<1>2. Serving'
  BY <1>1, Kinds DEF PacketInv, Serving, IsNormal
<1>3. PICK S : queue \in Seq(S)
  BY DEF PacketInv, Containers, Listed
<1>4. CASE Queue
  <2>1. queue' = Append(queue, offered + 1) /\ outcome' = outcome /\ offered' = offered + 1 /\ offered < Cardinality(Packet)
    BY <1>4 DEF Queue
  <2>2. /\ queue' \in Seq(S \cup {offered + 1}) /\ offered + 1 \in ToSet(queue') /\ ToSet(queue) \subseteq ToSet(queue')
    <3>1. queue \in Seq(S \cup {offered + 1})
      BY <1>3, SeqMonotonic
    <3>2. /\ queue' \in Seq(S \cup {offered + 1}) /\ Len(queue') = Len(queue) + 1 /\ Len(queue) \in Nat
          /\ queue'[Len(queue) + 1] = offered + 1 /\ \A i \in 1..Len(queue) : queue'[i] = queue[i]
      BY <2>1, <3>1
    <3>3. DOMAIN queue = 1..Len(queue) /\ DOMAIN queue' = 1..(Len(queue) + 1)
      BY <3>1, <3>2
    <3> QED BY <3>2, <3>3 DEF ToSet
  <2>3. Containers'
    <3>1. Listed(queue') /\ offered' \in 0..Cardinality(Packet)
      BY <2>1, <2>2, Offers DEF Listed, PacketInv, Containers
    <3> QED BY <1>1, <2>1, <3>1 DEF PacketInv, Containers
  <2>4. ASSUME NEW p \in 1..offered' PROVE outcome'[p] # "pending" \/ Placed(p)'
    <3>1. p \in 1..offered \/ p = offered + 1
      BY <2>1, Offers DEF PacketInv
    <3> QED BY <1>1, <2>1, <2>2, <3>1 DEF PacketInv, Placed
  <2> QED BY <1>2, <2>3, <2>4 DEF PacketInv
<1>5. CASE Expire
  <2>1. offered' = offered
    BY <1>5 DEF Expire
  <2>2. CASE UNCHANGED <<queue, outcome>>
    <3>1. Containers' /\ \A p : Placed(p) => Placed(p)'
      BY <1>1, <2>1, <2>2 DEF PacketInv, Containers, Placed
    <3> QED BY <1>2, <2>1, <2>2, <3>1, Accounted
  <2>3. CASE queue # <<>> /\ queue' = Tail(queue) /\ outcome' = Report({Head(queue)}, "gone")
    <3>1. queue' \in Seq(S) /\ \A p \in ToSet(queue) : p = Head(queue) \/ p \in ToSet(queue')
      <4>1. /\ queue' \in Seq(S) /\ Len(queue) \in Nat \ {0} /\ Len(queue') = Len(queue) - 1
            /\ DOMAIN queue = 1..Len(queue) /\ DOMAIN queue' = 1..(Len(queue) - 1)
            /\ Head(queue) = queue[1] /\ \A i \in 1..(Len(queue) - 1) : queue'[i] = queue[i + 1]
        BY <1>3, <2>3
      <4>2. ASSUME NEW i \in DOMAIN queue, i # 1 PROVE i - 1 \in DOMAIN queue' /\ queue'[i - 1] = queue[i]
        BY <4>1, <4>2
      <4> QED BY <4>1, <4>2 DEF ToSet
    <3>2. /\ DOMAIN outcome' = Packet
          /\ \A p \in Packet : /\ outcome[p] # "pending" => outcome'[p] # "pending"
                               /\ p = Head(queue) => outcome'[p] # "pending"
      BY <2>3, Reports
    <3>3. Containers'
      BY <1>1, <2>1, <3>1, <3>2 DEF PacketInv, Containers, Listed
    <3>4. \A p \in Packet : Placed(p) => outcome'[p] # "pending" \/ Placed(p)'
      BY <1>1, <3>1, <3>2 DEF Placed
    <3> QED BY <1>2, <2>1, <3>2, <3>3, <3>4, Accounted
  <2> QED BY <1>5, <2>2, <2>3 DEF Expire
<1>6. CASE Lose
  <2>1. UNCHANGED <<offered, queue, outcome>>
    BY <1>6 DEF Lose, sender
  <2>2. Containers' /\ \A p : Placed(p) => Placed(p)'
    BY <1>1, <2>1 DEF PacketInv, Containers, Placed
  <2> QED BY <1>2, <2>1, <2>2, Accounted
<1> QED BY <1>4, <1>5, <1>6

(* A frame that goes into the air again, or without a packet. *)
LEMMA FrameSteps ==
  ASSUME PacketInv, AgreementInv', Resend \/ SendBlockAckRequest \/ EndTxNoAck \/ SendReply
  PROVE  PacketInv'
<1>1. UNCHANGED <<offered, queue, outcome>> /\ ba'.sent = ba.sent /\ ba'.state = ba.state /\ ba'.retry = ba.retry
  BY DEF Resend, SendBlockAckRequest, EndTxNoAck, SendReply, NothingElseSent, sender, PacketInv, AgreementInv, Records, NoAgreement
<1>2. Containers'
  BY <1>1 DEF PacketInv, Containers
<1>3. Serving' /\ (IsNormal(cur) => cur' = cur)
  <2>1. CASE Resend
    <3>1. /\ UNCHANGED <<rcur, replies, cur>> /\ air' = cur
          /\ low' = IF cur.kind = "bar" THEN "blockack" ELSE "ack"
      BY <2>1 DEF Resend, Transmit, NothingElseSent, receiver
    <3> QED BY <3>1 DEF PacketInv, Serving, IsNormal
  <2>2. CASE SendBlockAckRequest
    <3>1. /\ UNCHANGED <<rcur, replies>> /\ cur = NoFrame /\ cur'.kind = "bar" /\ air'.kind = "bar" /\ low' = "blockack"
      BY <2>2, Kinds DEF SendBlockAckRequest, Transmit, NothingElseSent, receiver
    <3> QED BY <3>1, Kinds DEF PacketInv, Serving, IsNormal
  <2>3. CASE EndTxNoAck
    <3>1. UNCHANGED <<rcur, replies, air>> /\ low = "noack" /\ low' = "idle" /\ cur' = NoFrame
      BY <2>3 DEF EndTxNoAck, receiver
    <3> QED BY <3>1, Kinds DEF PacketInv, Serving, IsNormal
  <2>4. CASE SendReply
    <3>1. cur' = cur /\ low' = "rack" /\ air' = rcur'
      BY <2>4 DEF SendReply, sender
    <3>2. rcur'.kind \notin {"bar", "ba"} /\ replies' \in Seq({"resp", "delba"})
      <4>1. CASE UNCHANGED <<replies, rcur>>
        BY <4>1 DEF PacketInv, Serving
      <4>2. CASE replies # <<>> /\ rcur' = Management(Head(replies)) /\ replies' = Tail(replies)
        <5>1. Head(replies) \in {"resp", "delba"} /\ replies' \in Seq({"resp", "delba"})
          BY <4>2 DEF PacketInv, Serving
        <5>2. rcur'.kind = Head(replies)
          BY <4>2, Kinds
        <5> QED BY <5>1, <5>2
      <4> QED BY <2>4, <4>1, <4>2 DEF SendReply
    <3> QED BY <3>1, <3>2 DEF PacketInv, Serving, IsNormal
  <2> QED BY <2>1, <2>2, <2>3, <2>4
<1>4. \A p : Placed(p) => Placed(p)'
  BY <1>1, <1>3 DEF Placed
<1> QED BY <1>1, <1>2, <1>3, <1>4, Accounted

(* The originator takes what it prepared out of its agreement. *)
LEMMA PreparedSend ==
  ASSUME PacketInv, AgreementInv', SendRetry \/ SendDelba \/ SendNothing
  PROVE  PacketInv'
<1>1. /\ UNCHANGED <<offered, queue, rcur, replies>> /\ outcome' = Report(Gone(ba, Prepared), "gone")
      /\ cur = NoFrame /\ (ba'.retry = Prepared.retry \/ Prepared.retry # <<>>)
  BY DEF SendRetry, SendDelba, SendNothing, NothingElseSent, receiver, HasNoRetry, HasNoBar
<1>2. DOMAIN Prepared = DOMAIN NoAgreement /\ Prepared.state = ba.state
  BY PreparedSteps DEF PacketInv
<1>3. ba'.sent = Prepared.sent /\ ba'.state = ba.state
  <2>1. CASE SendRetry
    <3>1. PICK a, next, rest :
             /\ ba' = NotifyMpduTransmission(a, next, rest)
             /\ \E start : a = [Prepared EXCEPT !.retry = Tail(@), !.start = start]
      BY <2>1, Zenon DEF SendRetry
    <3>2. DOMAIN a = DOMAIN NoAgreement /\ a.sent = Prepared.sent /\ a.state = ba.state
      BY <1>2, <3>1 DEF NoAgreement
    <3> QED BY <3>1, <3>2 DEF NotifyMpduTransmission, NoAgreement
  <2> QED BY <1>2, <2>1 DEF SendDelba, SendNothing
<1>4. ba.state # "established" => ba'.sent = <<>> /\ ba'.retry = <<>>
  <2> SUFFICES ASSUME ba.state # "established" PROVE ba'.sent = <<>> /\ ba'.retry = <<>>
    OBVIOUS
  <2>1. Prepared = ba /\ ba.sent = <<>> /\ ba.retry = <<>>
    BY PreparedListed DEF PacketInv, Containers
  <2> QED BY <1>1, <1>3, <2>1
<1>5. /\ DOMAIN outcome' = Packet
      /\ \A p \in Packet : outcome[p] # "pending" => outcome'[p] # "pending"
      /\ \A p \in Packet : Placed(p) => outcome'[p] # "pending" \/ Placed(p)'
  BY <1>1, <1>3, Kinds, Released DEF IsNormal
<1>6. Containers'
  BY <1>1, <1>3, <1>4, <1>5, PreparedListed DEF PacketInv, Containers
<1>7. Serving'
  <2>1. CASE SendRetry
    <3>1. PICK item : cur' = DataFrame(item, "block") /\ air' = DataFrame(item, "block") /\ low' = "noack"
      BY <2>1 DEF SendRetry, Transmit
    <3> QED BY <1>1, <3>1, Kinds DEF PacketInv, Serving, IsNormal
  <2>2. CASE SendDelba
    BY <1>1, <2>2, Kinds DEF SendDelba, Transmit, PacketInv, Serving, IsNormal
  <2>3. CASE SendNothing
    BY <1>1, <2>3 DEF SendNothing, medium, PacketInv, Serving, IsNormal
  <2> QED BY <2>1, <2>2, <2>3
<1> QED BY <1>1, <1>5, <1>6, <1>7, Accounted

(* The next packet goes from the queue into service or the agreement; a    *)
(* request for an agreement replaces one that is empty.                    *)
LEMMA FirstSend ==
  ASSUME PacketInv, AgreementInv', SetupBlockAck \/ SendFirst
  PROVE  PacketInv'
<1>1. CASE SetupBlockAck
  <2>1. /\ UNCHANGED <<offered, queue, outcome, rcur, replies>> /\ cur = NoFrame
        /\ cur'.kind = "addba" /\ air'.kind = "addba" /\ low' = "ack"
        /\ ba.state = "none" /\ ba' = [NoAgreement EXCEPT !.state = "pending", !.start = nextSeq]
    BY <1>1, Kinds DEF SetupBlockAck, NeedSetup, HasData, HasNoRetry, HasNoBar, Transmit, NothingElseSent, receiver
  <2>2. ba.sent = <<>> /\ ba'.sent = <<>> /\ ba'.retry = <<>>
    BY <2>1 DEF PacketInv, Containers, NoAgreement
  <2>3. Serving' /\ Containers' /\ \A p : Placed(p) => Placed(p)'
    BY <2>1, <2>2, Kinds DEF PacketInv, Serving, Containers, IsNormal, Placed
  <2> QED BY <2>1, <2>3, Accounted
<1>2. CASE SendFirst
  <2>1. PICK item : /\ item = [packet |-> Head(queue), seq |-> nextSeq, retry |-> FALSE]
                    /\ \/ /\ ba.state = "established" /\ low' = "noack"
                          /\ air' = DataFrame(item, "block") /\ cur' = DataFrame(item, "block")
                          /\ \E next, rest : ba' = NotifyMpduTransmission(StorePacket(Prepared, item), next, rest)
                       \/ /\ ba.state # "established" /\ low' = "ack"
                          /\ air' = DataFrame(item, "normal") /\ cur' = DataFrame(item, "normal")
                          /\ ba' = Prepared
    BY <1>2 DEF SendFirst, Transmit
  <2>2. /\ UNCHANGED <<offered, rcur, replies>> /\ queue # <<>> /\ queue' = Tail(queue) /\ cur = NoFrame
        /\ outcome' = Report(Gone(ba, Prepared), "gone")
    BY <1>2 DEF SendFirst, HasData, HasNoRetry, HasNoBar, NothingElseSent, receiver
  <2>3. Listed(queue') /\ \A p \in ToSet(queue) : p = item.packet \/ p \in ToSet(queue')
    <3>1. PICK S : queue \in Seq(S)
      BY DEF PacketInv, Containers, Listed
    <3>2. /\ queue' \in Seq(S) /\ Len(queue) \in Nat \ {0} /\ Len(queue') = Len(queue) - 1
          /\ DOMAIN queue = 1..Len(queue) /\ DOMAIN queue' = 1..(Len(queue) - 1)
          /\ item.packet = queue[1] /\ \A i \in 1..(Len(queue) - 1) : queue'[i] = queue[i + 1]
      BY <2>1, <2>2, <3>1
    <3>3. ASSUME NEW i \in DOMAIN queue, i # 1 PROVE i - 1 \in DOMAIN queue' /\ queue'[i - 1] = queue[i]
      BY <3>2, <3>3
    <3> QED BY <3>2, <3>3 DEF ToSet, Listed
  <2>4. /\ DOMAIN Prepared = DOMAIN NoAgreement /\ Prepared.state = ba.state /\ Listed(Prepared.sent)
        /\ ba.state # "established" => Prepared = ba
    BY PreparedSteps, PreparedListed DEF PacketInv
  <2>5. /\ Listed(ba'.sent) /\ ba'.state = ba.state /\ PacketsOf(Prepared.sent) \subseteq PacketsOf(ba'.sent)
        /\ item.packet \in PacketsOf(ba'.sent) \/ (IsNormal(cur) /\ cur.item.packet = item.packet)'
    <3>1. CASE ba.state = "established"
      <4> DEFINE stored == StorePacket(Prepared, item)
      <4>0. DOMAIN stored = DOMAIN NoAgreement /\ stored.state = ba.state
        BY <2>4 DEF StorePacket, NoAgreement
      <4>1. PICK a : a = StorePacket(Prepared, item) /\ DOMAIN a = DOMAIN NoAgreement /\ a.state = ba.state
        BY <4>0
      <4>2. Listed(a.sent) /\ PacketsOf(Prepared.sent) \cup {item.packet} \subseteq PacketsOf(a.sent)
        BY <2>4, <4>1, StoredListed
      <4>3. PICK next, rest : ba' = NotifyMpduTransmission(a, next, rest)
        BY <2>1, <3>1, <4>1
      <4>4. ba'.sent = a.sent /\ ba'.state = a.state
        BY <4>1, <4>3 DEF NotifyMpduTransmission, NoAgreement
      <4> QED BY <4>1, <4>2, <4>4
    <3>2. CASE ba.state # "established"
      <4>1. cur'.kind = "data" /\ cur'.policy = "normal" /\ cur'.item = item
        BY <2>1, <3>2, Kinds, Items
      <4> QED BY <2>1, <2>4, <3>2, <4>1 DEF IsNormal
    <3> QED BY <3>1, <3>2
  <2>6. Serving'
    <3>1. /\ cur'.kind = "data" /\ air'.kind = "data" /\ cur'.item = item
          /\ low' = "noack" => cur'.policy = "block"
          /\ low' # "blockack"
      BY <2>1, Kinds, Items
    <3>2. "packet" \in DOMAIN item
      BY <2>1
    <3> QED BY <2>2, <3>1, <3>2 DEF PacketInv, Serving, IsNormal
  <2>7. /\ DOMAIN outcome' = Packet
        /\ \A p \in Packet : /\ outcome[p] # "pending" => outcome'[p] # "pending"
                             /\ p \in Gone(ba, Prepared) => outcome'[p] # "pending"
    BY <2>2, Reports
  <2>8. ASSUME NEW p \in Packet, Placed(p) PROVE outcome'[p] # "pending" \/ Placed(p)'
    <3>1. CASE p \in ToSet(queue)
      BY <2>3, <2>5, <3>1 DEF Placed
    <3>2. CASE p \in PacketsOf(ba.sent)
      BY <2>5, <2>7, <3>2 DEF Placed, Gone
    <3> QED BY <2>2, <2>8, <3>1, <3>2, Kinds DEF Placed, IsNormal
  <2>9. Containers'
    <3>1. ba.state # "established" => ba'.sent = <<>> /\ ba'.retry = <<>>
      BY <2>1, <2>4 DEF PacketInv, Containers
    <3> QED BY <2>2, <2>3, <2>5, <2>7, <3>1 DEF PacketInv, Containers
  <2> QED BY <2>2, <2>6, <2>7, <2>8, <2>9, Accounted
<1> QED BY <1>1, <1>2

(* What the recipient receives is no concern of the originator. *)
LEMMA RecipientSteps ==
  ASSUME PacketInv, AgreementInv',
         \/ ReceiveUnderBlockAck \/ ReceiveUnderNormalAck \/ ReceiveBlockAckReq
         \/ ReceiveAddBaRequest \/ ReceiveDelBa \/ ReplyGotAck \/ ReplyMissedAck
         \/ \E side \in {"originator", "recipient"} : InactivityTimeout(side)
  PROVE  PacketInv'
<1>1. UNCHANGED <<offered, queue, outcome, ba, cur>>
  BY DEF ReceiveUnderBlockAck, ReceiveUnderNormalAck, ReceiveBlockAckReq, ReceiveAddBaRequest, ReceiveDelBa,
         ReplyGotAck, ReplyMissedAck, InactivityTimeout, NothingElseReceived, sender
<1>2. rcur'.kind \notin {"bar", "ba"}
  <2>1. rcur' = rcur \/ rcur' = NoFrame
    BY DEF ReceiveUnderBlockAck, ReceiveUnderNormalAck, ReceiveBlockAckReq, ReceiveAddBaRequest, ReceiveDelBa,
           ReplyGotAck, ReplyMissedAck, InactivityTimeout
  <2> QED BY <2>1, Kinds DEF PacketInv, Serving
<1>3. replies' \in Seq({"resp", "delba"})
  <2>1. replies' = replies \/ replies' = <<"resp">> \o replies \/ replies' = <<"delba">> \o replies
    BY DEF ReceiveUnderBlockAck, ReceiveUnderNormalAck, ReceiveBlockAckReq, ReceiveAddBaRequest, ReceiveDelBa,
           ReplyGotAck, ReplyMissedAck, InactivityTimeout
  <2>2. <<"resp">> \in Seq({"resp", "delba"}) /\ <<"delba">> \in Seq({"resp", "delba"})
    OBVIOUS
  <2>3. replies \in Seq({"resp", "delba"})
    BY DEF PacketInv, Serving
  <2> QED BY <2>1, <2>2, <2>3, ConcatProperties
<1>4. /\ low' = low \/ low' = "idle"
      /\ air'.kind \in {"bar", "ba"} => low' = "blockack"
  <2>1. CASE ReceiveBlockAckReq
    <3>1. low = "blockack" /\ low' = low
      BY <2>1 DEF PacketInv, Serving, ReceiveBlockAckReq, NothingElseReceived
    <3> QED BY <3>1
  <2>2. CASE InactivityTimeout("originator") \/ InactivityTimeout("recipient")
    BY <2>2 DEF InactivityTimeout, medium, PacketInv, Serving
  <2>3. CASE \/ ReceiveUnderBlockAck \/ ReceiveUnderNormalAck \/ ReceiveAddBaRequest \/ ReceiveDelBa
             \/ ReplyGotAck \/ ReplyMissedAck
    <3>1. (low' = low \/ low' = "idle") /\ (air' = NoFrame \/ air' = Management("ack"))
      BY <2>3 DEF ReceiveUnderBlockAck, ReceiveUnderNormalAck, ReceiveAddBaRequest, ReceiveDelBa, ReplyGotAck,
                  ReplyMissedAck, TimedOut, Answered, NothingElseReceived
    <3> QED BY <3>1, Kinds
  <2> QED BY <2>1, <2>2, <2>3
<1>5. Serving' /\ Containers' /\ \A p : Placed(p) => Placed(p)'
  BY <1>1, <1>2, <1>3, <1>4 DEF PacketInv, Serving, Containers, Placed, IsNormal
<1> QED BY <1>1, <1>5, Accounted

LEMMA TearDown ==
  ASSUME PacketInv, TearDownBlockAck, UNCHANGED <<offered, queue>>, IsNormal(cur) => cur' = cur
  PROVE  /\ Containers' /\ \A p \in Packet : outcome[p] # "pending" => outcome'[p] # "pending"
         /\ \A p \in Packet : Placed(p) => outcome'[p] # "pending" \/ Placed(p)'
<1>1. ba' = NoAgreement /\ ba'.sent = <<>> /\ ba'.retry = <<>> /\ Gone(ba, ba') = PacketsOf(ba.sent)
  BY DEF TearDownBlockAck, NoAgreement, Gone, PacketsOf
<1>2. PICK b : b = ba' /\ outcome' = Report(Gone(ba, b), "gone")
  BY <1>1 DEF TearDownBlockAck
<1>3. /\ DOMAIN outcome' = Packet
      /\ \A p \in Packet : outcome[p] # "pending" => outcome'[p] # "pending"
      /\ \A p \in Packet : Placed(p) => outcome'[p] # "pending" \/ Placed(p)'
  <2>1. PacketsOf(b.sent) \subseteq PacketsOf(ba'.sent) /\ "gone" # "pending"
    BY <1>2
  <2> QED BY <1>2, <2>1, Released
<1>4. Listed(ba'.sent)
  BY <1>1 DEF Listed
<1> QED BY <1>1, <1>3, <1>4 DEF PacketInv, Containers

(* Answers and their absence: a packet in service is reported, or stays. *)
LEMMA OriginatorSteps ==
  ASSUME PacketInv, AgreementInv',
         ReceiveAddBaResponse \/ GotDelBaFrame \/ GotBlockAck \/ GotAck \/ MissedAck \/ MissedBlockAck
  PROVE  PacketInv'
<1>1. UNCHANGED <<offered, queue, replies, rcur>>
  BY DEF ReceiveAddBaResponse, GotDelBaFrame, GotBlockAck, GotAck, MissedAck, MissedBlockAck, NothingElseTold, receiver
<1>2. /\ low' = low \/ low' = "idle"
      /\ air'.kind \notin {"bar", "ba"}
  <2>1. air' = NoFrame \/ air' = Management("ack")
    BY DEF ReceiveAddBaResponse, GotDelBaFrame, GotBlockAck, GotAck, MissedAck, MissedBlockAck, Answered, TimedOut
  <2>2. low' = low \/ low' = "idle"
    BY DEF ReceiveAddBaResponse, GotDelBaFrame, GotBlockAck, GotAck, MissedAck, MissedBlockAck, Answered, TimedOut
  <2> QED BY <2>1, <2>2, Kinds
<1>3. ASSUME cur' = cur \/ cur' = NoFrame PROVE Serving'
  <2>1. cur' = NoFrame => low' # "blockack"
    BY <1>1, <1>3, Kinds DEF ReceiveAddBaResponse, GotDelBaFrame, GotBlockAck, GotAck, MissedAck, MissedBlockAck,
          Answered, TimedOut, PacketInv, Serving
  <2>2. CASE cur' = cur
    BY <1>1, <1>2, <2>2 DEF PacketInv, Serving, IsNormal
  <2>3. CASE cur' = NoFrame
    BY <1>1, <1>2, <2>1, <2>3, Kinds DEF PacketInv, Serving, IsNormal
  <2> QED BY <1>3, <2>2, <2>3
<1>4. CASE ReceiveAddBaResponse
  <2>1. UNCHANGED <<cur, outcome>> /\ ba'.sent = ba.sent /\ ba'.retry = ba.retry
        /\ (ba'.state = ba.state \/ ba'.state = "established")
    BY <1>4 DEF ReceiveAddBaResponse, Established, PacketInv, AgreementInv, Records, NoAgreement
  <2>2. Containers' /\ \A p : Placed(p) => Placed(p)'
    BY <1>1, <2>1 DEF PacketInv, Containers, Placed
  <2> QED BY <1>1, <1>3, <2>1, <2>2, Accounted
<1>5. CASE GotDelBaFrame
  <2>1. cur' = cur
    BY <1>5 DEF GotDelBaFrame
  <2>2. CASE UNCHANGED <<ba, outcome>>
    <3>1. Containers' /\ \A p : Placed(p) => Placed(p)'
      BY <1>1, <2>1, <2>2 DEF PacketInv, Containers, Placed
    <3> QED BY <1>1, <1>3, <2>1, <2>2, <3>1, Accounted
  <2>3. CASE TearDownBlockAck
    BY <1>1, <1>3, <2>1, <2>3, TearDown, Accounted
  <2> QED BY <1>5, <2>2, <2>3 DEF GotDelBaFrame
<1>6. CASE GotBlockAck
  <2>1. cur' = NoFrame /\ ~IsNormal(cur)
    BY <1>6 DEF GotBlockAck, PacketInv, Serving, IsNormal
  <2>2. CASE UNCHANGED <<ba, outcome>>
    <3>1. Containers' /\ \A p : Placed(p) => Placed(p)'
      BY <1>1, <2>1, <2>2 DEF PacketInv, Containers, Placed
    <3> QED BY <1>1, <1>3, <2>1, <2>2, <3>1, Accounted
  <2>3. CASE /\ ba.state = "established" /\ ba' = NotifyGotBlockAck(ba, air.acked)
             /\ outcome' = Report(Gone(ba, ba'), "ok")
    <3>1. ba'.state = "established" /\ ba'.sent = Without(ba.sent, air.acked)
      <4>1. DOMAIN ba = DOMAIN NoAgreement
        BY DEF PacketInv, AgreementInv, Records
      <4>2. PICK acked : acked = air.acked
        OBVIOUS
      <4>3. NotifyGotBlockAck(ba, acked).state = "established"
        BY <2>3, <4>1, BlockAckState
      <4>4. NotifyGotBlockAck(ba, acked).sent = Without(ba.sent, acked)
        BY <4>1 DEF NotifyGotBlockAck, SwitchToBlockAck, NoAgreement
      <4> QED BY <2>3, <4>2, <4>3, <4>4
    <3>2. Listed(ba'.sent)
      <4>1. \A S : Listed(Without(ba.sent, S))
        BY WithoutListed DEF PacketInv, Containers
      <4> QED BY <3>1, <4>1
    <3>3. PICK b : b = ba' /\ outcome' = Report(Gone(ba, b), "ok")
      BY <2>3
    <3>4. PacketsOf(b.sent) \subseteq PacketsOf(ba'.sent)
      BY <3>3
    <3>5. /\ DOMAIN outcome' = Packet
          /\ \A p \in Packet : outcome[p] # "pending" => outcome'[p] # "pending"
          /\ \A p \in Packet : Placed(p) => outcome'[p] # "pending" \/ Placed(p)'
      BY <1>1, <2>1, <3>3, <3>4, Released
    <3>6. Containers'
      BY <1>1, <3>1, <3>2, <3>5 DEF PacketInv, Containers
    <3> QED BY <1>1, <1>3, <2>1, <3>5, <3>6, Accounted
  <2> QED BY <1>6, <2>2, <2>3 DEF GotBlockAck
<1>7. CASE GotAck
  <2>1. CASE cur.kind = "delba"
    BY <1>1, <1>3, <1>7, <2>1, TearDown, Accounted DEF GotAck, IsNormal
  <2>2. CASE cur.kind # "delba"
    <3>1. cur' = NoFrame /\ ba' = ba /\ outcome' = IF cur.kind = "data" THEN Report({cur.item.packet}, "ok") ELSE outcome
      BY <1>7, <2>2 DEF GotAck
    <3>2. /\ DOMAIN outcome' = Packet
          /\ \A p \in Packet : /\ outcome[p] # "pending" => outcome'[p] # "pending"
                               /\ IsNormal(cur) /\ p = cur.item.packet => outcome'[p] # "pending"
      BY <3>1, Reports DEF PacketInv, Containers, IsNormal
    <3>3. Containers' /\ \A p \in Packet : Placed(p) => outcome'[p] # "pending" \/ Placed(p)'
      BY <1>1, <3>1, <3>2 DEF PacketInv, Containers, Placed
    <3> QED BY <1>1, <1>3, <3>1, <3>2, <3>3, Accounted
  <2> QED BY <2>1, <2>2
<1>8. CASE MissedAck
  <2>1. ba' = ba
    BY <1>8 DEF MissedAck
  <2>2. CASE outcome' = outcome /\ cur' = IF cur.kind = "data" THEN [cur EXCEPT !.item.retry = TRUE] ELSE cur
    <3>1. Serving' /\ (IsNormal(cur) => IsNormal(cur)' /\ cur'.item.packet = cur.item.packet)
      <4>1. CASE cur.kind # "data"
        BY <1>3, <2>2, <4>1 DEF IsNormal
      <4>2. CASE cur.kind = "data"
        <5>1. PICK item, policy : cur = DataFrame(item, policy)
          BY <4>2 DEF PacketInv, AgreementInv, Records, Framed
        <5>2. PICK again : again = [item EXCEPT !.retry = TRUE]
          OBVIOUS
        <5>3. cur' = DataFrame(again, policy)
          BY <2>2, <4>2, <5>1, <5>2 DEF DataFrame
        <5>4. /\ cur.kind = "data" /\ cur.policy = policy /\ cur.item = item
              /\ cur'.kind = "data" /\ cur'.policy = policy /\ cur'.item = again
          BY <5>1, <5>3, Kinds, Items
        <5>5. /\ DOMAIN again = DOMAIN item
              /\ "packet" \in DOMAIN item => again.packet = item.packet
          BY <5>2
        <5>6. low' = "idle"
          BY <1>8 DEF MissedAck, TimedOut
        <5> QED BY <1>1, <1>2, <5>4, <5>5, <5>6 DEF PacketInv, Serving, IsNormal
      <4> QED BY <4>1, <4>2
    <3>2. Containers' /\ \A p : Placed(p) => Placed(p)'
      BY <1>1, <2>1, <2>2, <3>1 DEF PacketInv, Containers, Placed
    <3> QED BY <1>1, <2>2, <3>1, <3>2, Accounted
  <2>3. CASE /\ cur' = NoFrame
             /\ outcome' = IF cur.kind = "data" THEN Report({cur.item.packet}, "failed") ELSE outcome
    <3>1. /\ DOMAIN outcome' = Packet
          /\ \A p \in Packet : /\ outcome[p] # "pending" => outcome'[p] # "pending"
                               /\ IsNormal(cur) /\ p = cur.item.packet => outcome'[p] # "pending"
      BY <2>3, Reports DEF PacketInv, Containers, IsNormal
    <3>2. Containers' /\ \A p \in Packet : Placed(p) => outcome'[p] # "pending" \/ Placed(p)'
      BY <1>1, <2>1, <3>1 DEF PacketInv, Containers, Placed
    <3> QED BY <1>1, <1>3, <2>3, <3>1, <3>2, Accounted
  <2> QED BY <1>8, <2>2, <2>3 DEF MissedAck
<1>9. CASE MissedBlockAck
  <2>1. ~IsNormal(cur) /\ (cur' = cur \/ cur' = NoFrame)
    BY <1>9 DEF MissedBlockAck, TimedOut, PacketInv, Serving, IsNormal
  <2>2. PICK b : b = ba' /\ b = Cleanup(ba) /\ outcome' = Report(Gone(ba, b), "gone")
    BY <1>9 DEF MissedBlockAck
  <2>3. /\ DOMAIN outcome' = Packet
        /\ \A p \in Packet : outcome[p] # "pending" => outcome'[p] # "pending"
        /\ \A p \in Packet : Placed(p) => outcome'[p] # "pending" \/ Placed(p)'
    <3>1. PacketsOf(b.sent) \subseteq PacketsOf(ba'.sent)
      BY <2>2
    <3> QED BY <1>1, <2>1, <2>2, <3>1, Released
  <2>4. /\ Listed(b.sent) /\ b.state = ba.state
        /\ ba.state # "established" => b = ba
    BY <2>2, CleanupListed, CleanupState DEF PacketInv, Containers, AgreementInv, Records
  <2>5. Containers'
    BY <1>1, <2>2, <2>3, <2>4 DEF PacketInv, Containers
  <2> QED BY <1>1, <1>3, <2>1, <2>3, <2>5, Accounted
<1> QED BY <1>4, <1>5, <1>6, <1>7, <1>8, <1>9

LEMMA PacketStep == PacketInv /\ [Next]_vars => PacketInv'
<1> SUFFICES ASSUME PacketInv, [Next]_vars PROVE PacketInv'
  OBVIOUS
<1>1. AgreementInv'
  BY AgreementStep DEF PacketInv
<1>2. CASE UNCHANGED vars
  BY <1>1, <1>2 DEF vars, sender, receiver, medium, PacketInv, Serving, Containers, Placed, IsNormal
<1>3. CASE Originate
  BY <1>1, <1>3, FrameSteps, PreparedSend, FirstSend DEF Originate
<1>4. CASE Receive
  BY <1>1, <1>4, RecipientSteps, OriginatorSteps DEF Receive
<1>5. CASE Timeout
  BY <1>1, <1>5, RecipientSteps, OriginatorSteps DEF Timeout
<1> QED BY <1>1, <1>2, <1>3, <1>4, <1>5, ArrivalSteps, FrameSteps, RecipientSteps DEF Next

LEMMA InitPackets == Init => PacketInv
<1> SUFFICES ASSUME Init PROVE PacketInv
  OBVIOUS
<1>1. AgreementInv
  BY InitAgreement
<1>2. Serving
  BY Kinds DEF Init, Serving, IsNormal
<1>3. Cardinality(Packet) \in Nat
  BY BlockAckAssumption, FS_CardinalityType
<1>4. Containers /\ 1..offered = {}
  BY <1>3 DEF Init, Containers, NoAgreement, Listed
<1> QED BY <1>1, <1>2, <1>4 DEF PacketInv

(* No packet vanishes: until it is reported it waits in the queue, is in   *)
(* service under a normal ack, or is kept for the block ack, although      *)
(* packets age, are retried, are acknowledged out of order, and the        *)
(* agreement they belong to is torn down at any moment.                    *)
THEOREM PacketsAreKept == Spec => []EveryPacketKept
<1>1. PacketInv => EveryPacketKept
  BY DEF PacketInv, Placed, IsNormal, EveryPacketKept
<1> QED BY <1>1, InitPackets, PacketStep, PTL DEF Spec

-----------------------------------------------------------------------------
(* Circular numbers, without the modulus.                                  *)

LEMMA Remainder ==
  ASSUME NEW n \in Nat \ {0}, NEW x \in 0..(2 * n - 1)
  PROVE  x % n = IF x < n THEN x ELSE x - n
  OBVIOUS

LEMMA SpaceType ==
  /\ SeqSpace \in Nat \ {0} /\ FragMod \in Nat \ {0} /\ Window \in Nat \ {0} /\ MaxSlrc \in Nat \ {0}
  /\ FirstSeq \in Seqs /\ 2 * Window <= SeqSpace
  /\ IsFiniteSet(Packet) /\ Cardinality(Packet) \in Nat /\ Packet = 1..Cardinality(Packet)
  BY BlockAckAssumption, FS_CardinalityType DEF Seqs

LEMMA DistIs ==
  ASSUME NEW s \in Seqs, NEW t \in Seqs
  PROVE  /\ Dist(s, t) \in Seqs
         /\ Dist(s, t) = IF s < t THEN s + SeqSpace - t ELSE s - t
<1>1. SeqSpace \in Nat \ {0} /\ s \in 0..(SeqSpace - 1) /\ t \in 0..(SeqSpace - 1)
  BY SpaceType DEF Seqs
<1>2. PICK x : x = s + SeqSpace - t
  OBVIOUS
<1>3. x \in 0..(2 * SeqSpace - 1)
  BY <1>1, <1>2
<1>4. x % SeqSpace = IF x < SeqSpace THEN x ELSE x - SeqSpace
  BY <1>1, <1>3, Remainder
<1>5. Dist(s, t) = IF x < SeqSpace THEN x ELSE x - SeqSpace
  BY <1>2, <1>4 DEF Dist
<1>6. /\ (s < t => x < SeqSpace /\ x \in 0..(SeqSpace - 1))
      /\ (~(s < t) => ~(x < SeqSpace) /\ x - SeqSpace = s - t /\ s - t \in 0..(SeqSpace - 1))
  BY <1>1, <1>2
<1> QED BY <1>2, <1>5, <1>6 DEF Seqs

LEMMA PlusIs ==
  ASSUME NEW s \in Seqs, NEW n \in 0..SeqSpace
  PROVE  /\ Plus(s, n) \in Seqs
         /\ Plus(s, n) = IF s + n < SeqSpace THEN s + n ELSE s + n - SeqSpace
<1>1. SeqSpace \in Nat \ {0} /\ s \in 0..(SeqSpace - 1)
  BY SpaceType DEF Seqs
<1>2. PICK x : x = s + n
  OBVIOUS
<1>3. x \in 0..(2 * SeqSpace - 1)
  BY <1>1, <1>2
<1>4. x % SeqSpace = IF x < SeqSpace THEN x ELSE x - SeqSpace
  BY <1>1, <1>3, Remainder
<1>5. Plus(s, n) = IF x < SeqSpace THEN x ELSE x - SeqSpace
  BY <1>2, <1>4 DEF Plus
<1>6. CASE x < SeqSpace
  <2>1. x \in 0..(SeqSpace - 1)
    BY <1>1, <1>3, <1>6
  <2> QED BY <1>2, <1>5, <1>6, <2>1 DEF Seqs
<1>7. CASE ~(x < SeqSpace)
  <2>1. x - SeqSpace \in 0..(SeqSpace - 1)
    BY <1>1, <1>3, <1>7
  <2>2. Plus(s, n) = s + n - SeqSpace /\ ~(s + n < SeqSpace)
    BY <1>1, <1>2, <1>3, <1>5, <1>7
  <2>3. Plus(s, n) \in Seqs
    BY <1>1, <1>2, <1>3, <2>1, <2>2 DEF Seqs
  <2> QED BY <2>2, <2>3
<1> QED BY <1>6, <1>7

LEMMA SumType == ASSUME NEW s \in Nat, NEW n \in Nat PROVE Plus(s, n) \in Seqs
  BY SpaceType DEF Plus, Seqs

-----------------------------------------------------------------------------
(* Selected keeps the order and takes every position.                      *)

Earlier(I, x) == {j \in I : j < x}

LEMMA Ranks ==
  ASSUME NEW I, I \subseteq Nat, IsFiniteSet(I)
  PROVE  /\ Cardinality(I) \in Nat
         /\ \A x \in I : Cardinality(Earlier(I, x)) \in 0..(Cardinality(I) - 1)
         /\ \A x, y \in I : x < y => Cardinality(Earlier(I, x)) < Cardinality(Earlier(I, y))
<1>1. Cardinality(I) \in Nat
  BY FS_CardinalityType
<1>2. ASSUME NEW S, S \in SUBSET I
      PROVE  IsFiniteSet(S) /\ Cardinality(S) \in Nat
  <2>1. IsFiniteSet(S)
    BY <1>2, FS_Subset
  <2> QED BY <2>1, FS_CardinalityType
<1>3. ASSUME NEW x \in I, NEW S, S \in SUBSET I, Earlier(I, x) \subseteq S, x \in S
      PROVE  Cardinality(Earlier(I, x)) < Cardinality(S)
  <2>1. Earlier(I, x) \in SUBSET I /\ x \notin Earlier(I, x)
    BY DEF Earlier
  <2>2. IsFiniteSet(Earlier(I, x)) /\ Cardinality(Earlier(I, x)) \in Nat
    BY <1>2, <2>1
  <2>3. Cardinality(Earlier(I, x) \cup {x}) = Cardinality(Earlier(I, x)) + 1
    BY <2>1, <2>2, FS_AddElement
  <2>4. Earlier(I, x) \cup {x} \in SUBSET S
    BY <1>3
  <2>5. IsFiniteSet(S) /\ Cardinality(S) \in Nat
    BY <1>2, <1>3
  <2>6. Cardinality(Earlier(I, x) \cup {x}) <= Cardinality(S)
    BY <2>4, <2>5, FS_Subset
  <2> QED BY <2>2, <2>3, <2>5, <2>6
<1>4. \A x \in I : Cardinality(Earlier(I, x)) \in 0..(Cardinality(I) - 1)
  <2> TAKE x \in I
  <2>1. Earlier(I, x) \in SUBSET I
    BY DEF Earlier
  <2>2. Cardinality(Earlier(I, x)) \in Nat
    BY <1>2, <2>1
  <2>3. Cardinality(Earlier(I, x)) < Cardinality(I)
    BY <1>3, <2>1
  <2> QED BY <1>1, <2>2, <2>3
<1>5. \A x, y \in I : x < y => Cardinality(Earlier(I, x)) < Cardinality(Earlier(I, y))
  <2> SUFFICES ASSUME NEW x \in I, NEW y \in I, x < y
               PROVE  Cardinality(Earlier(I, x)) < Cardinality(Earlier(I, y))
    OBVIOUS
  <2>1. Earlier(I, y) \in SUBSET I /\ x \in Earlier(I, y)
    BY DEF Earlier
  <2>2. \A j \in I : j \in Nat /\ x \in Nat /\ y \in Nat /\ (j < x => j < y)
    OBVIOUS
  <2>3. Earlier(I, x) \subseteq Earlier(I, y)
    BY <2>2 DEF Earlier
  <2> QED BY <1>3, <2>1, <2>3
<1> QED BY <1>1, <1>4, <1>5

(* The positions in I are e[1] < .. < e[k]. *)
Enumerates(e, k, I) == /\ k \in Nat /\ e \in [1..k -> I]
                       /\ \A i, j \in 1..k : i < j => e[i] < e[j]
                       /\ \A x \in I : \E i \in 1..k : e[i] = x
At(s, e, k) == [i \in 1..k |-> s[e[i]]]

LEMMA SelectedIs ==
  ASSUME NEW s, NEW n \in Nat, NEW I, I \subseteq 1..n
  PROVE  \E k, e : Enumerates(e, k, I) /\ Selected(s, I) = At(s, e, k)
<1>1. IsFiniteSet(I) /\ I \subseteq Nat
  <2>1. IsFiniteSet(1..n)
    BY FS_Interval
  <2>2. I \in SUBSET (1..n)
    OBVIOUS
  <2>3. IsFiniteSet(I)
    BY <2>1, <2>2, FS_Subset
  <2> QED BY <2>3
<1>2. PICK k, r :
        /\ k \in Nat /\ r \in [I -> 0..(k - 1)]
        /\ k = Cardinality(I) /\ \A x \in I : r[x] = Cardinality({j \in I : j < x})
        /\ \A x, y \in I : x < y => r[x] < r[y]
  <2> DEFINE r == [x \in I |-> Cardinality({j \in I : j < x})]
  <2>1. /\ Cardinality(I) \in Nat /\ r \in [I -> 0..(Cardinality(I) - 1)]
        /\ \A x, y \in I : x < y => r[x] < r[y]
    BY <1>1, Ranks DEF Earlier
  <2>2. \A x \in I : r[x] = Cardinality({j \in I : j < x})
    OBVIOUS
  <2> HIDE DEF r
  <2> QED BY <2>1, <2>2
<1>3. r \in Injection(I, 0..(k - 1))
  <2>1. \A x, y \in I : x \in Nat /\ y \in Nat /\ r[x] \in Nat /\ r[y] \in Nat
    BY <1>1, <1>2
  <2>2. \A x, y \in I : r[x] = r[y] => x = y
    BY <1>2, <2>1
  <2> QED BY <1>2, <2>2 DEF Injection, IsInjective
<1>4. r \in Surjection(I, 0..(k - 1))
  <2>1. IsFiniteSet(0..(k - 1)) /\ Cardinality(0..(k - 1)) = k
    <3>1. 0 \in Int /\ k - 1 \in Int
      BY <1>2
    <3> QED BY <1>2, <3>1, FS_Interval
  <2> QED BY <1>2, <1>3, <2>1, FS_Injection
<1>5. \A i \in 1..k : \E x \in I : r[x] = i - 1
  <2>1. \A i \in 1..k : i - 1 \in 0..(k - 1)
    BY <1>2
  <2> QED BY <1>4, <2>1 DEF Surjection
<1>6. PICK e \in [1..k -> I] : /\ \A i \in 1..k : r[e[i]] = i - 1
                               /\ Selected(s, I) = [i \in 1..k |-> s[e[i]]]
  <2> DEFINE nth(i) == CHOOSE x \in I : Cardinality({j \in I : j < x}) = i - 1
             e == [i \in 1..k |-> nth(i)]
  <2>1. ASSUME NEW i \in 1..k PROVE nth(i) \in I /\ r[nth(i)] = i - 1
    <3>1. PICK x \in I : Cardinality({j \in I : j < x}) = i - 1
      BY <1>2, <1>5
    <3>2. nth(i) \in I /\ Cardinality({j \in I : j < nth(i)}) = i - 1
      BY <3>1
    <3> QED BY <1>2, <3>2
  <2>2. Selected(s, I) = [i \in 1..k |-> s[nth(i)]]
    BY <1>2 DEF Selected
  <2> HIDE DEF nth
  <2>3. e \in [1..k -> I] /\ \A i \in 1..k : e[i] = nth(i)
    BY <2>1
  <2> HIDE DEF e
  <2>4. Selected(s, I) = [i \in 1..k |-> s[e[i]]]
    BY <2>2, <2>3
  <2> QED BY <2>1, <2>3, <2>4
<1>7. \A i, j \in 1..k : i < j => e[i] < e[j]
  <2> SUFFICES ASSUME NEW i \in 1..k, NEW j \in 1..k, i < j PROVE e[i] < e[j]
    OBVIOUS
  <2>1. e[i] \in Nat /\ e[j] \in Nat /\ e[i] \in I /\ e[j] \in I
    BY <1>1, <1>6
  <2>2. r[e[i]] < r[e[j]]
    BY <1>6
  <2>3. e[i] # e[j] /\ ~(e[j] < e[i])
    BY <1>2, <1>6, <2>1, <2>2
  <2> QED BY <2>1, <2>3
<1>8. \A x \in I : \E i \in 1..k : e[i] = x
  <2> SUFFICES ASSUME NEW x \in I PROVE \E i \in 1..k : e[i] = x
    OBVIOUS
  <2>1. r[x] \in 0..(k - 1)
    BY <1>2
  <2>2. r[x] + 1 \in 1..k /\ r[e[r[x] + 1]] = r[x] /\ e[r[x] + 1] \in I
    BY <1>2, <1>6, <2>1
  <2>3. e[r[x] + 1] = x
    BY <1>3, <2>2 DEF Injection, IsInjective
  <2> QED BY <2>2, <2>3
<1>9. Enumerates(e, k, I)
  BY <1>2, <1>6, <1>7, <1>8 DEF Enumerates
<1>10. Selected(s, I) = At(s, e, k)
  BY <1>6 DEF At
<1> QED BY <1>9, <1>10

-----------------------------------------------------------------------------
(* Parts of sequences.                                                     *)

(* t consists of elements of s in the order they have there. *)
Part(t, s) == \E e \in [DOMAIN t -> DOMAIN s] :
                /\ \A i, j \in DOMAIN t : i < j => e[i] < e[j]
                /\ \A i \in DOMAIN t : t[i] = s[e[i]]

LEMMA SelectedPart ==
  ASSUME NEW S, NEW s \in Seq(S), NEW I, I \subseteq DOMAIN s
  PROVE  /\ Selected(s, I) \in Seq(S) /\ Part(Selected(s, I), s)
         /\ \A x \in I : \E i \in DOMAIN Selected(s, I) : Selected(s, I)[i] = s[x]
         /\ \A i \in DOMAIN Selected(s, I) : \E x \in I : Selected(s, I)[i] = s[x]
<1>1. PICK n \in Nat : DOMAIN s = 1..n
  OBVIOUS
<1>2. PICK t, k, e : t = Selected(s, I) /\ Enumerates(e, k, I) /\ t = At(s, e, k)
  <2>1. n \in Nat /\ I \subseteq 1..n
    BY <1>1
  <2> QED BY <2>1, SelectedIs
<1>3. /\ DOMAIN t = 1..k /\ e \in [1..k -> DOMAIN s]
      /\ \A i \in 1..k : t[i] = s[e[i]] /\ t[i] \in S
      /\ t = [i \in 1..k |-> s[e[i]]] /\ k \in Nat
  BY <1>1, <1>2 DEF Enumerates, At
<1>4. t \in Seq(S)
  <2>1. t \in [1..k -> S]
    BY <1>3
  <2> QED BY <1>3, <2>1, SeqDef
<1>5. Part(t, s)
  BY <1>2, <1>3 DEF Part, Enumerates
<1>6. \A x \in I : \E i \in DOMAIN t : t[i] = s[x]
  BY <1>2, <1>3 DEF Enumerates
<1>7. \A i \in DOMAIN t : \E x \in I : t[i] = s[x]
  BY <1>2, <1>3 DEF Enumerates
<1> QED BY <1>2, <1>4, <1>5, <1>6, <1>7

(* What PrefixLen is, for the positions I at which its test holds.         *)
PrefixOf(I, n) == LET m == IF I # {} THEN Min(I) ELSE 0 IN IF m = 0 THEN n ELSE m - 1

LEMMA PrefixIs ==
  ASSUME NEW n \in Nat, NEW I, I \subseteq 1..n
  PROVE  /\ PrefixOf(I, n) \in 0..n /\ \A i \in 1..PrefixOf(I, n) : i \notin I
         /\ PrefixOf(I, n) # n => PrefixOf(I, n) + 1 \in I
<1>1. CASE I = {}
  BY <1>1 DEF PrefixOf
<1>2. CASE I # {}
  <2>1. PICK m : m = Min(I) /\ m \in I /\ m \in 1..n /\ \A k \in I : m <= k
    BY <1>2, LeastPosition
  <2>2. PrefixOf(I, n) = m - 1
    BY <1>2, <2>1 DEF PrefixOf
  <2>3. \A i \in 1..(m - 1) : i \notin I
    BY <2>1
  <2> QED BY <2>1, <2>2, <2>3
<1> QED BY <1>1, <1>2

LEMMA WithoutPart ==
  ASSUME NEW items \in Seq(Item), NEW S
  PROVE  /\ Without(items, S) \in Seq(Item) /\ Part(Without(items, S), items)
         /\ \A x \in DOMAIN items : items[x].seq \notin S =>
              \E i \in DOMAIN Without(items, S) : Without(items, S)[i] = items[x]
         /\ \A i \in DOMAIN Without(items, S) : Without(items, S)[i].seq \notin S
<1>1. PICK I : I = {i \in DOMAIN items : items[i].seq \notin S}
  OBVIOUS
<1>2. Without(items, S) = Selected(items, I) /\ I \subseteq DOMAIN items
  BY <1>1 DEF Without
<1>3. PICK t : t = Selected(items, I) /\ t = Without(items, S)
  BY <1>2
<1>4. /\ t \in Seq(Item) /\ Part(t, items)
      /\ \A x \in I : \E i \in DOMAIN t : t[i] = items[x]
      /\ \A i \in DOMAIN t : \E x \in I : t[i] = items[x]
  BY <1>2, <1>3, SelectedPart
<1> QED BY <1>1, <1>2, <1>3, <1>4

LEMMA ExcludingPart ==
  ASSUME NEW seqs \in Seq(Seqs), NEW S
  PROVE  /\ Excluding(seqs, S) \in Seq(Seqs) /\ Part(Excluding(seqs, S), seqs)
         /\ \A i \in DOMAIN Excluding(seqs, S) : Excluding(seqs, S)[i] \notin S
         /\ \A x \in DOMAIN seqs : seqs[x] \notin S =>
              \E i \in DOMAIN Excluding(seqs, S) : Excluding(seqs, S)[i] = seqs[x]
<1>1. PICK I : I = {i \in DOMAIN seqs : seqs[i] \notin S}
  OBVIOUS
<1>2. Excluding(seqs, S) = Selected(seqs, I) /\ I \subseteq DOMAIN seqs
  BY <1>1 DEF Excluding
<1>3. PICK t : t = Selected(seqs, I)
  OBVIOUS
<1>4. /\ t \in Seq(Seqs) /\ Part(t, seqs) /\ \A i \in DOMAIN t : \E x \in I : t[i] = seqs[x]
      /\ \A x \in I : \E i \in DOMAIN t : t[i] = seqs[x]
  BY <1>2, <1>3, SelectedPart
<1>5. \A i \in DOMAIN t : t[i] \notin S
  BY <1>1, <1>4
<1>6. \A x \in DOMAIN seqs : seqs[x] \notin S => \E i \in DOMAIN t : t[i] = seqs[x]
  BY <1>1, <1>4
<1> QED BY <1>2, <1>3, <1>4, <1>5, <1>6

-----------------------------------------------------------------------------
(* While the packets take at most half of the numbers, the order in which  *)
(* these were drawn is the order of the circular comparisons.              *)

Draw(s) == Dist(s, FirstSeq)
HalfTheNumbers == 2 * Cardinality(Packet) <= SeqSpace

LEMMA DrawIs ==
  ASSUME NEW s \in Seqs, NEW t \in Seqs
  PROVE  /\ Draw(s) \in Nat /\ Draw(s) < SeqSpace /\ (Draw(s) = Draw(t) => s = t)
         /\ Dist(s, t) \in Nat
         /\ Dist(s, t) = IF Draw(s) < Draw(t) THEN Draw(s) + SeqSpace - Draw(t) ELSE Draw(s) - Draw(t)
<1>1. /\ SeqSpace \in Nat /\ FirstSeq \in 0..(SeqSpace - 1)
      /\ s \in 0..(SeqSpace - 1) /\ t \in 0..(SeqSpace - 1)
  BY SpaceType DEF Seqs
<1>2. /\ Draw(s) \in Seqs /\ Draw(s) = IF s < FirstSeq THEN s + SeqSpace - FirstSeq ELSE s - FirstSeq
      /\ Draw(t) \in Seqs /\ Draw(t) = IF t < FirstSeq THEN t + SeqSpace - FirstSeq ELSE t - FirstSeq
      /\ Dist(s, t) \in Seqs /\ Dist(s, t) = IF s < t THEN s + SeqSpace - t ELSE s - t
  BY SpaceType, DistIs DEF Draw
<1>3. PICK ds, dt, d : ds = Draw(s) /\ dt = Draw(t) /\ d = Dist(s, t)
  OBVIOUS
<1>4. /\ ds \in 0..(SeqSpace - 1) /\ ds = IF s < FirstSeq THEN s + SeqSpace - FirstSeq ELSE s - FirstSeq
      /\ dt \in 0..(SeqSpace - 1) /\ dt = IF t < FirstSeq THEN t + SeqSpace - FirstSeq ELSE t - FirstSeq
      /\ d \in 0..(SeqSpace - 1) /\ d = IF s < t THEN s + SeqSpace - t ELSE s - t
  BY <1>2, <1>3 DEF Seqs
<1>5. ds \in Nat /\ ds < SeqSpace /\ d \in Nat /\ (ds = dt => s = t)
  BY <1>1, <1>4
<1>6. d = IF ds < dt THEN ds + SeqSpace - dt ELSE ds - dt
  BY <1>1, <1>4
<1> QED BY <1>3, <1>5, <1>6

LEMMA OldIs ==
  ASSUME HalfTheNumbers, NEW s \in Seqs, NEW t \in Seqs,
         Draw(s) < Cardinality(Packet), Draw(t) < Cardinality(Packet)
  PROVE  IsOld(t, s) <=> Draw(s) < Draw(t)
<1>1. PICK ds, dt, d, k, h : /\ ds = Draw(s) /\ dt = Draw(t) /\ d = Dist(s, t)
                             /\ k = Cardinality(Packet) /\ h = SeqSpace \div 2
  OBVIOUS
<1>2. /\ SeqSpace \in Nat /\ k \in Nat /\ 2 * k <= SeqSpace /\ ds < k /\ dt < k /\ ds \in Nat /\ dt \in Nat
      /\ d = IF ds < dt THEN ds + SeqSpace - dt ELSE ds - dt
  BY <1>1, SpaceType, DrawIs DEF HalfTheNumbers
<1>3. h \in Nat /\ k <= h /\ 2 * h <= SeqSpace
  BY <1>1, <1>2
<1>4. d >= h <=> ds < dt
  BY <1>2, <1>3
<1> QED BY <1>1, <1>4 DEF IsOld

LEMMA NextDraw ==
  ASSUME HalfTheNumbers, NEW s \in Seqs, Draw(s) < Cardinality(Packet)
  PROVE  Plus(s, 1) \in Seqs /\ Draw(Plus(s, 1)) = Draw(s) + 1
<1>1. /\ SeqSpace \in Nat /\ FirstSeq \in 0..(SeqSpace - 1) /\ s \in 0..(SeqSpace - 1)
      /\ Window \in Nat \ {0} /\ 2 * Window <= SeqSpace /\ FirstSeq \in Seqs
  BY SpaceType DEF Seqs
<1>2. PICK k \in Nat, h \in Nat : /\ k = Cardinality(Packet) /\ 2 * k <= SeqSpace
                                  /\ h = Draw(s) /\ h < k
                                  /\ h = IF s < FirstSeq THEN s + SeqSpace - FirstSeq ELSE s - FirstSeq
  <2>1. Draw(s) \in Nat /\ Draw(s) = IF s < FirstSeq THEN s + SeqSpace - FirstSeq ELSE s - FirstSeq
    BY <1>1, DistIs DEF Draw, Seqs
  <2> QED BY <2>1, SpaceType DEF HalfTheNumbers
<1>3. PICK p : /\ p = Plus(s, 1) /\ p \in Seqs /\ p \in 0..(SeqSpace - 1)
               /\ p = IF s + 1 < SeqSpace THEN s + 1 ELSE s + 1 - SeqSpace
  <2>1. 1 \in 0..SeqSpace
    BY <1>1
  <2> QED BY <2>1, PlusIs DEF Seqs
<1>4. PICK g : /\ g = Draw(p)
               /\ g = IF p < FirstSeq THEN p + SeqSpace - FirstSeq ELSE p - FirstSeq
  BY <1>1, <1>3, DistIs DEF Draw
<1>5. h + 1 < SeqSpace
  BY <1>1, <1>2
<1>6. g = h + 1
  BY <1>1, <1>2, <1>3, <1>4, <1>5
<1> QED BY <1>2, <1>3, <1>4, <1>6

-----------------------------------------------------------------------------
(* The records of the originator, in the order the numbers were drawn.     *)

Rising(items, n) ==
  /\ items \in Seq(Item)
  /\ \A i, j \in DOMAIN items : i < j => Draw(items[i].seq) < Draw(items[j].seq)
  /\ \A i \in DOMAIN items : Draw(items[i].seq) < n

RisingSeqs(seqs, n) ==
  /\ seqs \in Seq(Seqs)
  /\ \A i, j \in DOMAIN seqs : i < j => Draw(seqs[i]) < Draw(seqs[j])
  /\ \A i \in DOMAIN seqs : Draw(seqs[i]) < n

Agreement == [state : {"none", "pending", "established"}, start : Seqs, needBar : {FALSE},
              sent : Seq(Item), retry : Seq(Seqs), bars : Seq(Seqs)]

(* Of the first n numbers; what waits to be sent again was sent and is not *)
(* before the window.                                                      *)
Ordered(a, n) ==
  /\ a \in Agreement /\ Rising(a.sent, n) /\ RisingSeqs(a.retry, n)
  /\ \A i \in DOMAIN a.retry : InSent(a, a.retry[i]) /\ Draw(a.start) <= Draw(a.retry[i])

Among(s, t) == \A i \in DOMAIN s : \E j \in DOMAIN t : s[i] = t[j]

(* b is a without some of its packets and retries. *)
Less(b, a) == /\ b.state = a.state /\ b.bars = a.bars
              /\ Among(b.sent, a.sent) /\ Among(b.retry, a.retry)

LEMMA AgreementIs ==
  ASSUME NEW a \in Agreement
  PROVE  /\ a.start \in Seqs /\ a.needBar = FALSE /\ a.sent \in Seq(Item) /\ a.retry \in Seq(Seqs)
         /\ a.bars \in Seq(Seqs) /\ a.state \in {"none", "pending", "established"}
         /\ DOMAIN a = DOMAIN NoAgreement
  BY DEF Agreement, NoAgreement

LEMMA PartRising ==
  ASSUME NEW n, NEW s, Rising(s, n), NEW t \in Seq(Item), Part(t, s)
  PROVE  Rising(t, n) /\ Among(t, s)
<1>1. PICK e \in [DOMAIN t -> DOMAIN s] :
        /\ \A i, j \in DOMAIN t : i < j => e[i] < e[j]
        /\ \A i \in DOMAIN t : t[i] = s[e[i]]
  BY DEF Part
<1> QED BY <1>1 DEF Rising, Among

LEMMA PartRisingSeqs ==
  ASSUME NEW n, NEW s, RisingSeqs(s, n), NEW t \in Seq(Seqs), Part(t, s)
  PROVE  RisingSeqs(t, n) /\ Among(t, s)
<1>1. PICK e \in [DOMAIN t -> DOMAIN s] :
        /\ \A i, j \in DOMAIN t : i < j => e[i] < e[j]
        /\ \A i \in DOMAIN t : t[i] = s[e[i]]
  BY DEF Part
<1> QED BY <1>1 DEF RisingSeqs, Among

(* What is left of a sequence without its first elements is a part of it.  *)
LEMMA RestPart ==
  ASSUME NEW S, NEW s \in Seq(S), NEW n \in 0..Len(s)
  PROVE  /\ SubSeq(s, n + 1, Len(s)) \in Seq(S) /\ Part(SubSeq(s, n + 1, Len(s)), s)
         /\ Len(SubSeq(s, n + 1, Len(s))) = Len(s) - n
         /\ \A i \in 1..(Len(s) - n) : SubSeq(s, n + 1, Len(s))[i] = s[n + i]
<1>1. Len(s) \in Nat /\ n \in Nat /\ n <= Len(s) /\ DOMAIN s = 1..Len(s)
  OBVIOUS
<1>2. PICK t : t = SubSeq(s, n + 1, Len(s))
  OBVIOUS
<1>3. /\ t \in Seq(S) /\ Len(t) = Len(s) - n /\ DOMAIN t = 1..(Len(s) - n)
      /\ \A i \in 1..(Len(s) - n) : t[i] = s[n + i]
  <2>1. n + 1 \in Int /\ Len(s) \in Int /\ \A i \in (n + 1)..Len(s) : s[i] \in S
    BY <1>1
  <2>2. /\ t \in Seq(S) /\ Len(t) = IF n + 1 <= Len(s) THEN Len(s) - (n + 1) + 1 ELSE 0
        /\ \A i \in 1..(Len(s) - (n + 1) + 1) : t[i] = s[n + 1 + i - 1]
    BY <1>2, <2>1, SubSeqProperties, SMTT(30)
  <2>3. Len(t) = Len(s) - n /\ Len(s) - (n + 1) + 1 = Len(s) - n /\ DOMAIN t = 1..Len(t)
    <3>1. ASSUME NEW k \in Nat, NEW l \in Nat, l <= k
          PROVE  k - (l + 1) + 1 = k - l /\ (~(l + 1 <= k) => k - l = 0)
      BY <3>1, SMTT(30)
    <3>2. /\ Len(s) - (n + 1) + 1 = Len(s) - n
          /\ ~(n + 1 <= Len(s)) => Len(s) - n = 0
      BY <1>1, <3>1, Zenon
    <3>3. DOMAIN t = 1..Len(t)
      BY <2>2
    <3> QED BY <2>2, <3>2, <3>3, Zenon
  <2>4. \A i \in 1..(Len(s) - n) : n + 1 + i - 1 = n + i
    BY <1>1
  <2> QED BY <2>2, <2>3, <2>4
<1>4. Part(t, s)
  <2>1. PICK e : e = [i \in DOMAIN t |-> n + i]
    OBVIOUS
  <2>2. /\ e \in [DOMAIN t -> DOMAIN s]
        /\ \A i \in DOMAIN t : i \in Nat /\ e[i] = n + i /\ t[i] = s[e[i]]
    BY <1>1, <1>3, <2>1
  <2>3. \A i, j \in DOMAIN t : i < j => e[i] < e[j]
    BY <1>1, <2>2
  <2> QED BY <2>2, <2>3 DEF Part
<1> QED BY <1>2, <1>3, <1>4

(* The packets that may be sent again, by number, and what CleanupBuffers  *)
(* leaves of the others: c has the packets of a that are young enough,     *)
(* their retries, and begins with one of them if there is one.             *)
Fresh(items) == {items[i].seq : i \in {j \in DOMAIN items : items[j].packet > expired}}
Tidied(a, c) ==
  /\ Fresh(a.sent) \subseteq Fresh(c.sent)
  /\ \A i \in DOMAIN a.retry : a.retry[i] \in Fresh(a.sent) => a.retry[i] \in ToSet(c.retry)
  /\ a.sent = <<>> => c = a
  /\ a.sent # <<>> => c.start \in SeqsOf(c.sent) /\ \A j \in DOMAIN c.sent : Draw(c.start) <= Draw(c.sent[j].seq)
  /\ a.sent # <<>> /\ (Fresh(a.sent) # {} \/ c.retry # <<>>) => c.start \in Fresh(c.sent)

LEMMA CleanupOrdered ==
  ASSUME NEW n \in Nat, NEW a, Ordered(a, n), expired \in Nat
  PROVE  /\ Ordered(Cleanup(a), n) /\ Less(Cleanup(a), a)
         /\ \A p \in Gone(a, Cleanup(a)) : p <= expired
         /\ Tidied(a, Cleanup(a))
<1>1. /\ a \in Agreement /\ Rising(a.sent, n) /\ RisingSeqs(a.retry, n) /\ a.sent \in Seq(Item)
      /\ a.retry \in Seq(Seqs) /\ DOMAIN a = DOMAIN NoAgreement
      /\ \A i \in DOMAIN a.retry : InSent(a, a.retry[i])
  BY AgreementIs DEF Ordered
<1>2. CASE a.sent = <<>>
  <2>1. Cleanup(a) = a
    BY <1>2 DEF Cleanup
  <2>2. a.retry = <<>>
    <3>1. \A i \in DOMAIN a.retry : FALSE
      BY <1>1, <1>2 DEF InSent
    <3> QED BY <1>1, <3>1
  <2>3. Fresh(a.sent) = {}
    BY <1>2 DEF Fresh
  <2>4. Tidied(a, a)
    BY <1>2, <2>2, <2>3 DEF Tidied
  <2> QED BY <2>1, <2>4 DEF Less, Among, Gone
<1>3. CASE a.sent # <<>>
  <2>1. PICK l, dead, kept :
           /\ l = PrefixLen(a.sent, LAMBDA it : it.packet > expired)
           /\ dead = SeqsOf(SubSeq(a.sent, 1, l))
           /\ kept = IF l = Len(a.sent) THEN a.sent ELSE SubSeq(a.sent, l + 1, Len(a.sent))
           /\ Cleanup(a) = [a EXCEPT !.sent = kept, !.start = kept[1].seq, !.retry = Excluding(@, dead)]
    BY <1>3, Zenon DEF Cleanup
  <2>2. Len(a.sent) \in Nat /\ Len(a.sent) # 0 /\ DOMAIN a.sent = 1..Len(a.sent)
    BY <1>1, <1>3
  <2>3. /\ l \in 0..Len(a.sent) /\ \A i \in 1..l : ~(a.sent[i].packet > expired)
        /\ l # Len(a.sent) => a.sent[l + 1].packet > expired
    <3>1. PICK I : I = {i \in 1..Len(a.sent) : a.sent[i].packet > expired}
      BY Zenon
    <3>2. l = PrefixOf(I, Len(a.sent))
      BY <2>1, <3>1, Zenon DEF PrefixLen, SelectInSeq, PrefixOf
    <3>3. I \subseteq 1..Len(a.sent)
      BY <3>1
    <3>4. l \in 0..Len(a.sent) /\ (\A i \in 1..l : i \notin I) /\ (l # Len(a.sent) => l + 1 \in I)
      BY <2>2, <3>2, <3>3, PrefixIs
    <3> QED BY <2>2, <3>1, <3>4
  <2>4. /\ kept \in Seq(Item) /\ Part(kept, a.sent) /\ kept # <<>>
        /\ \A i \in (l + 1)..Len(a.sent) : \E j \in DOMAIN kept : kept[j] = a.sent[i]
        /\ l # Len(a.sent) => kept[1] = a.sent[l + 1]
    <3>1. CASE l = Len(a.sent)
      <4>1. kept = a.sent
        BY <2>1, <3>1
      <4>2. Part(a.sent, a.sent)
        <5>1. PICK e : e = [i \in DOMAIN a.sent |-> i]
          OBVIOUS
        <5>2. e \in [DOMAIN a.sent -> DOMAIN a.sent] /\ \A i \in DOMAIN a.sent : e[i] = i
          BY <5>1
        <5> QED BY <5>2 DEF Part
      <4> QED BY <1>1, <1>3, <2>2, <3>1, <4>1, <4>2
    <3>2. CASE l # Len(a.sent)
      <4>1. PICK s : s = a.sent
        OBVIOUS
      <4>2. /\ kept \in Seq(Item) /\ Part(kept, s) /\ Len(kept) = Len(s) - l
            /\ \A i \in 1..(Len(s) - l) : kept[i] = s[l + i]
        <5>1. s \in Seq(Item) /\ l \in 0..Len(s) /\ kept = SubSeq(s, l + 1, Len(s))
          BY <1>1, <2>1, <2>3, <3>2, <4>1
        <5> QED BY <5>1, RestPart
      <4>3. kept # <<>> /\ DOMAIN kept = 1..(Len(s) - l)
        BY <2>2, <2>3, <3>2, <4>1, <4>2
      <4>4. \A i \in (l + 1)..Len(s) : i - l \in DOMAIN kept /\ kept[i - l] = s[i]
        BY <2>2, <2>3, <4>1, <4>2, <4>3
      <4>5. kept[1] = s[l + 1]
        BY <2>2, <2>3, <3>2, <4>1, <4>2
      <4> QED BY <4>1, <4>2, <4>3, <4>4, <4>5
    <3> QED BY <3>1, <3>2
  <2>5. Rising(kept, n) /\ Among(kept, a.sent)
    BY <1>1, <2>4, PartRising
  <2>6. PICK rest : rest = Excluding(a.retry, dead)
    OBVIOUS
  <2>7. /\ RisingSeqs(rest, n) /\ Among(rest, a.retry) /\ rest \in Seq(Seqs)
        /\ \A i \in DOMAIN rest : rest[i] \notin dead
        /\ \A x \in DOMAIN a.retry : a.retry[x] \notin dead => \E i \in DOMAIN rest : rest[i] = a.retry[x]
    <3>1. /\ rest \in Seq(Seqs) /\ Part(rest, a.retry) /\ \A i \in DOMAIN rest : rest[i] \notin dead
          /\ \A x \in DOMAIN a.retry : a.retry[x] \notin dead => \E i \in DOMAIN rest : rest[i] = a.retry[x]
      BY <1>1, <2>6, ExcludingPart
    <3> QED BY <1>1, <3>1, PartRisingSeqs
  <2>8. PICK c : /\ c = Cleanup(a) /\ c.sent = kept /\ c.start = kept[1].seq /\ c.retry = rest
                 /\ c.state = a.state /\ c.bars = a.bars /\ c \in Agreement
    <3>1. PICK first : first = kept[1].seq /\ first \in Seqs
      <4>1. 1 \in DOMAIN kept /\ kept[1] \in Item
        BY <2>4
      <4> QED BY <4>1 DEF Item
    <3>2. Cleanup(a) = [a EXCEPT !.sent = kept, !.start = first, !.retry = rest]
      BY <2>1, <2>6, <3>1
    <3>3. PICK c : c = [a EXCEPT !.sent = kept, !.start = first, !.retry = rest]
      OBVIOUS
    <3>4. /\ c.sent = kept /\ c.start = first /\ c.retry = rest
          /\ c.state = a.state /\ c.bars = a.bars
      BY <1>1, <3>3 DEF NoAgreement
    <3>5. c \in Agreement
      BY <1>1, <2>4, <2>7, <3>1, <3>3 DEF Agreement
    <3> QED BY <3>1, <3>2, <3>3, <3>4, <3>5
  <2>9. \A y \in DOMAIN SubSeq(a.sent, 1, l) : y \in 1..l /\ SubSeq(a.sent, 1, l)[y] = a.sent[y]
    <3>1. Len(SubSeq(a.sent, 1, l)) = l /\ SubSeq(a.sent, 1, l) \in Seq(Item)
      BY <1>1, <2>2, <2>3
    <3> QED BY <1>1, <2>2, <2>3, <3>1
  <2>16. \A i \in DOMAIN rest : \E x \in (l + 1)..Len(a.sent) : a.sent[x].seq = rest[i]
    <3> TAKE i \in DOMAIN rest
    <3>1. PICK x \in DOMAIN a.sent : a.sent[x].seq = rest[i]
      BY <1>1, <2>7, ZenonT(60) DEF Among, InSent
    <3>2. x \notin 1..l
      <4>1. SUFFICES ASSUME x \in 1..l PROVE FALSE
        OBVIOUS
      <4>2. SubSeq(a.sent, 1, l)[x] = a.sent[x] /\ x \in DOMAIN SubSeq(a.sent, 1, l)
        <5>1. Len(SubSeq(a.sent, 1, l)) = l /\ SubSeq(a.sent, 1, l) \in Seq(Item)
          BY <1>1, <2>2, <2>3
        <5> QED BY <1>1, <2>2, <2>3, <4>1, <5>1
      <4>3. rest[i] \in SeqsOf(SubSeq(a.sent, 1, l))
        BY <3>1, <4>2 DEF SeqsOf
      <4> QED BY <2>1, <2>7, <4>3
    <3>3. x \in (l + 1)..Len(a.sent)
      BY <2>2, <2>3, <3>2
    <3> QED BY <3>1, <3>3
  <2>17. \A i \in DOMAIN rest : \E j \in DOMAIN kept : kept[j].seq = rest[i]
    BY <2>4, <2>16
  <2>10. \A j \in DOMAIN kept : Draw(kept[1].seq) <= Draw(kept[j].seq)
    <3> TAKE j \in DOMAIN kept
    <3>1. kept[1] \in Item /\ kept[j] \in Item /\ j \in Nat /\ 1 \in DOMAIN kept /\ 1 <= j
      BY <2>4
    <3>2. Draw(kept[1].seq) \in Nat /\ Draw(kept[j].seq) \in Nat
      BY <3>1, DrawIs DEF Item
    <3>3. CASE j = 1
      BY <3>2, <3>3
    <3>4. CASE 1 < j
      BY <2>5, <3>1, <3>2, <3>4 DEF Rising
    <3> QED BY <3>1, <3>3, <3>4
  <2>11. Ordered(c, n)
    BY <2>5, <2>7, <2>8, <2>10, <2>17 DEF Ordered, InSent
  <2>12. Less(c, a)
    BY <2>5, <2>7, <2>8 DEF Less
  <2>13. \A p \in Gone(a, c) : p <= expired
    <3> SUFFICES ASSUME NEW p \in Gone(a, c) PROVE p <= expired
      OBVIOUS
    <3>1. PICK x \in DOMAIN a.sent : a.sent[x].packet = p
      BY DEF Gone, PacketsOf
    <3>2. \A j \in DOMAIN kept : kept[j].packet # p
      BY <2>8 DEF Gone, PacketsOf
    <3>3. x \in 1..l
      BY <2>2, <2>3, <2>4, <3>1, <3>2
    <3>4. p \in Nat
      <4>1. a.sent[x] \in Item
        BY <1>1
      <4>2. p \in Packet
        BY <3>1, <4>1 DEF Item
      <4> QED BY <4>2, SpaceType
    <3> QED BY <2>3, <3>1, <3>3, <3>4
  <2>14. \A x \in DOMAIN a.sent : a.sent[x].packet > expired => x \in (l + 1)..Len(a.sent)
    <3> SUFFICES ASSUME NEW x \in DOMAIN a.sent, a.sent[x].packet > expired PROVE x \in (l + 1)..Len(a.sent)
      OBVIOUS
    <3>1. x \notin 1..l
      BY <2>3
    <3> QED BY <2>2, <2>3, <3>1
  <2>15. Tidied(a, c)
    <3>1. Fresh(a.sent) \subseteq Fresh(kept)
      <4> SUFFICES ASSUME NEW x \in DOMAIN a.sent, a.sent[x].packet > expired PROVE a.sent[x].seq \in Fresh(kept)
        BY DEF Fresh
      <4>1. PICK j \in DOMAIN kept : kept[j] = a.sent[x]
        BY <2>4, <2>14
      <4>2. kept[j].packet > expired /\ kept[j].seq = a.sent[x].seq
        BY <4>1
      <4> QED BY <4>2 DEF Fresh
    <3>2. \A i \in DOMAIN a.retry : a.retry[i] \in Fresh(a.sent) => a.retry[i] \in ToSet(rest)
      <4> SUFFICES ASSUME NEW i \in DOMAIN a.retry, a.retry[i] \in Fresh(a.sent) PROVE a.retry[i] \in ToSet(rest)
        OBVIOUS
      <4>1. PICK x \in DOMAIN a.sent : a.sent[x].packet > expired /\ a.sent[x].seq = a.retry[i]
        BY DEF Fresh
      <4>2. a.retry[i] \notin dead
        <5>1. SUFFICES ASSUME a.retry[i] \in dead PROVE FALSE
          OBVIOUS
        <5>2. PICK y \in DOMAIN SubSeq(a.sent, 1, l) : SubSeq(a.sent, 1, l)[y].seq = a.retry[i]
          BY <2>1, <5>1, ZenonT(60) DEF SeqsOf
        <5>3. y \in 1..l /\ a.sent[y].seq = a.sent[x].seq
          BY <2>9, <4>1, <5>2
        <5>4. y < x /\ y \in DOMAIN a.sent
          BY <2>2, <2>3, <2>14, <4>1, <5>3
        <5>5. Draw(a.sent[y].seq) < Draw(a.sent[x].seq) /\ a.sent[x] \in Item
          BY <1>1, <5>4 DEF Rising
        <5>6. Draw(a.sent[x].seq) \in Nat
          BY <5>5, DrawIs DEF Item
        <5> QED BY <5>3, <5>5, <5>6
      <4> QED BY <2>7, <4>2 DEF ToSet
    <3>3. c.start \in SeqsOf(kept) /\ \A j \in DOMAIN kept : Draw(c.start) <= Draw(kept[j].seq)
      <4>1. 1 \in DOMAIN kept
        BY <2>4
      <4> QED BY <2>8, <2>10, <4>1 DEF SeqsOf
    <3>4. Fresh(a.sent) # {} \/ rest # <<>> => l # Len(a.sent)
      <4>1. ASSUME l = Len(a.sent) PROVE \A x \in (l + 1)..Len(a.sent) : FALSE
        BY <2>2, <4>1
      <4>2. ASSUME l = Len(a.sent) PROVE Fresh(a.sent) = {}
        BY <2>14, <4>1, <4>2 DEF Fresh
      <4>3. ASSUME l = Len(a.sent) PROVE rest = <<>>
        <5>1. \A i \in DOMAIN rest : FALSE
          BY <2>16, <4>1, <4>3
        <5> QED BY <2>7, <5>1
      <4> QED BY <4>2, <4>3
    <3>5. l # Len(a.sent) => c.start \in Fresh(kept)
      <4> SUFFICES ASSUME l # Len(a.sent) PROVE c.start \in Fresh(kept)
        OBVIOUS
      <4>1. 1 \in DOMAIN kept /\ kept[1] = a.sent[l + 1] /\ a.sent[l + 1].packet > expired
        BY <2>3, <2>4
      <4>2. kept[1].packet > expired
        BY <4>1
      <4> QED BY <2>8, <4>1, <4>2 DEF Fresh
    <3> QED BY <1>3, <2>8, <3>1, <3>2, <3>3, <3>4, <3>5 DEF Tidied
  <2> QED BY <2>8, <2>11, <2>12, <2>13, <2>15, SMTT(30)
<1> QED BY <1>2, <1>3

(* Nothing that waits to be sent again is behind the window: GetNextPacket *)
(* discards none.                                                          *)
LEMMA PreparedOrdered ==
  ASSUME HalfTheNumbers, NEW n \in 0..Cardinality(Packet), Ordered(ba, n), expired \in Nat
  PROVE  /\ Ordered(Prepared, n) /\ Less(Prepared, ba)
         /\ \A p \in Gone(ba, Prepared) : p <= expired
         /\ Tidied(ba, Prepared)
<1>1. n \in Nat /\ n <= Cardinality(Packet) /\ Cardinality(Packet) \in Nat
  BY SpaceType
<1>2. PICK a, c : a = ba /\ c = Cleanup(ba)
  OBVIOUS
<1>3. /\ Ordered(a, n) /\ Ordered(c, n) /\ Less(c, a)
      /\ \A p \in Gone(a, c) : p <= expired
      /\ Tidied(a, c)
  BY <1>1, <1>2, CleanupOrdered
<1>4. /\ c \in Agreement /\ Rising(c.sent, n) /\ RisingSeqs(c.retry, n) /\ c.sent \in Seq(Item)
      /\ c.retry \in Seq(Seqs) /\ c.start \in Seqs /\ DOMAIN c = DOMAIN NoAgreement
      /\ \A i \in DOMAIN c.retry : InSent(c, c.retry[i]) /\ Draw(c.start) <= Draw(c.retry[i])
  BY <1>3, AgreementIs DEF Ordered
<1>5. CASE c.retry = <<>>
  BY <1>2, <1>3, <1>5 DEF Prepared
<1>6. CASE c.retry # <<>>
  <2>1. PICK l, dead :
           /\ l = PrefixLen(Cleanup(ba).retry, LAMBDA s : ~IsOld(Cleanup(ba).start, s))
           /\ dead = ToSet(SubSeq(c.retry, 1, l))
           /\ Prepared = [c EXCEPT !.sent = Without(c.sent, dead),
                                   !.retry = SubSeq(c.retry, l + 1, Len(c.retry))]
    <3>1. PICK l : l = PrefixLen(Cleanup(ba).retry, LAMBDA s : ~IsOld(Cleanup(ba).start, s))
      OBVIOUS
    <3>2. Cleanup(ba).retry # <<>>
      BY <1>2, <1>6
    <3>3. Prepared = [Cleanup(ba) EXCEPT !.sent = Without(@, ToSet(SubSeq(Cleanup(ba).retry, 1, l))),
                                         !.retry = SubSeq(@, l + 1, Len(@))]
      BY <3>1, <3>2 DEF Prepared
    <3> QED BY <1>2, <3>1, <3>3, Zenon
  <2>2. PICK len \in Nat \ {0} : len = Len(c.retry) /\ DOMAIN c.retry = 1..len
    BY <1>4, <1>6
  <2>3. ~IsOld(c.start, c.retry[1])
    <3>1. /\ 1 \in DOMAIN c.retry /\ c.retry[1] \in Seqs /\ Draw(c.retry[1]) < n
          /\ Draw(c.start) <= Draw(c.retry[1])
      BY <1>4, <2>2 DEF RisingSeqs
    <3>2. PICK s : s = c.retry[1]
      OBVIOUS
    <3>3. s \in Seqs /\ Draw(s) \in Nat /\ Draw(c.start) \in Nat
      BY <1>4, <3>1, <3>2, DrawIs
    <3>4. Draw(s) < Cardinality(Packet) /\ Draw(c.start) < Cardinality(Packet) /\ ~(Draw(s) < Draw(c.start))
      BY <1>1, <3>1, <3>2, <3>3
    <3> QED BY <1>4, <3>2, <3>3, <3>4, OldIs
  <2>4. l = 0
    <3>1. PICK I : I = {i \in 1..Len(c.retry) : ~IsOld(c.start, c.retry[i])}
      OBVIOUS
    <3>2. l = PrefixOf(I, len)
      <4>1. I = {i \in 1..Len(Cleanup(ba).retry) : ~IsOld(Cleanup(ba).start, Cleanup(ba).retry[i])}
        BY <1>2, <3>1
      <4>2. l = PrefixOf(I, Len(Cleanup(ba).retry))
        BY <2>1, <4>1 DEF PrefixLen, SelectInSeq, PrefixOf
      <4> QED BY <1>2, <2>2, <4>2
    <3>3. I \subseteq 1..len /\ 1 \in I
      BY <2>2, <2>3, <3>1
    <3>4. l \in 0..len /\ \A i \in 1..l : i \notin I
      BY <3>2, <3>3, PrefixIs
    <3> QED BY <3>3, <3>4
  <2>5. dead = {}
    <3>1. SubSeq(c.retry, 1, 0) = <<>>
      BY SubSeqEmpty
    <3>2. ToSet(<<>>) = {}
      BY DEF ToSet
    <3> QED BY <2>1, <2>4, <3>1, <3>2
  <2>6. PICK rest : rest = Without(c.sent, dead)
    OBVIOUS
  <2>7. /\ Rising(rest, n) /\ Among(rest, c.sent) /\ rest \in Seq(Item)
        /\ \A x \in DOMAIN c.sent : \E i \in DOMAIN rest : rest[i] = c.sent[x]
    <3>1. /\ rest \in Seq(Item) /\ Part(rest, c.sent)
          /\ \A x \in DOMAIN c.sent : c.sent[x].seq \notin dead => \E i \in DOMAIN rest : rest[i] = c.sent[x]
      BY <1>4, <2>6, WithoutPart
    <3> QED BY <1>4, <2>5, <3>1, PartRising
  <2>8. SubSeq(c.retry, l + 1, Len(c.retry)) = c.retry
    <3>1. PICK t : t = SubSeq(c.retry, 1, Len(c.retry))
      OBVIOUS
    <3>2. /\ t \in Seq(Seqs) /\ Len(t) = len
          /\ \A i \in 1..len : t[i] = c.retry[i]
      <4>1. 0 \in 0..Len(c.retry) /\ 0 + 1 = 1 /\ len - 0 = len /\ \A i \in 1..len : 0 + i = i
        BY <2>2
      <4> QED BY <1>4, <2>2, <3>1, <4>1, RestPart
    <3>3. t = c.retry
      BY <1>4, <2>2, <3>2
    <3> QED BY <2>4, <3>1, <3>3
  <2>9. PICK d : d = [c EXCEPT !.sent = rest, !.retry = c.retry]
    OBVIOUS
  <2>10. Prepared = d
    BY <2>1, <2>6, <2>8, <2>9
  <2>11. /\ d.sent = rest /\ d.retry = c.retry /\ d.start = c.start /\ d.bars = c.bars /\ d.state = c.state
         /\ d \in Agreement
    BY <1>4, <2>7, <2>9 DEF Agreement, NoAgreement
  <2>12. Ordered(d, n)
    <3>1. \A i \in DOMAIN c.retry : InSent(d, c.retry[i])
      <4> TAKE i \in DOMAIN c.retry
      <4>1. PICK x \in DOMAIN c.sent : c.sent[x].seq = c.retry[i]
        BY <1>4 DEF InSent
      <4>2. PICK y \in DOMAIN rest : rest[y] = c.sent[x]
        BY <2>7
      <4> QED BY <2>11, <4>1, <4>2 DEF InSent
    <3> QED BY <1>4, <2>7, <2>11, <3>1 DEF Ordered
  <2>13. Less(d, a)
    BY <1>3, <2>7, <2>11, SMTT(30) DEF Less, Among
  <2>14. Gone(a, d) \subseteq Gone(a, c)
    BY <2>7, <2>11 DEF Gone, PacketsOf
  <2>15. Fresh(c.sent) \subseteq Fresh(rest) /\ SeqsOf(c.sent) \subseteq SeqsOf(rest)
    <3>1. \A x \in DOMAIN c.sent : \E i \in DOMAIN rest : rest[i].seq = c.sent[x].seq /\ rest[i].packet = c.sent[x].packet
      BY <2>7
    <3> QED BY <3>1 DEF Fresh, SeqsOf
  <2>16. a.sent # <<>>
    <3>1. SUFFICES ASSUME a.sent = <<>> PROVE FALSE
      OBVIOUS
    <3>2. c.sent = <<>>
      BY <1>3, <3>1 DEF Tidied
    <3>3. 1 \in DOMAIN c.retry /\ InSent(c, c.retry[1])
      BY <1>4, <2>2
    <3> QED BY <3>2, <3>3 DEF InSent
  <2>17. Tidied(a, d)
    <3>1. \A j \in DOMAIN rest : Draw(c.start) <= Draw(rest[j].seq)
      <4> TAKE j \in DOMAIN rest
      <4>1. PICK x \in DOMAIN c.sent : rest[j] = c.sent[x]
        BY <2>7 DEF Among
      <4> QED BY <1>3, <2>16, <4>1 DEF Tidied
    <3> QED BY <1>3, <2>11, <2>15, <2>16, <3>1 DEF Tidied
  <2> QED BY <1>2, <1>3, <2>10, <2>12, <2>13, <2>14, <2>17
<1> QED BY <1>5, <1>6

(* A packet with the next number goes to the end.                          *)
LEMMA StoreOrdered ==
  ASSUME HalfTheNumbers, NEW a, NEW item \in Item, Draw(item.seq) < Cardinality(Packet),
         Ordered(a, Draw(item.seq))
  PROVE  /\ Ordered(StorePacket(a, item), Draw(item.seq) + 1)
         /\ StorePacket(a, item).sent = Append(a.sent, item)
         /\ StorePacket(a, item) = [a EXCEPT !.sent = Append(a.sent, item)]
<1>1. PICK n : /\ n = Draw(item.seq) /\ n \in Nat /\ n < Cardinality(Packet) /\ item.seq \in Seqs
               /\ Cardinality(Packet) \in Nat
  BY SpaceType, DrawIs DEF Item
<1>2. /\ a \in Agreement /\ Rising(a.sent, n) /\ RisingSeqs(a.retry, n) /\ a.sent \in Seq(Item)
      /\ DOMAIN a = DOMAIN NoAgreement
      /\ \A i \in DOMAIN a.retry : InSent(a, a.retry[i]) /\ Draw(a.start) <= Draw(a.retry[i])
  BY <1>1, AgreementIs DEF Ordered
<1>3. \A i \in DOMAIN a.sent : /\ a.sent[i].seq \in Seqs /\ Draw(a.sent[i].seq) < n /\ Draw(a.sent[i].seq) \in Nat
                               /\ ~IsOld(a.sent[i].seq, item.seq)
  <2> TAKE i \in DOMAIN a.sent
  <2>1. PICK s : s = a.sent[i].seq
    OBVIOUS
  <2>2. s \in Seqs /\ Draw(s) < n
    <3>1. a.sent[i] \in Item
      BY <1>2
    <3> QED BY <1>2, <2>1, <3>1 DEF Rising, Item
  <2>3. Draw(s) \in Nat
    BY <2>2, DrawIs
  <2>4. Draw(s) < Cardinality(Packet) /\ ~(Draw(item.seq) < Draw(s))
    BY <1>1, <2>2, <2>3
  <2> QED BY <1>1, <2>1, <2>2, <2>3, <2>4, OldIs
<1>4. StorePacket(a, item) = [a EXCEPT !.sent = Append(a.sent, item)]
  <2>1. PICK I : I = {i \in 1..Len(a.sent) : IsOld(a.sent[i].seq, item.seq)}
    OBVIOUS
  <2>2. I = {}
    <3>1. DOMAIN a.sent = 1..Len(a.sent)
      BY <1>2
    <3> QED BY <1>3, <2>1, <3>1
  <2>3. InsertBefore(a.sent, item, LAMBDA q : IsOld(q.seq, item.seq)) = Append(a.sent, item)
    BY <2>1, <2>2 DEF InsertBefore, SelectInSeq
  <2> QED BY <2>3 DEF StorePacket
<1>5. PICK t : t = Append(a.sent, item)
  OBVIOUS
<1>6. PICK len \in Nat : /\ len = Len(a.sent) /\ DOMAIN a.sent = 1..len /\ t \in Seq(Item) /\ DOMAIN t = 1..(len + 1)
                         /\ \A i \in 1..len : t[i] = a.sent[i]
                         /\ t[len + 1] = item
  BY <1>2, <1>5
<1>7. Rising(t, n + 1)
  <2>1. \A i \in 1..len : Draw(t[i].seq) < n /\ Draw(t[i].seq) \in Nat
    BY <1>3, <1>6
  <2>2. \A i \in DOMAIN t : Draw(t[i].seq) < n + 1
    <3> TAKE i \in DOMAIN t
    <3>1. CASE i \in 1..len
      BY <1>1, <2>1, <3>1
    <3>2. CASE i = len + 1
      BY <1>1, <1>6, <3>2
    <3> QED BY <1>6, <3>1, <3>2
  <2>3. \A i, j \in DOMAIN t : i < j => Draw(t[i].seq) < Draw(t[j].seq)
    <3> SUFFICES ASSUME NEW i \in DOMAIN t, NEW j \in DOMAIN t, i < j PROVE Draw(t[i].seq) < Draw(t[j].seq)
      OBVIOUS
    <3>1. i \in 1..len /\ (j \in 1..len \/ j = len + 1)
      BY <1>6
    <3>2. CASE j \in 1..len
      BY <1>2, <1>6, <3>1, <3>2 DEF Rising
    <3>3. CASE j = len + 1
      BY <1>1, <1>6, <2>1, <3>1, <3>3
    <3> QED BY <3>1, <3>2, <3>3
  <2> QED BY <1>6, <2>2, <2>3 DEF Rising
<1>8. RisingSeqs(a.retry, n + 1)
  <2>1. \A i \in DOMAIN a.retry : a.retry[i] \in Seqs /\ Draw(a.retry[i]) < n
    BY <1>2 DEF RisingSeqs
  <2>2. \A i \in DOMAIN a.retry : Draw(a.retry[i]) < n + 1
    <3> TAKE i \in DOMAIN a.retry
    <3>1. PICK s : s = a.retry[i] /\ s \in Seqs /\ Draw(s) < n
      BY <2>1
    <3>2. Draw(s) \in Nat
      BY <3>1, DrawIs
    <3> QED BY <1>1, <3>1, <3>2
  <2> QED BY <1>2, <2>2 DEF RisingSeqs
<1>9. PICK d : /\ d = StorePacket(a, item) /\ d = [a EXCEPT !.sent = t]
  BY <1>4, <1>5
<1>10. /\ d.sent = t /\ d.retry = a.retry /\ d.start = a.start /\ d \in Agreement
  BY <1>2, <1>6, <1>9 DEF Agreement, NoAgreement
<1>11. \A i \in DOMAIN a.retry : InSent(d, a.retry[i])
  BY <1>2, <1>6, <1>10 DEF InSent
<1>12. Ordered(d, n + 1)
  BY <1>2, <1>7, <1>8, <1>10, <1>11 DEF Ordered
<1> QED BY <1>1, <1>4, <1>5, <1>9, <1>10, <1>12

(* t holds what s holds, and x.                                            *)
Joined(t, s, x) ==
  /\ \A i \in DOMAIN t : t[i] = x \/ \E j \in DOMAIN s : t[i] = s[j]
  /\ \A j \in DOMAIN s : \E i \in DOMAIN t : t[i] = s[j]
  /\ \E i \in DOMAIN t : t[i] = x

(* A number takes its place among those that wait to be sent again.        *)
LEMMA InsertOrdered ==
  ASSUME HalfTheNumbers, NEW n \in 0..Cardinality(Packet), NEW retry, RisingSeqs(retry, n),
         NEW s \in Seqs, Draw(s) < n, \A i \in DOMAIN retry : retry[i] # s
  PROVE  RisingSeqs(InsertInRetryQueue(retry, s), n) /\ Joined(InsertInRetryQueue(retry, s), retry, s)
<1>1. /\ retry \in Seq(Seqs) /\ n \in Nat /\ n <= Cardinality(Packet) /\ Cardinality(Packet) \in Nat
      /\ \A i, j \in DOMAIN retry : i < j => Draw(retry[i]) < Draw(retry[j])
      /\ \A i \in DOMAIN retry : Draw(retry[i]) < n
  BY SpaceType DEF RisingSeqs
<1>2. PICK len \in Nat : len = Len(retry) /\ DOMAIN retry = 1..len
  BY <1>1
<1>3. PICK ds \in Nat : ds = Draw(s) /\ ds < n
  BY DrawIs
<1>4. \A i \in DOMAIN retry : /\ retry[i] \in Seqs /\ Draw(retry[i]) \in Nat /\ Draw(retry[i]) # ds
                              /\ IsOld(retry[i], s) <=> ds < Draw(retry[i])
  <2> TAKE i \in DOMAIN retry
  <2>1. PICK q : q = retry[i] /\ q \in Seqs /\ Draw(q) < n /\ q # s
    BY <1>1
  <2>2. Draw(q) \in Nat /\ Draw(q) # ds
    BY <1>3, <2>1, DrawIs
  <2>3. Draw(q) < Cardinality(Packet) /\ Draw(s) < Cardinality(Packet)
    BY <1>1, <1>3, <2>1, <2>2
  <2> QED BY <1>3, <2>1, <2>2, <2>3, OldIs
<1>5. PICK I : I = {i \in 1..Len(retry) : IsOld(retry[i], s)}
  OBVIOUS
<1>6. I \subseteq 1..len
  BY <1>2, <1>5
<1>7. PICK t : t = InsertInRetryQueue(retry, s)
  OBVIOUS
<1>8. CASE I = {}
  <2>1. t = Append(retry, s)
    BY <1>5, <1>7, <1>8 DEF InsertInRetryQueue, InsertBefore, SelectInSeq
  <2>2. /\ t \in Seq(Seqs) /\ DOMAIN t = 1..(len + 1)
        /\ \A i \in 1..len : t[i] = retry[i]
        /\ t[len + 1] = s
    BY <1>1, <1>2, <2>1
  <2>3. \A i \in 1..len : Draw(t[i]) < ds
    BY <1>2, <1>3, <1>4, <1>5, <1>8, <2>2
  <2>4. \A i, j \in DOMAIN t : i < j => Draw(t[i]) < Draw(t[j])
    <3> SUFFICES ASSUME NEW i \in DOMAIN t, NEW j \in DOMAIN t, i < j PROVE Draw(t[i]) < Draw(t[j])
      OBVIOUS
    <3>1. i \in 1..len /\ (j \in 1..len \/ j = len + 1)
      BY <2>2
    <3> QED BY <1>1, <1>2, <1>3, <2>2, <2>3, <3>1
  <2>5. \A i \in DOMAIN t : Draw(t[i]) < n
    BY <1>1, <1>2, <1>3, <2>2
  <2>6. \A i \in DOMAIN t : t[i] = s \/ \E j \in DOMAIN retry : t[i] = retry[j]
    BY <1>2, <2>2
  <2>7. (\A j \in DOMAIN retry : \E i \in DOMAIN t : t[i] = retry[j]) /\ \E i \in DOMAIN t : t[i] = s
    <3>1. 1..len \subseteq DOMAIN t /\ len + 1 \in DOMAIN t
      BY <2>2
    <3> QED BY <1>2, <2>2, <3>1
  <2> QED BY <1>7, <2>2, <2>4, <2>5, <2>6, <2>7 DEF RisingSeqs, Joined
<1>9. CASE I # {}
  <2>1. PICK m : m = Min(I) /\ m \in I /\ m \in 1..len /\ \A k \in I : m <= k
    BY <1>6, <1>9, LeastPosition
  <2>2. t = InsertAt(retry, m, s)
    <3>1. SelectInSeq(retry, LAMBDA q : IsOld(q, s)) = m
      BY <1>5, <1>9, <2>1 DEF SelectInSeq
    <3>2. m # 0
      BY <2>1
    <3> QED BY <1>7, <3>1, <3>2 DEF InsertInRetryQueue, InsertBefore
  <2>3. /\ t \in Seq(Seqs) /\ Len(t) = len + 1 /\ t[m] = s
        /\ \A i \in 1..(m - 1) : t[i] = retry[i]
        /\ \A i \in m..len : t[i + 1] = retry[i]
    <3>1. m \in 1..Len(retry)
      BY <1>2, <2>1
    <3>2. retry \in Seq(Seqs) /\ s \in Seqs
      BY <1>1
    <3>3. InsertAt(retry, m, s) \in Seq(Seqs) /\ Insertion(InsertAt(retry, m, s), retry, m, s)
      BY <3>1, <3>2, InsertedIs
    <3> QED BY <1>2, <2>2, <3>3 DEF Insertion
  <2>4. DOMAIN t = 1..(len + 1)
    BY <2>3
  <2>5. \A i \in 1..(m - 1) : Draw(t[i]) < ds /\ Draw(t[i]) \in Nat
    <3> TAKE i \in 1..(m - 1)
    <3>1. i \in 1..len /\ i \notin I /\ i \in DOMAIN retry
      BY <1>2, <2>1
    <3>2. ~(ds < Draw(retry[i]))
      BY <1>2, <1>4, <1>5, <3>1
    <3> QED BY <1>3, <1>4, <2>3, <3>1, <3>2
  <2>6. \A i \in m..len : ds < Draw(retry[i]) /\ Draw(retry[i]) \in Nat
    <3> TAKE i \in m..len
    <3>1. m \in DOMAIN retry /\ i \in DOMAIN retry /\ (m = i \/ m < i)
      BY <1>2, <2>1
    <3>2. ds < Draw(retry[m])
      BY <1>4, <1>5, <2>1, <3>1
    <3>3. Draw(retry[m]) \in Nat /\ Draw(retry[i]) \in Nat /\ (m = i \/ Draw(retry[m]) < Draw(retry[i]))
      BY <1>1, <1>4, <3>1
    <3> QED BY <1>3, <3>2, <3>3
  <2>7. \A i \in (m + 1)..(len + 1) : i - 1 \in m..len /\ t[i] = retry[i - 1]
    <3> TAKE i \in (m + 1)..(len + 1)
    <3>1. i - 1 \in m..len /\ (i - 1) + 1 = i
      BY <2>1
    <3> QED BY <2>3, <3>1
  <2>8. \A i, j \in DOMAIN t : i < j => Draw(t[i]) < Draw(t[j])
    <3> SUFFICES ASSUME NEW i \in DOMAIN t, NEW j \in DOMAIN t, i < j PROVE Draw(t[i]) < Draw(t[j])
      OBVIOUS
    <3>1. i \in 1..(len + 1) /\ j \in 1..(len + 1) /\ m \in 1..len
      BY <2>1, <2>4
    <3>2. CASE j < m
      <4>1. i \in 1..(m - 1) /\ j \in 1..(m - 1) /\ i \in DOMAIN retry /\ j \in DOMAIN retry
        BY <1>2, <3>1, <3>2
      <4> QED BY <1>1, <2>3, <4>1
    <3>3. CASE j = m
      <4>1. i \in 1..(m - 1)
        BY <3>1, <3>3
      <4> QED BY <1>3, <2>3, <2>5, <3>3, <4>1
    <3>4. CASE m < j /\ i < m
      <4>1. i \in 1..(m - 1) /\ j \in (m + 1)..(len + 1)
        BY <3>1, <3>4
      <4>2. Draw(t[i]) < ds /\ Draw(t[i]) \in Nat /\ ds < Draw(t[j]) /\ Draw(t[j]) \in Nat
        BY <2>5, <2>6, <2>7, <4>1
      <4> QED BY <1>3, <4>2
    <3>5. CASE m < j /\ i = m
      <4>1. j \in (m + 1)..(len + 1)
        BY <3>1, <3>5
      <4> QED BY <1>3, <2>3, <2>6, <2>7, <3>5, <4>1
    <3>6. CASE m < j /\ m < i
      <4>1. i \in (m + 1)..(len + 1) /\ j \in (m + 1)..(len + 1) /\ i - 1 < j - 1
        BY <3>1, <3>6
      <4>2. i - 1 \in DOMAIN retry /\ j - 1 \in DOMAIN retry
        BY <1>2, <3>1, <4>1
      <4> QED BY <1>1, <2>7, <4>1, <4>2
    <3> QED BY <3>1, <3>2, <3>3, <3>4, <3>5, <3>6
  <2>9. \A i \in DOMAIN t : t[i] = s \/ \E j \in DOMAIN retry : t[i] = retry[j]
    <3> TAKE i \in DOMAIN t
    <3>1. i \in 1..(m - 1) \/ i = m \/ i \in (m + 1)..(len + 1)
      BY <2>1, <2>4
    <3>2. CASE i \in 1..(m - 1)
      <4>1. i \in DOMAIN retry
        BY <1>2, <2>1, <3>2
      <4> QED BY <2>3, <3>2, <4>1
    <3>3. CASE i \in (m + 1)..(len + 1)
      <4>1. i - 1 \in DOMAIN retry
        BY <1>2, <2>1, <3>3
      <4> QED BY <2>7, <3>3, <4>1
    <3> QED BY <2>3, <3>1, <3>2, <3>3
  <2>10. \A i \in DOMAIN t : Draw(t[i]) < n
    BY <1>1, <1>3, <2>9
  <2>11. \A j \in DOMAIN retry : \E i \in DOMAIN t : t[i] = retry[j]
    <3> TAKE j \in DOMAIN retry
    <3>1. CASE j \in 1..(m - 1)
      BY <2>1, <2>3, <2>4, <3>1
    <3>2. CASE j \in m..len
      <4>1. j + 1 \in DOMAIN t
        BY <2>1, <2>4, <3>2
      <4> QED BY <2>3, <3>2, <4>1
    <3> QED BY <1>2, <2>1, <3>1, <3>2
  <2>12. m \in DOMAIN t
    BY <2>1, <2>4
  <2> QED BY <1>7, <2>3, <2>8, <2>9, <2>10, <2>11, <2>12 DEF RisingSeqs, Joined
<1> QED BY <1>8, <1>9

(* The function that Retrying defines, up to k. *)
Stage(f, k, retry, items) ==
  f = [i \in 0..k |-> IF i = 0 THEN retry ELSE InsertInRetryQueue(f[i - 1], items[i].seq)]

(* A recursive function over an interval exists: else there were a first   *)
(* stage without one.                                                      *)
LEMMA StageExists ==
  ASSUME NEW retry, NEW items, NEW n \in Nat
  PROVE  \E f : Stage(f, n, retry, items)
<1>1. PICK T : T = {k \in 0..n : ~\E f : Stage(f, k, retry, items)}
  OBVIOUS
<1>2. CASE T = {}
  BY <1>1, <1>2
<1>3. CASE T # {}
  <2>1. PICK m : m \in T /\ \A k \in T : m <= k
    <3>1. T \subseteq Nat
      BY <1>1
    <3> QED BY <1>3, <3>1, Least
  <2>2. m \in 0..n /\ ~\E f : Stage(f, m, retry, items)
    BY <1>1, <2>1
  <2>3. m # 0
    <3>1. PICK f : f = [i \in 0..0 |-> retry]
      OBVIOUS
    <3>2. f = [i \in 0..0 |-> IF i = 0 THEN retry ELSE InsertInRetryQueue(f[i - 1], items[i].seq)]
      BY <3>1
    <3>3. Stage(f, 0, retry, items)
      BY <3>2 DEF Stage
    <3> QED BY <2>2, <3>3
  <2>4. PICK l : l \in Nat /\ m = l + 1 /\ l \in 0..n /\ ~(m <= l)
    <3>1. m - 1 \in Nat /\ m = (m - 1) + 1 /\ m - 1 \in 0..n /\ ~(m <= m - 1)
      BY <2>2, <2>3
    <3> QED BY <3>1
  <2>5. PICK f : Stage(f, l, retry, items)
    BY <1>1, <2>1, <2>4
  <2>6. PICK g : g = [i \in 0..m |-> IF i \in 0..l THEN f[i] ELSE InsertInRetryQueue(f[l], items[m].seq)]
    OBVIOUS
  <2>7. \A i \in 0..m : g[i] = IF i = 0 THEN retry ELSE InsertInRetryQueue(g[i - 1], items[i].seq)
    <3> TAKE i \in 0..m
    <3>1. CASE i \in 0..l
      <4>1. g[i] = f[i] /\ (i # 0 => i - 1 \in 0..l /\ i - 1 \in 0..m)
        BY <2>4, <2>6, <3>1
      <4>2. f[i] = IF i = 0 THEN retry ELSE InsertInRetryQueue(f[i - 1], items[i].seq)
        BY <2>5, <3>1 DEF Stage
      <4>3. i # 0 => g[i - 1] = f[i - 1]
        BY <2>6, <4>1
      <4> QED BY <4>1, <4>2, <4>3
    <3>2. CASE i = m
      <4>1. i \notin 0..l /\ i # 0 /\ i - 1 = l /\ l \in 0..l /\ l \in 0..m
        BY <2>4, <3>2
      <4> QED BY <2>6, <3>2, <4>1
    <3> QED BY <2>4, <3>1, <3>2
  <2>8. Stage(g, m, retry, items)
    BY <2>6, <2>7 DEF Stage
  <2> QED BY <2>2, <2>8
<1> QED BY <1>2, <1>3

LEMMA RetryingStage ==
  ASSUME NEW retry, NEW items
  PROVE  (\E f : Stage(f, Len(items), retry, items)) =>
           \E f : Stage(f, Len(items), retry, items) /\ Retrying(retry, items) = f[Len(items)]
  BY DEF Stage, Retrying

(* All that is missing waits to be sent again, in order and once.          *)
From(s, retry, items) ==
  /\ \A i \in DOMAIN s : \/ \E j \in DOMAIN retry : s[i] = retry[j]
                         \/ \E j \in DOMAIN items : s[i] = items[j].seq
  /\ \A j \in DOMAIN retry : \E i \in DOMAIN s : s[i] = retry[j]
  /\ \A j \in DOMAIN items : \E i \in DOMAIN s : s[i] = items[j].seq

LEMMA RetryingOrdered ==
  ASSUME HalfTheNumbers, NEW n \in 0..Cardinality(Packet), NEW retry, RisingSeqs(retry, n),
         NEW items, Rising(items, n),
         \A i \in DOMAIN items, j \in DOMAIN retry : items[i].seq # retry[j]
  PROVE  RisingSeqs(Retrying(retry, items), n) /\ From(Retrying(retry, items), retry, items)
<1>1. PICK len \in Nat : len = Len(items) /\ DOMAIN items = 1..len
  BY DEF Rising
<1>2. PICK f : Stage(f, len, retry, items) /\ Retrying(retry, items) = f[len]
  <2>1. \E f : Stage(f, Len(items), retry, items)
    BY <1>1, StageExists
  <2> QED BY <1>1, <2>1, RetryingStage
<1>3. \A i \in 0..len : f[i] = IF i = 0 THEN retry ELSE InsertInRetryQueue(f[i - 1], items[i].seq)
  BY <1>2 DEF Stage
<1> DEFINE Partly(s, k) == /\ \A i \in DOMAIN s : \/ \E j \in DOMAIN retry : s[i] = retry[j]
                                                  \/ \E j \in 1..k : s[i] = items[j].seq
                           /\ \A j \in DOMAIN retry : \E i \in DOMAIN s : s[i] = retry[j]
                           /\ \A j \in 1..k : \E i \in DOMAIN s : s[i] = items[j].seq
<1>4. PICK T : T = {k \in 0..len : ~(RisingSeqs(f[k], n) /\ Partly(f[k], k))}
  OBVIOUS
<1>5. T = {}
  <2>1. SUFFICES ASSUME T # {} PROVE FALSE
    OBVIOUS
  <2>2. PICK m : m \in T /\ \A k \in T : m <= k
    <3>1. T \subseteq Nat
      BY <1>4
    <3> QED BY <2>1, <3>1, Least
  <2>3. m \in 0..len /\ ~(RisingSeqs(f[m], n) /\ Partly(f[m], m))
    BY <1>4, <2>2
  <2>4. m # 0
    <3>1. 0 \in 0..len
      BY <1>1
    <3>2. f[0] = retry
      BY <1>3, <3>1
    <3>3. Partly(retry, 0)
      <4>1. 1..0 = {}
        OBVIOUS
      <4> QED BY <4>1
    <3> QED BY <2>3, <3>2, <3>3
  <2>5. PICK l : l \in Nat /\ m = l + 1 /\ l \in 0..len /\ l \notin T /\ m \in 1..len
    <3>1. m - 1 \in Nat /\ m = (m - 1) + 1 /\ m - 1 \in 0..len /\ ~(m <= m - 1) /\ m \in 1..len
      BY <1>1, <2>3, <2>4
    <3>2. m - 1 \notin T
      BY <2>2, <3>1
    <3> QED BY <3>1, <3>2
  <2>6. PICK before : before = f[l] /\ RisingSeqs(before, n) /\ Partly(before, l)
    BY <1>4, <2>5
  <2>7. PICK s : s = items[m].seq /\ s \in Seqs /\ Draw(s) < n /\ m \in DOMAIN items
    <3>1. m \in DOMAIN items
      BY <1>1, <2>5
    <3>2. items[m] \in Item
      BY <3>1 DEF Rising
    <3> QED BY <3>1, <3>2 DEF Rising, Item
  <2>8. f[m] = InsertInRetryQueue(before, s)
    <3>1. m - 1 = l
      BY <2>5
    <3> QED BY <1>3, <2>3, <2>4, <2>6, <2>7, <3>1
  <2>9. \A i \in DOMAIN before : before[i] # s
    <3>1. \A j \in 1..l : items[j].seq # s
      <4> TAKE j \in 1..l
      <4>1. j \in DOMAIN items /\ j < m
        BY <1>1, <2>5
      <4>2. Draw(items[j].seq) < Draw(s) /\ items[j] \in Item
        BY <2>7, <4>1 DEF Rising
      <4>3. items[j].seq \in Seqs
        BY <4>2 DEF Item
      <4>4. Draw(items[j].seq) \in Nat /\ Draw(s) \in Nat
        BY <2>7, <4>3, DrawIs
      <4>5. SUFFICES ASSUME items[j].seq = s PROVE FALSE
        OBVIOUS
      <4> QED BY <4>2, <4>4, <4>5
    <3> QED BY <2>6, <2>7, <3>1
  <2>10. PICK t : /\ t = InsertInRetryQueue(before, s) /\ RisingSeqs(t, n)
                  /\ \A i \in DOMAIN t : t[i] = s \/ \E j \in DOMAIN before : t[i] = before[j]
                  /\ \A j \in DOMAIN before : \E i \in DOMAIN t : t[i] = before[j]
                  /\ \E i \in DOMAIN t : t[i] = s
    BY <2>6, <2>7, <2>9, InsertOrdered DEF Joined
  <2>11. /\ \A j \in DOMAIN retry : \E i \in DOMAIN t : t[i] = retry[j]
         /\ \A j \in 1..m : \E i \in DOMAIN t : t[i] = items[j].seq
    <3>1. \A j \in 1..m : j \in 1..l \/ j = m
      BY <2>5
    <3>2. \A j \in DOMAIN retry : \E i \in DOMAIN t : t[i] = retry[j]
      BY <2>6, <2>10
    <3>3. \A j \in 1..l : \E i \in DOMAIN t : t[i] = items[j].seq
      BY <2>6, <2>10
    <3> QED BY <2>7, <2>10, <3>1, <3>2, <3>3
  <2>12. Partly(t, m)
    <3> SUFFICES ASSUME NEW i \in DOMAIN t
                 PROVE  \/ \E j \in DOMAIN retry : t[i] = retry[j]
                        \/ \E j \in 1..m : t[i] = items[j].seq
      BY <2>11
    <3>1. CASE t[i] = s
      <4>1. m \in 1..m
        BY <2>5
      <4> QED BY <2>7, <3>1, <4>1
    <3>2. CASE \E j \in DOMAIN before : t[i] = before[j]
      <4>1. 1..l \subseteq 1..m
        BY <2>5
      <4> QED BY <2>6, <3>2, <4>1
    <3> QED BY <2>10, <3>1, <3>2
  <2> QED BY <2>3, <2>8, <2>10, <2>12
<1>6. len \in 0..len
  BY <1>1
<1>7. RisingSeqs(f[len], n) /\ Partly(f[len], len)
  BY <1>4, <1>5, <1>6
<1>8. From(f[len], retry, items)
  BY <1>1, <1>7 DEF From
<1> QED BY <1>2, <1>7, <1>8

-----------------------------------------------------------------------------
(* Block ack requests.                                                     *)

(* No retry is in the window that begins at z.                             *)
Outside(a, z) == \A i \in DOMAIN a.retry : ~IsInWindow(a.retry[i], z)
Asked(a) == a.bars = <<>> \/ \E z \in Seqs : a.bars = <<z>> /\ Outside(a, z)

(* The number at the front decides for all of them.                        *)
LEMMA TransmissionOrdered ==
  ASSUME NEW n \in Nat, NEW a, Ordered(a, n), a.bars = <<>>, NEW next \in Seqs, NEW rest
  PROVE  /\ Ordered(NotifyMpduTransmission(a, next, rest), n)
         /\ Asked(NotifyMpduTransmission(a, next, rest))
         /\ NotifyMpduTransmission(a, next, rest).state = a.state
         /\ NotifyMpduTransmission(a, next, rest).sent = a.sent
         /\ NotifyMpduTransmission(a, next, rest).retry = a.retry
<1>1. /\ a \in Agreement /\ RisingSeqs(a.retry, n) /\ a.retry \in Seq(Seqs) /\ a.start \in Seqs
      /\ a.needBar = FALSE /\ DOMAIN a = DOMAIN NoAgreement
      /\ \A i \in DOMAIN a.retry : InSent(a, a.retry[i]) /\ Draw(a.start) <= Draw(a.retry[i])
  BY AgreementIs DEF Ordered
<1>2. PICK s, b : /\ s = IF a.retry # <<>> THEN a.retry[1] ELSE next
                  /\ b = NotifyMpduTransmission(a, next, rest)
  OBVIOUS
<1>3. CASE Dist(s, a.start) >= Window \/ (a.retry = <<>> /\ rest = <<>>)
  <2>1. b = [a EXCEPT !.needBar = FALSE, !.bars = Append(@, a.start)]
    BY <1>2, <1>3 DEF NotifyMpduTransmission
  <2>2. /\ b.sent = a.sent /\ b.retry = a.retry /\ b.start = a.start /\ b.state = a.state
        /\ b.bars = Append(a.bars, a.start)
    BY <1>1, <2>1 DEF NoAgreement
  <2>3. b.bars = <<a.start>>
    BY <2>2
  <2>4. b \in Agreement
    <3>1. Append(a.bars, a.start) \in Seq(Seqs)
      BY <1>1, AgreementIs
    <3> QED BY <1>1, <2>1, <3>1 DEF Agreement
  <2>5. Ordered(b, n)
    BY <1>1, <2>2, <2>4 DEF Ordered, InSent
  <2>6. Outside(b, a.start)
    <3> SUFFICES ASSUME NEW i \in DOMAIN a.retry PROVE ~(Dist(a.retry[i], a.start) < Window)
      BY <2>2 DEF Outside, IsInWindow
    <3>1. a.retry # <<>> /\ 1 \in DOMAIN a.retry /\ (i = 1 \/ 1 < i)
      BY <1>1
    <3>2. PICK f, q, z : f = a.retry[1] /\ q = a.retry[i] /\ z = a.start /\ f \in Seqs /\ q \in Seqs /\ z \in Seqs
      BY <1>1, <3>1
    <3>3. Dist(f, z) >= Window
      BY <1>2, <1>3, <3>1, <3>2
    <3>4. Draw(z) <= Draw(f) /\ (f = q \/ Draw(f) < Draw(q))
      BY <1>1, <3>1, <3>2 DEF RisingSeqs
    <3>5. PICK df \in Nat, dq \in Nat, dz \in Nat : df = Draw(f) /\ dq = Draw(q) /\ dz = Draw(z)
      BY <3>2, DrawIs
    <3>6. dz <= df /\ df <= dq
      BY <3>4, <3>5
    <3>7. Dist(f, z) = df - dz /\ Dist(q, z) = dq - dz
      <4>1. ~(df < dz) /\ ~(dq < dz)
        BY <3>5, <3>6
      <4> QED BY <3>2, <3>5, <4>1, DrawIs
    <3>8. Window \in Nat
      BY SpaceType
    <3>9. df - dz >= Window
      BY <3>3, <3>7
    <3>10. ~(dq - dz < Window)
      BY <3>5, <3>6, <3>8, <3>9
    <3> QED BY <3>2, <3>7, <3>10
  <2> QED BY <1>1, <1>2, <2>2, <2>3, <2>5, <2>6 DEF Asked
<1>4. CASE ~(Dist(s, a.start) >= Window \/ (a.retry = <<>> /\ rest = <<>>))
  <2>1. b = [a EXCEPT !.needBar = FALSE]
    BY <1>1, <1>2, <1>4 DEF NotifyMpduTransmission
  <2>2. b = a
    BY <1>1, <2>1 DEF Agreement
  <2> QED BY <1>2, <2>2 DEF Asked
<1> QED BY <1>3, <1>4

(* Every item is among the numbers.                                        *)
Retries(seqs, items) == \A x \in DOMAIN items : \E i \in DOMAIN seqs : seqs[i] = items[x].seq

(* What the bitmap of a block ack covers leaves the agreement; the rest is *)
(* to be sent again.                                                       *)
LEMMA BlockAckOrdered ==
  ASSUME HalfTheNumbers, nextSeq \in Seqs, NEW n \in 0..Cardinality(Packet), NEW a, Ordered(a, n),
         a.state = "established", NEW acked, \A i \in DOMAIN a.retry : a.retry[i] \notin acked
  PROVE  /\ Ordered(NotifyGotBlockAck(a, acked), n)
         /\ NotifyGotBlockAck(a, acked).state = "established"
         /\ NotifyGotBlockAck(a, acked).bars = a.bars
         /\ NotifyGotBlockAck(a, acked).sent = Without(a.sent, acked)
         /\ Retries(NotifyGotBlockAck(a, acked).retry, Without(a.sent, acked))
         /\ NotifyGotBlockAck(a, acked).start =
              IF Without(a.sent, acked) # <<>> THEN Without(a.sent, acked)[1].seq
              ELSE IF Len(queue) + Len(Without(a.sent, acked)) >= Threshold THEN nextSeq ELSE a.start
<1>1. /\ a \in Agreement /\ Rising(a.sent, n) /\ RisingSeqs(a.retry, n) /\ a.sent \in Seq(Item)
      /\ a.retry \in Seq(Seqs) /\ a.start \in Seqs /\ a.needBar = FALSE /\ DOMAIN a = DOMAIN NoAgreement
      /\ \A i \in DOMAIN a.retry : InSent(a, a.retry[i]) /\ Draw(a.start) <= Draw(a.retry[i])
  BY AgreementIs DEF Ordered
<1>2. PICK lost : lost = Without(a.sent, acked)
  OBVIOUS
<1>3. /\ lost \in Seq(Item) /\ Rising(lost, n) /\ Among(lost, a.sent)
      /\ \A x \in DOMAIN a.sent : a.sent[x].seq \notin acked => \E i \in DOMAIN lost : lost[i] = a.sent[x]
  <2>1. /\ lost \in Seq(Item) /\ Part(lost, a.sent)
        /\ \A x \in DOMAIN a.sent : a.sent[x].seq \notin acked => \E i \in DOMAIN lost : lost[i] = a.sent[x]
    BY <1>1, <1>2, WithoutPart
  <2> QED BY <1>1, <2>1, PartRising
<1>4. PICK more : more = Without(lost, ToSet(a.retry))
  OBVIOUS
<1>5. /\ more \in Seq(Item) /\ Rising(more, n) /\ Among(more, lost)
      /\ \A i \in DOMAIN more, j \in DOMAIN a.retry : more[i].seq # a.retry[j]
      /\ \A x \in DOMAIN lost : lost[x].seq \notin ToSet(a.retry) => \E i \in DOMAIN more : more[i] = lost[x]
  <2>1. /\ more \in Seq(Item) /\ Part(more, lost)
        /\ \A i \in DOMAIN more : more[i].seq \notin ToSet(a.retry)
        /\ \A x \in DOMAIN lost : lost[x].seq \notin ToSet(a.retry) => \E i \in DOMAIN more : more[i] = lost[x]
    BY <1>3, <1>4, WithoutPart
  <2>2. \A j \in DOMAIN a.retry : a.retry[j] \in ToSet(a.retry)
    BY DEF ToSet
  <2> QED BY <1>3, <2>1, <2>2, PartRising
<1>6. PICK retry : retry = Retrying(a.retry, more)
  OBVIOUS
<1>7. RisingSeqs(retry, n) /\ From(retry, a.retry, more) /\ retry \in Seq(Seqs)
  <2>1. RisingSeqs(retry, n) /\ From(retry, a.retry, more)
    BY <1>1, <1>5, <1>6, RetryingOrdered
  <2> QED BY <2>1 DEF RisingSeqs
<1>8. \A i \in DOMAIN retry : \E x \in DOMAIN lost : lost[x].seq = retry[i]
  <2> TAKE i \in DOMAIN retry
  <2>1. CASE \E j \in DOMAIN a.retry : retry[i] = a.retry[j]
    <3>1. PICK x \in DOMAIN a.sent : a.sent[x].seq = retry[i] /\ retry[i] \notin acked
      BY <1>1, <2>1 DEF InSent
    <3> QED BY <1>3, <3>1
  <2>2. CASE \E j \in DOMAIN more : retry[i] = more[j].seq
    BY <1>5, <2>2 DEF Among
  <2> QED BY <1>7, <2>1, <2>2 DEF From
<1>19. Retries(retry, lost)
  <2> SUFFICES \A x \in DOMAIN lost : \E i \in DOMAIN retry : retry[i] = lost[x].seq
    BY DEF Retries
  <2> TAKE x \in DOMAIN lost
  <2>1. CASE lost[x].seq \in ToSet(a.retry)
    <3>1. PICK j \in DOMAIN a.retry : a.retry[j] = lost[x].seq
      BY <2>1 DEF ToSet
    <3> QED BY <1>7, <3>1 DEF From
  <2>2. CASE lost[x].seq \notin ToSet(a.retry)
    <3>1. PICK j \in DOMAIN more : more[j] = lost[x]
      BY <1>5, <2>2
    <3> QED BY <1>7, <3>1 DEF From
  <2> QED BY <2>1, <2>2
<1>9. \A x \in DOMAIN lost : /\ lost[x].seq \in Seqs /\ 1 \in DOMAIN lost /\ lost[1].seq \in Seqs
                             /\ Draw(lost[1].seq) <= Draw(lost[x].seq)
  <2> TAKE x \in DOMAIN lost
  <2>1. lost[1] \in Item /\ lost[x] \in Item /\ x \in Nat /\ 1 \in DOMAIN lost /\ 1 <= x
    BY <1>3
  <2>2. lost[1].seq \in Seqs /\ lost[x].seq \in Seqs
    BY <2>1 DEF Item
  <2>3. Draw(lost[1].seq) \in Nat /\ Draw(lost[x].seq) \in Nat
    BY <2>2, DrawIs
  <2>4. x = 1 \/ Draw(lost[1].seq) < Draw(lost[x].seq)
    BY <1>3, <2>1 DEF Rising
  <2> QED BY <2>1, <2>2, <2>3, <2>4
<1>10. lost = <<>> => retry = <<>>
  <2>1. SUFFICES ASSUME lost = <<>>, retry # <<>> PROVE FALSE
    OBVIOUS
  <2>2. 1 \in DOMAIN retry
    BY <1>7, <2>1
  <2> QED BY <1>8, <2>1, <2>2
<1>11. PICK b : b = [a EXCEPT !.sent = lost, !.start = IF lost = <<>> THEN @ ELSE lost[1].seq, !.retry = retry]
  OBVIOUS
<1>12. PICK first, c : /\ first = IF lost = <<>> THEN nextSeq ELSE lost[1].seq
                       /\ c = NotifyGotBlockAck(a, acked)
  OBVIOUS
<1>13. c = IF Enough(b) THEN SwitchToBlockAck(b, first) ELSE [b EXCEPT !.needBar = FALSE]
  BY <1>2, <1>4, <1>6, <1>11, <1>12 DEF NotifyGotBlockAck
<1>14. lost # <<>> => lost[1].seq \in Seqs
  <2>1. SUFFICES ASSUME lost # <<>> PROVE lost[1].seq \in Seqs
    OBVIOUS
  <2>2. 1 \in DOMAIN lost
    BY <1>3, <2>1
  <2> QED BY <1>9, <2>2
<1>15. /\ b \in Agreement /\ b.state = "established" /\ b.sent = lost /\ b.retry = retry /\ b.bars = a.bars
       /\ b.needBar = FALSE /\ DOMAIN b = DOMAIN NoAgreement
       /\ b.start = IF lost # <<>> THEN lost[1].seq ELSE a.start
  <2>1. /\ b.state = "established" /\ b.sent = lost /\ b.retry = retry /\ b.bars = a.bars
        /\ b.needBar = FALSE /\ b.start = IF lost = <<>> THEN a.start ELSE lost[1].seq
    BY <1>1, <1>11 DEF NoAgreement
  <2>2. PICK start : start = b.start /\ start \in Seqs
    BY <1>1, <1>14, <2>1
  <2>3. b = [a EXCEPT !.sent = lost, !.start = start, !.retry = retry]
    BY <1>11, <2>1, <2>2
  <2>4. b \in Agreement
    BY <1>1, <1>3, <1>7, <2>2, <2>3 DEF Agreement
  <2> QED BY <2>1, <2>4, AgreementIs
<1>16. /\ c \in Agreement /\ c.state = "established" /\ c.sent = lost /\ c.retry = retry /\ c.bars = a.bars
       /\ c.start = IF lost # <<>> THEN lost[1].seq
                    ELSE IF Len(queue) + Len(lost) >= Threshold THEN nextSeq ELSE a.start
  <2>3. Enough(b) <=> Len(queue) + Len(lost) >= Threshold
    BY <1>15 DEF Enough
  <2>1. CASE Enough(b)
    <3>1. c = [b EXCEPT !.state = "established", !.start = first]
      BY <1>13, <1>15, <2>1 DEF SwitchToBlockAck
    <3>2. first \in Seqs
      BY <1>12, <1>14
    <3>3. c \in Agreement
      BY <1>15, <3>1, <3>2 DEF Agreement
    <3>4. c.state = "established" /\ c.sent = b.sent /\ c.retry = b.retry /\ c.bars = b.bars /\ c.start = first
      BY <1>15, <3>1 DEF NoAgreement
    <3> QED BY <1>12, <1>15, <2>1, <2>3, <3>3, <3>4
  <2>2. CASE ~Enough(b)
    <3>1. c = [b EXCEPT !.needBar = FALSE]
      BY <1>13, <2>2
    <3>2. c = b
      BY <1>15, <3>1 DEF Agreement
    <3> QED BY <1>15, <2>2, <2>3, <3>2
  <2> QED BY <2>1, <2>2
<1>17. \A i \in DOMAIN retry : InSent(c, retry[i]) /\ Draw(c.start) <= Draw(retry[i])
  <2> TAKE i \in DOMAIN retry
  <2>1. PICK x \in DOMAIN lost : lost[x].seq = retry[i]
    BY <1>8
  <2>2. lost # <<>>
    <3>1. retry # <<>>
      BY <1>7
    <3> QED BY <1>10, <3>1
  <2> QED BY <1>9, <1>16, <2>1, <2>2 DEF InSent
<1>18. Ordered(c, n)
  BY <1>3, <1>7, <1>16, <1>17 DEF Ordered
<1> QED BY <1>2, <1>12, <1>16, <1>18, <1>19

(* The packets that have a number come before those in the queue.          *)
Numbered == /\ queue \in Seq(Packet) /\ nextSeq \in Seqs /\ expired \in Nat
            /\ offered \in 0..Cardinality(Packet) /\ Draw(nextSeq) + Len(queue) <= offered

(* A request in service, and its answer, cover nothing that waits to be    *)
(* sent again.                                                             *)
Requested == cur.kind = "bar" => ba.bars = <<>> /\ cur.start \in Seqs /\ Outside(ba, cur.start)
Answering == /\ air.kind \in {"bar", "ba"} => cur.kind = "bar" /\ air.start = cur.start
             /\ air.kind = "ba" => \A s \in air.acked : IsInWindow(s, air.start)

WindowInv == /\ PacketInv /\ Numbered /\ Ordered(ba, Draw(nextSeq))
             /\ Asked(ba) /\ Requested /\ Answering

LEMMA NumberedIs ==
  ASSUME Numbered
  PROVE  /\ Draw(nextSeq) \in 0..Cardinality(Packet) /\ Draw(nextSeq) \in Nat /\ Len(queue) \in Nat
         /\ queue # <<>> => Draw(nextSeq) < Cardinality(Packet) /\ Len(queue) \in Nat \ {0}
<1>1. nextSeq \in Seqs /\ queue \in Seq(Packet) /\ offered \in 0..Cardinality(Packet)
  BY DEF Numbered
<1>2. PICK d \in Nat, q \in Nat, c \in Nat : d = Draw(nextSeq) /\ q = Len(queue) /\ c = Cardinality(Packet)
  <2>1. PICK s : s = nextSeq /\ s \in Seqs
    BY <1>1
  <2> QED BY <1>1, <2>1, DrawIs, SpaceType
<1>3. offered \in Nat /\ offered <= c /\ d + q <= offered
  BY <1>1, <1>2 DEF Numbered
<1>4. queue # <<>> => q # 0
  BY <1>1, <1>2
<1>5. d \in 0..c /\ (q # 0 => d < c)
  BY <1>2, <1>3
<1> QED BY <1>2, <1>4, <1>5

LEMMA Rest ==
  ASSUME NEW S, NEW q \in Seq(S), q # <<>>
  PROVE  /\ Head(q) \in S /\ Tail(q) \in Seq(S) /\ Len(q) \in Nat \ {0} /\ Len(Tail(q)) = Len(q) - 1
         /\ \A i \in DOMAIN Tail(q) : i + 1 \in DOMAIN q /\ Tail(q)[i] = q[i + 1]
         /\ 1 \in DOMAIN q /\ Head(q) = q[1]
<1>1. Tail(q) \in Seq(S) /\ Len(Tail(q)) = Len(q) - 1 /\ \A i \in 1..Len(Tail(q)) : Tail(q)[i] = q[i + 1]
  BY HeadTailProperties
<1>2. Len(q) \in Nat \ {0} /\ DOMAIN q = 1..Len(q) /\ Head(q) = q[1] /\ q[1] \in S
  OBVIOUS
<1>3. DOMAIN Tail(q) = 1..(Len(q) - 1)
  BY <1>1
<1>4. \A i \in DOMAIN Tail(q) : i + 1 \in DOMAIN q
  BY <1>2, <1>3
<1>5. 1 \in DOMAIN q
  BY <1>2
<1> QED BY <1>1, <1>2, <1>3, <1>4, <1>5

LEMMA LessOutside ==
  ASSUME NEW a, NEW b, Among(b.retry, a.retry)
  PROVE  /\ \A z : Outside(a, z) => Outside(b, z)
         /\ Asked(a) /\ b.bars = a.bars => Asked(b)
<1>1. \A z : Outside(a, z) => Outside(b, z)
  BY DEF Among, Outside
<1> QED BY <1>1 DEF Asked

LEMMA SameAmong == \A s : Among(s, s)
  BY DEF Among

(* A step that sends no request.                                           *)
LEMMA NoRequest ==
  ASSUME WindowInv, PacketInv', Numbered', Ordered(ba, Draw(nextSeq))',
         ba'.bars = ba.bars \/ Asked(ba)', Among(ba'.retry, ba.retry) \/ Asked(ba)',
         cur'.kind # "bar" \/ (cur' = cur /\ ba'.bars = ba.bars /\ Among(ba'.retry, ba.retry)),
         air'.kind \notin {"bar", "ba"} \/ Answering'
  PROVE  WindowInv'
<1>1. PICK a, b : a = ba /\ b = ba'
  OBVIOUS
<1>2. Asked(b)
  BY <1>1, LessOutside DEF WindowInv
<1>3. Requested'
  BY <1>1, LessOutside DEF WindowInv, Requested
<1> QED BY <1>1, <1>2, <1>3 DEF WindowInv, Answering

LEMMA NumberedSteps ==
  ASSUME WindowInv,
         \/ UNCHANGED <<queue, nextSeq, offered, expired>>
         \/ Queue \/ Expire
  PROVE  Numbered'
<1>1. /\ queue \in Seq(Packet) /\ nextSeq \in Seqs /\ expired \in Nat /\ Len(queue) \in Nat
      /\ Draw(nextSeq) \in Nat /\ offered \in Nat /\ offered <= Cardinality(Packet)
      /\ Draw(nextSeq) + Len(queue) <= offered /\ Cardinality(Packet) \in Nat /\ Packet = 1..Cardinality(Packet)
  BY NumberedIs, SpaceType DEF WindowInv, Numbered
<1>2. CASE UNCHANGED <<queue, nextSeq, offered, expired>>
  BY <1>1, <1>2 DEF Numbered
<1>3. CASE Queue
  <2>1. /\ offered < Cardinality(Packet) /\ offered' = offered + 1 /\ queue' = Append(queue, offered + 1)
        /\ nextSeq' = nextSeq /\ expired' = expired
    BY <1>3 DEF Queue
  <2>2. offered + 1 \in Packet /\ offered' \in 0..Cardinality(Packet)
    BY <1>1, <2>1
  <2>3. queue' \in Seq(Packet) /\ Len(queue') = Len(queue) + 1
    BY <1>1, <2>1, <2>2
  <2>4. Draw(nextSeq) + Len(queue') <= offered'
    BY <1>1, <2>1, <2>3
  <2> QED BY <1>1, <2>1, <2>2, <2>3, <2>4 DEF Numbered
<1>4. CASE Expire
  <2>1. expired' = expired + 1 /\ UNCHANGED <<offered, nextSeq>> /\ (queue' = queue \/ (queue # <<>> /\ queue' = Tail(queue)))
    BY <1>4 DEF Expire
  <2>2. queue' \in Seq(Packet) /\ Len(queue') \in Nat /\ Len(queue') <= Len(queue)
    <3>1. CASE queue' = queue
      BY <1>1, <3>1, SMTT(30)
    <3>2. CASE queue # <<>> /\ queue' = Tail(queue)
      <4>1. PICK t : t = Tail(queue) /\ t \in Seq(Packet) /\ Len(queue) \in Nat \ {0} /\ Len(t) = Len(queue) - 1
        <5>1. PICK q : q = queue /\ q \in Seq(Packet) /\ q # <<>>
          BY <1>1, <3>2
        <5> QED BY <5>1, Rest
      <4>2. Len(t) \in Nat /\ Len(t) <= Len(queue)
        BY <4>1
      <4> QED BY <3>2, <4>1, <4>2, Zenon
    <3> QED BY <2>1, <3>1, <3>2
  <2>3. Draw(nextSeq) + Len(queue') <= offered
    BY <1>1, <2>2
  <2> QED BY <1>1, <2>1, <2>2, <2>3 DEF Numbered
<1> QED BY <1>2, <1>3, <1>4

(* Steps that leave the agreement of the originator alone.                 *)
LEMMA OutsideSteps ==
  ASSUME WindowInv, PacketInv',
         \/ Queue \/ Expire \/ Lose \/ Resend \/ EndTxNoAck \/ SendReply \/ ReceiveUnderBlockAck
         \/ ReceiveUnderNormalAck \/ ReceiveBlockAckReq \/ ReceiveAddBaRequest \/ ReceiveDelBa \/ ReplyGotAck
         \/ MissedAck \/ ReplyMissedAck
         \/ \E side \in {"originator", "recipient"} : InactivityTimeout(side)
  PROVE  WindowInv'
<1>1. UNCHANGED <<ba, nextSeq>> /\ Numbered'
  <2>1. \/ UNCHANGED <<queue, nextSeq, offered, expired>>
        \/ Queue \/ Expire
    BY DEF Lose, Resend, EndTxNoAck, SendReply, ReceiveUnderBlockAck, ReceiveUnderNormalAck, ReceiveBlockAckReq,
           ReceiveAddBaRequest, ReceiveDelBa, ReplyGotAck, MissedAck, ReplyMissedAck, InactivityTimeout,
           NothingElseSent, NothingElseReceived, sender, medium
  <2>2. UNCHANGED <<ba, nextSeq>>
    BY DEF Queue, Expire, Lose, Resend, EndTxNoAck, SendReply, ReceiveUnderBlockAck, ReceiveUnderNormalAck,
           ReceiveBlockAckReq, ReceiveAddBaRequest, ReceiveDelBa, ReplyGotAck, MissedAck, ReplyMissedAck,
           InactivityTimeout, NothingElseSent, NothingElseReceived, sender, medium
  <2> QED BY <2>1, <2>2, NumberedSteps
<1>2. Ordered(ba, Draw(nextSeq))' /\ Among(ba'.retry, ba.retry) /\ ba'.bars = ba.bars
  BY <1>1, SameAmong DEF WindowInv
<1>3. cur'.kind # "bar" \/ cur' = cur
  <2>1. \/ cur' = cur \/ cur' = NoFrame
        \/ cur.kind = "data" /\ cur' = [cur EXCEPT !.item.retry = TRUE]
    BY DEF Queue, Expire, Lose, Resend, Transmit, EndTxNoAck, SendReply, ReceiveUnderBlockAck, ReceiveUnderNormalAck,
           ReceiveBlockAckReq, ReceiveAddBaRequest, ReceiveDelBa, ReplyGotAck, MissedAck, ReplyMissedAck,
           InactivityTimeout, NothingElseSent, NothingElseReceived, sender, medium
  <2>2. CASE cur.kind = "data" /\ cur' = [cur EXCEPT !.item.retry = TRUE]
    <3>1. cur'.kind = cur.kind
      BY <2>2
    <3> QED BY <2>2, <3>1
  <2> QED BY <2>1, <2>2, Kinds
<1>4. air'.kind \notin {"bar", "ba"} \/ Answering'
  <2>1. CASE Resend
    <3>1. air' = cur /\ cur' = cur /\ cur.kind # "ba"
      BY <2>1 DEF Resend, Transmit, WindowInv, PacketInv, Serving
    <3> QED BY <3>1 DEF Answering
  <2>2. CASE ReceiveBlockAckReq
    <3>1. /\ air.kind = "bar" /\ cur' = cur
          /\ \/ air' = NoFrame
             \/ \E c : air' = [kind |-> "ba", start |-> air.start, acked |-> FillBlockAckBitmap(c, air.start)]
      BY <2>2 DEF ReceiveBlockAckReq, NothingElseReceived, sender
    <3>2. CASE \E c : air' = [kind |-> "ba", start |-> air.start, acked |-> FillBlockAckBitmap(c, air.start)]
      <4>1. PICK c : air' = [kind |-> "ba", start |-> air.start, acked |-> FillBlockAckBitmap(c, air.start)]
        BY <3>2
      <4>2. air'.start = air.start /\ \A s \in air'.acked : IsInWindow(s, air.start)
        BY <4>1 DEF FillBlockAckBitmap
      <4> QED BY <3>1, <4>2 DEF WindowInv, Answering
    <3> QED BY <3>1, <3>2, Kinds
  <2>3. CASE \/ Queue \/ Expire \/ \E side \in {"originator", "recipient"} : InactivityTimeout(side)
    <3>1. air' = air /\ cur' = cur
      BY <2>3 DEF Queue, Expire, InactivityTimeout, medium
    <3> QED BY <3>1 DEF WindowInv, Answering
  <2>4. CASE EndTxNoAck
    <3>1. air' = air /\ air.kind \notin {"bar", "ba"}
      BY <2>4 DEF EndTxNoAck, WindowInv, PacketInv, Serving
    <3> QED BY <3>1
  <2>5. CASE SendReply
    <3>1. air' = rcur' /\ rcur'.kind \notin {"bar", "ba"}
      BY <2>5 DEF SendReply, PacketInv, Serving
    <3> QED BY <3>1
  <2>6. CASE \/ Lose \/ ReceiveUnderBlockAck \/ ReceiveUnderNormalAck \/ ReceiveAddBaRequest \/ ReceiveDelBa
             \/ ReplyGotAck \/ MissedAck \/ ReplyMissedAck
    <3>1. air' = NoFrame \/ air' = Management("ack")
      BY <2>6 DEF Lose, ReceiveUnderBlockAck, ReceiveUnderNormalAck, ReceiveAddBaRequest, ReceiveDelBa, ReplyGotAck,
                  MissedAck, ReplyMissedAck, TimedOut, Answered
    <3> QED BY <3>1, Kinds
  <2> QED BY <2>1, <2>2, <2>3, <2>4, <2>5, <2>6
<1> QED BY <1>1, <1>2, <1>3, <1>4, NoRequest

LEMMA EmptyOrdered ==
  ASSUME NEW a \in Agreement, a.sent = <<>>, a.retry = <<>>, NEW n
  PROVE  Ordered(a, n) /\ \A s : Among(a.retry, s)
  BY DEF Ordered, Rising, RisingSeqs, Among

LEMMA NoAgreementIs ==
  /\ NoAgreement \in Agreement /\ NoAgreement.sent = <<>> /\ NoAgreement.retry = <<>> /\ NoAgreement.bars = <<>>
  /\ NoAgreement.state = "none"
<1>1. 0 \in Seqs
  BY SpaceType DEF Seqs
<1> QED BY <1>1 DEF NoAgreement, Agreement

LEMMA LaterOrdered ==
  ASSUME NEW n \in Nat, NEW a, Ordered(a, n)
  PROVE  Ordered(a, n + 1)
<1>1. /\ a \in Agreement /\ Rising(a.sent, n) /\ RisingSeqs(a.retry, n)
      /\ a.sent \in Seq(Item) /\ a.retry \in Seq(Seqs)
  BY AgreementIs DEF Ordered
<1>2. \A i \in DOMAIN a.sent : Draw(a.sent[i].seq) < n + 1
  <2> TAKE i \in DOMAIN a.sent
  <2>1. a.sent[i] \in Item
    BY <1>1
  <2>2. Draw(a.sent[i].seq) \in Nat /\ Draw(a.sent[i].seq) < n
    BY <1>1, <2>1, DrawIs DEF Rising, Item
  <2> QED BY <2>2
<1>3. \A i \in DOMAIN a.retry : Draw(a.retry[i]) < n + 1
  <2> TAKE i \in DOMAIN a.retry
  <2>1. a.retry[i] \in Seqs
    BY <1>1
  <2>2. Draw(a.retry[i]) \in Nat /\ Draw(a.retry[i]) < n
    BY <1>1, <2>1, DrawIs DEF RisingSeqs
  <2> QED BY <2>2
<1> QED BY <1>1, <1>2, <1>3 DEF Ordered, Rising, RisingSeqs

(* A retry leaves the queue, and the window may begin with it.             *)
Resent(b, start, c) == start \in {b.start, Head(b.retry)} /\ c = [b EXCEPT !.retry = Tail(@), !.start = start]

LEMMA RetryOrdered ==
  ASSUME NEW n \in Nat, NEW b, Ordered(b, n), b.retry # <<>>, NEW start, NEW c, Resent(b, start, c)
  PROVE  Ordered(c, n) /\ c.state = b.state /\ c.bars = b.bars /\ c.sent = b.sent
<1>1. /\ b \in Agreement /\ Rising(b.sent, n) /\ RisingSeqs(b.retry, n) /\ b.retry \in Seq(Seqs) /\ b.start \in Seqs
      /\ DOMAIN b = DOMAIN NoAgreement
      /\ \A i \in DOMAIN b.retry : InSent(b, b.retry[i]) /\ Draw(b.start) <= Draw(b.retry[i])
  BY AgreementIs DEF Ordered
<1>2. PICK q, t : q = b.retry /\ t = Tail(b.retry)
  OBVIOUS
<1>3. /\ Head(q) \in Seqs /\ t \in Seq(Seqs) /\ 1 \in DOMAIN q /\ Head(q) = q[1]
      /\ \A i \in DOMAIN t : i + 1 \in DOMAIN q /\ t[i] = q[i + 1]
  <2>1. q \in Seq(Seqs) /\ q # <<>>
    BY <1>1, <1>2
  <2> QED BY <1>2, <2>1, Rest
<1>4. /\ c.retry = t /\ c.start = start /\ c.sent = b.sent /\ c.state = b.state /\ c.bars = b.bars
      /\ c = [b EXCEPT !.retry = t, !.start = start]
  BY <1>1, <1>2 DEF NoAgreement, Resent
<1>5. start \in Seqs
  BY <1>1, <1>2, <1>3 DEF Resent
<1>6. c \in Agreement
  BY <1>1, <1>3, <1>4, <1>5 DEF Agreement
<1>7. \A i, j \in DOMAIN t : i < j => Draw(t[i]) < Draw(t[j])
  <2>1. SUFFICES ASSUME NEW i \in DOMAIN t, NEW j \in DOMAIN t, i < j PROVE Draw(t[i]) < Draw(t[j])
    OBVIOUS
  <2>2. i \in Nat /\ j \in Nat
    BY <1>3
  <2>3. i + 1 < j + 1
    BY <2>1, <2>2
  <2> QED BY <1>1, <1>2, <1>3, <2>3 DEF RisingSeqs
<1>8. \A i \in DOMAIN t : /\ InSent(c, t[i]) /\ Draw(start) <= Draw(t[i])
                          /\ Draw(t[i]) < n
  <2> TAKE i \in DOMAIN t
  <2>1. i + 1 \in DOMAIN q /\ t[i] = q[i + 1] /\ 1 < i + 1
    BY <1>3
  <2>2. InSent(b, t[i]) /\ Draw(b.start) <= Draw(t[i]) /\ Draw(t[i]) < n
    BY <1>1, <1>2, <2>1 DEF RisingSeqs
  <2>3. Draw(q[1]) < Draw(t[i])
    BY <1>1, <1>2, <1>3, <2>1 DEF RisingSeqs
  <2>4. Draw(q[1]) \in Nat /\ Draw(t[i]) \in Nat
    BY <1>3, DrawIs
  <2>5. Draw(q[1]) <= Draw(t[i])
    BY <2>3, <2>4
  <2> QED BY <1>2, <1>3, <1>4, <2>2, <2>5 DEF InSent, Resent
<1>9. RisingSeqs(t, n)
  BY <1>3, <1>7, <1>8 DEF RisingSeqs
<1> QED BY <1>1, <1>4, <1>6, <1>8, <1>9 DEF Ordered

LEMMA RequestStep == ASSUME WindowInv, PacketInv', SendBlockAckRequest PROVE WindowInv'
<1>1. /\ cur' = BarFrame(Head(ba.bars)) /\ air' = cur' /\ ba' = [ba EXCEPT !.bars = Tail(@)] /\ ba.bars # <<>>
      /\ UNCHANGED <<queue, nextSeq, offered, expired>>
  BY DEF SendBlockAckRequest, Transmit, NothingElseSent
<1>2. PICK a, b, z : /\ z \in Seqs /\ a = ba /\ b = ba' /\ a.bars = <<z>> /\ Outside(a, z)
  BY <1>1 DEF WindowInv, Asked
<1>3. /\ a \in Agreement /\ DOMAIN a = DOMAIN NoAgreement /\ Ordered(a, Draw(nextSeq))
      /\ Tail(a.bars) = <<>> /\ Head(a.bars) = z
  <2>1. a \in Agreement /\ Ordered(a, Draw(nextSeq))
    BY <1>2 DEF WindowInv, Ordered
  <2>2. Tail(<<z>>) = <<>> /\ Head(<<z>>) = z
    OBVIOUS
  <2> QED BY <1>2, <2>1, <2>2, AgreementIs
<1>4. b = [a EXCEPT !.bars = <<>>]
  BY <1>1, <1>2, <1>3
<1>5. /\ b.bars = <<>> /\ b.retry = a.retry /\ b.sent = a.sent /\ b.start = a.start /\ b \in Agreement
  <2>1. /\ b.bars = <<>> /\ b.retry = a.retry /\ b.sent = a.sent /\ b.start = a.start
    BY <1>3, <1>4 DEF NoAgreement
  <2>2. b \in Agreement
    <3>1. PICK none : none = <<>> /\ none \in Seq(Seqs)
      <4>1. <<>> \in Seq(Seqs)
        OBVIOUS
      <4> QED BY <4>1
    <3>2. b = [a EXCEPT !.bars = none]
      BY <1>4, <3>1
    <3> QED BY <1>3, <3>1, <3>2 DEF Agreement
  <2> QED BY <2>1, <2>2
<1>6. Ordered(b, Draw(nextSeq)) /\ Outside(b, z) /\ Asked(b)
  BY <1>2, <1>3, <1>5 DEF Ordered, InSent, Outside, Asked
<1>7. cur'.kind = "bar" /\ cur'.start = z /\ air'.kind = "bar"
  BY <1>1, <1>2, <1>3 DEF BarFrame
<1>8. Requested'
  BY <1>2, <1>5, <1>6, <1>7 DEF Requested
<1>9. Answering'
  BY <1>1, <1>7 DEF Answering
<1>10. Numbered'
  BY <1>1 DEF WindowInv, Numbered
<1>11. Ordered(ba, Draw(nextSeq))' /\ Asked(ba)'
  BY <1>1, <1>2, <1>6
<1> QED BY <1>8, <1>9, <1>10, <1>11 DEF WindowInv

(* What EdcaTxopN::NotifyAccessGranted leaves of the agreement before it   *)
(* sends.                                                                  *)
LEMMA PreparedWindow ==
  ASSUME HalfTheNumbers, WindowInv
  PROVE  /\ Ordered(Prepared, Draw(nextSeq)) /\ Less(Prepared, ba)
         /\ \A p \in Gone(ba, Prepared) : p <= expired
         /\ Tidied(ba, Prepared)
         /\ Draw(nextSeq) \in Nat
<1>1. Ordered(ba, Draw(nextSeq)) /\ expired \in Nat /\ Numbered
  BY DEF WindowInv, Numbered
<1>2. PICK n : n = Draw(nextSeq) /\ n \in 0..Cardinality(Packet) /\ n \in Nat
  BY <1>1, NumberedIs
<1> QED BY <1>1, <1>2, PreparedOrdered

LEMMA RetryStep == ASSUME HalfTheNumbers, WindowInv, PacketInv', SendRetry PROVE WindowInv'
<1>1. PICK b, s, start, c :
        /\ b = Prepared /\ s = Head(b.retry) /\ start = IF s > Plus(b.start, Window - 1) THEN s ELSE b.start
        /\ c = [b EXCEPT !.retry = Tail(@), !.start = start]
  BY Zenon
<1>2. /\ b.retry # <<>> /\ ba.bars = <<>> /\ ba' = NotifyMpduTransmission(c, nextSeq, queue)
      /\ cur'.kind = "data" /\ air'.kind = "data" /\ UNCHANGED <<queue, nextSeq, offered, expired>>
  BY <1>1, Kinds DEF SendRetry, HasNoBar, Transmit, NothingElseSent
<1>3. PICK n \in Nat : n = Draw(nextSeq) /\ Ordered(b, n) /\ b.bars = <<>>
  BY <1>1, <1>2, PreparedWindow DEF Less
<1>4. Resent(b, start, c)
  BY <1>1 DEF Resent
<1>5. Ordered(c, n) /\ c.bars = <<>>
  <2>1. Ordered(c, n) /\ c.bars = b.bars
    BY <1>2, <1>3, <1>4, RetryOrdered
  <2> QED BY <1>3, <2>1
<1>6. nextSeq \in Seqs
  BY DEF WindowInv, Numbered
<1>7. PICK d : d = NotifyMpduTransmission(c, nextSeq, queue) /\ Ordered(d, n) /\ Asked(d)
  <2>1. PICK next, rest : next = nextSeq /\ rest = queue /\ next \in Seqs
    BY <1>6
  <2> QED BY <1>3, <1>5, <2>1, TransmissionOrdered
<1>8. Numbered'
  BY <1>2 DEF WindowInv, Numbered
<1>9. Ordered(ba, Draw(nextSeq))' /\ Asked(ba)'
  BY <1>2, <1>3, <1>7
<1> QED BY <1>2, <1>8, <1>9, NoRequest

LEMMA CleaningSteps ==
  ASSUME HalfTheNumbers, WindowInv, PacketInv', SendDelba \/ SendNothing
  PROVE  WindowInv'
<1>1. /\ ba' = Prepared /\ ba.bars = <<>> /\ cur = NoFrame /\ air = NoFrame
      /\ cur' = cur \/ cur' = Management("delba")
      /\ air' = air \/ air' = Management("delba")
      /\ UNCHANGED <<queue, nextSeq, offered, expired>>
  BY DEF SendDelba, SendNothing, HasNoRetry, HasNoBar, MediumIdle, Transmit, NothingElseSent, medium
<1>2. cur'.kind # "bar" /\ air'.kind \notin {"bar", "ba"}
  BY <1>1, Kinds
<1>3. Ordered(ba, Draw(nextSeq))' /\ ba'.bars = ba.bars /\ Among(ba'.retry, ba.retry)
  BY <1>1, PreparedWindow DEF Less
<1>4. Numbered'
  BY <1>1 DEF WindowInv, Numbered
<1> QED BY <1>2, <1>3, <1>4, NoRequest

LEMMA SetupStep == ASSUME WindowInv, PacketInv', SetupBlockAck PROVE WindowInv'
<1>1. /\ ba' = [NoAgreement EXCEPT !.state = "pending", !.start = nextSeq]
      /\ cur'.kind = "addba" /\ air'.kind = "addba"
      /\ UNCHANGED <<queue, nextSeq, offered, expired>>
  BY Kinds DEF SetupBlockAck, Transmit, NothingElseSent
<1>2. nextSeq \in Seqs
  BY DEF WindowInv, Numbered
<1>3. PICK b : b = ba' /\ b \in Agreement /\ b.sent = <<>> /\ b.retry = <<>> /\ b.bars = <<>>
  <2>1. PICK z, b : z = nextSeq /\ z \in Seqs /\ b = [NoAgreement EXCEPT !.state = "pending", !.start = z]
    BY <1>2, Zenon
  <2>2. b.sent = <<>> /\ b.retry = <<>> /\ b.bars = <<>>
    BY <2>1 DEF NoAgreement
  <2>3. b \in Agreement
    BY <2>1, NoAgreementIs DEF Agreement
  <2> QED BY <1>1, <2>1, <2>2, <2>3
<1>4. Ordered(ba, Draw(nextSeq))'
  BY <1>3, EmptyOrdered
<1>5. Asked(ba)'
  BY <1>3 DEF Asked
<1>6. Numbered'
  BY <1>1 DEF WindowInv, Numbered
<1> QED BY <1>1, <1>4, <1>5, <1>6, NoRequest

LEMMA FirstStep == ASSUME HalfTheNumbers, WindowInv, PacketInv', SendFirst PROVE WindowInv'
<1>1. PICK item, next, b, a :
        /\ item = [packet |-> Head(queue), seq |-> nextSeq, retry |-> FALSE] /\ next = Plus(nextSeq, 1)
        /\ a = Prepared /\ b = StorePacket(Prepared, item)
  OBVIOUS
<1>2. /\ queue # <<>> /\ ba.bars = <<>> /\ queue' = Tail(queue) /\ nextSeq' = next
      /\ cur'.kind = "data" /\ air'.kind = "data" /\ UNCHANGED <<offered, expired>>
      /\ \/ ba' = NotifyMpduTransmission(b, next, Tail(queue))
         \/ ba' = a
  BY <1>1, Kinds DEF SendFirst, HasData, HasNoRetry, HasNoBar, Transmit, NothingElseSent
<1>3. /\ queue \in Seq(Packet) /\ nextSeq \in Seqs /\ expired \in Nat
      /\ offered \in 0..Cardinality(Packet) /\ Draw(nextSeq) + Len(queue) <= offered
      /\ Draw(nextSeq) \in Nat /\ Draw(nextSeq) < Cardinality(Packet) /\ Len(queue) \in Nat \ {0}
  BY <1>2, NumberedIs DEF WindowInv, Numbered
<1>4. PICK n \in Nat : n = Draw(nextSeq) /\ Ordered(a, n) /\ a.bars = <<>> /\ Among(a.retry, ba.retry)
  BY <1>1, <1>2, PreparedWindow DEF Less
<1>5. next \in Seqs /\ Draw(next) = n + 1
  BY <1>1, <1>3, <1>4, NextDraw
<1>6. item \in Item /\ item.seq = nextSeq
  <2>1. Head(queue) \in Packet
    BY <1>2, <1>3, Rest
  <2> QED BY <1>1, <1>3, <2>1 DEF Item
<1>7. Numbered'
  <2>1. PICK t : t = Tail(queue) /\ t \in Seq(Packet) /\ Len(t) = Len(queue) - 1
    <3>1. PICK q : q = queue /\ q \in Seq(Packet) /\ q # <<>>
      BY <1>2, <1>3
    <3> QED BY <3>1, Rest
  <2>2. (n + 1) + Len(t) <= offered
    BY <1>3, <1>4, <2>1
  <2>3. nextSeq' \in Seqs /\ Draw(nextSeq') = n + 1
    BY <1>2, <1>5
  <2> QED BY <1>2, <1>3, <2>1, <2>2, <2>3 DEF Numbered
<1>8. Ordered(ba', n + 1) /\ (ba'.bars = <<>> \/ Asked(ba'))
  <2>1. CASE ba' = a
    BY <1>4, <2>1, LaterOrdered
  <2>2. CASE ba' = NotifyMpduTransmission(b, next, Tail(queue))
    <3>1. Ordered(b, n + 1) /\ b = [a EXCEPT !.sent = Append(a.sent, item)]
      <4>1. n = Draw(item.seq) /\ Draw(item.seq) < Cardinality(Packet)
        BY <1>3, <1>4, <1>6
      <4> QED BY <1>1, <1>4, <1>6, <4>1, StoreOrdered
    <3>2. b.bars = <<>>
      <4>1. DOMAIN a = DOMAIN NoAgreement
        BY <1>4, AgreementIs DEF Ordered
      <4> QED BY <1>4, <3>1, <4>1 DEF NoAgreement
    <3>3. PICK rest : rest = Tail(queue)
      OBVIOUS
    <3>4. n + 1 \in Nat
      OBVIOUS
    <3> QED BY <1>5, <2>2, <3>1, <3>2, <3>3, <3>4, TransmissionOrdered
  <2> QED BY <1>2, <2>1, <2>2
<1>9. Ordered(ba, Draw(nextSeq))' /\ Asked(ba)'
  BY <1>2, <1>5, <1>8 DEF Asked
<1> QED BY <1>2, <1>7, <1>9, NoRequest

LEMMA AgreementSteps ==
  ASSUME WindowInv, PacketInv', ReceiveAddBaResponse \/ GotDelBaFrame \/ GotAck
  PROVE  WindowInv'
<1>1. /\ UNCHANGED <<queue, nextSeq, offered, expired>>
      /\ cur' = cur \/ cur' = NoFrame
      /\ air' = NoFrame \/ air' = Management("ack")
      /\ ba' = ba \/ ba' = NoAgreement \/ ba' = [ba EXCEPT !.state = "established"]
  BY DEF ReceiveAddBaResponse, Established, GotDelBaFrame, GotAck, TearDownBlockAck, Answered, NothingElseTold
<1>2. PICK a, b : a = ba /\ b = ba' /\ Ordered(a, Draw(nextSeq)) /\ a \in Agreement /\ DOMAIN a = DOMAIN NoAgreement
  BY AgreementIs DEF WindowInv, Ordered
<1>3. Ordered(b, Draw(nextSeq)) /\ Among(b.retry, a.retry) /\ (b.bars = a.bars \/ b.bars = <<>>)
  <2>1. CASE b = a
    BY <1>2, <2>1, SameAmong
  <2>2. CASE b = NoAgreement
    BY <2>2, NoAgreementIs, EmptyOrdered
  <2>3. CASE b = [a EXCEPT !.state = "established"]
    <3>1. b.retry = a.retry /\ b.bars = a.bars /\ b.sent = a.sent /\ b.start = a.start
      BY <1>2, <2>3 DEF NoAgreement
    <3>2. b \in Agreement
      BY <1>2, <2>3 DEF Agreement
    <3> QED BY <1>2, <3>1, <3>2, SameAmong DEF Ordered, InSent
  <2> QED BY <1>1, <1>2, <2>1, <2>2, <2>3
<1>4. air'.kind \notin {"bar", "ba"}
  BY <1>1, Kinds
<1>5. Numbered'
  BY <1>1 DEF WindowInv, Numbered
<1>6. Ordered(ba, Draw(nextSeq))' /\ Among(ba'.retry, ba.retry) /\ (ba'.bars = ba.bars \/ ba'.bars = <<>>)
  BY <1>1, <1>2, <1>3
<1>7. ba'.bars = ba.bars \/ Asked(ba)'
  BY <1>6 DEF Asked
<1>8. cur'.kind # "bar" \/ (cur' = cur /\ ba'.bars = ba.bars /\ Among(ba'.retry, ba.retry))
  <2>1. CASE cur' = cur /\ cur.kind = "bar"
    BY <1>6, <2>1 DEF WindowInv, Requested
  <2> QED BY <1>1, <2>1, Kinds
<1> QED BY <1>4, <1>5, <1>6, <1>7, <1>8, NoRequest

LEMMA GotBlockAckStep ==
  ASSUME HalfTheNumbers, WindowInv, PacketInv', GotBlockAck
  PROVE  WindowInv'
<1>1. /\ air.kind = "ba" /\ cur' = NoFrame /\ air' = NoFrame
      /\ UNCHANGED <<queue, nextSeq, offered, expired>>
      /\ IF ba.state = "established" THEN ba' = NotifyGotBlockAck(ba, air.acked) ELSE ba' = ba
  BY DEF GotBlockAck, Answered, NothingElseTold
<1>2. PICK a, b, acked : a = ba /\ b = ba' /\ acked = air.acked
  OBVIOUS
<1>3. PICK n : n = Draw(nextSeq) /\ n \in 0..Cardinality(Packet) /\ Ordered(a, n) /\ nextSeq \in Seqs
  BY <1>2, NumberedIs DEF WindowInv, Numbered
<1>4. a.bars = <<>> /\ \A i \in DOMAIN a.retry : a.retry[i] \notin acked
  <2>1. cur.kind = "bar" /\ air.start = cur.start /\ \A s \in acked : IsInWindow(s, air.start)
    BY <1>1, <1>2 DEF WindowInv, Answering
  <2>2. a.bars = <<>> /\ Outside(a, cur.start)
    BY <1>2, <2>1 DEF WindowInv, Requested
  <2> QED BY <2>1, <2>2 DEF Outside
<1>5. Ordered(b, n) /\ b.bars = <<>>
  <2>1. CASE a.state = "established"
    <3>1. b = NotifyGotBlockAck(a, acked)
      BY <1>1, <1>2, <2>1
    <3> QED BY <1>3, <1>4, <2>1, <3>1, BlockAckOrdered
  <2>2. CASE a.state # "established"
    BY <1>1, <1>2, <1>3, <1>4, <2>2
  <2> QED BY <2>1, <2>2
<1>6. Ordered(ba, Draw(nextSeq))' /\ Asked(ba)'
  BY <1>1, <1>2, <1>3, <1>5 DEF Asked
<1>7. Numbered'
  BY <1>1 DEF WindowInv, Numbered
<1> QED BY <1>1, <1>6, <1>7, NoRequest, Kinds

LEMMA MissedStep == ASSUME WindowInv, PacketInv', MissedBlockAck PROVE WindowInv'
<1>1. /\ ba' = Cleanup(ba) /\ (cur' = cur \/ cur' = NoFrame) /\ air' = NoFrame
      /\ UNCHANGED <<queue, nextSeq, offered, expired>>
  BY DEF MissedBlockAck, TimedOut
<1>2. PICK a, n : a = ba /\ n = Draw(nextSeq) /\ n \in Nat /\ Ordered(a, n) /\ expired \in Nat
  BY NumberedIs DEF WindowInv, Numbered
<1>3. Ordered(Cleanup(a), n) /\ Less(Cleanup(a), a)
  BY <1>2, CleanupOrdered
<1>4. Ordered(ba, Draw(nextSeq))' /\ ba'.bars = ba.bars /\ Among(ba'.retry, ba.retry)
  BY <1>1, <1>2, <1>3 DEF Less
<1>5. Numbered'
  BY <1>1 DEF WindowInv, Numbered
<1> QED BY <1>1, <1>4, <1>5, NoRequest, Kinds

LEMMA WindowStep == HalfTheNumbers /\ WindowInv /\ [Next]_vars => WindowInv'
<1> SUFFICES ASSUME HalfTheNumbers, WindowInv, [Next]_vars PROVE WindowInv'
  OBVIOUS
<1>1. PacketInv'
  BY PacketStep DEF WindowInv
<1>2. CASE UNCHANGED vars
  BY <1>1, <1>2 DEF vars, sender, medium, WindowInv, Numbered, Requested, Answering
<1>3. CASE Originate
  BY <1>1, <1>3, OutsideSteps, RequestStep, RetryStep, CleaningSteps, SetupStep, FirstStep DEF Originate
<1>4. CASE Receive
  BY <1>1, <1>4, OutsideSteps, AgreementSteps, GotBlockAckStep DEF Receive
<1>5. CASE Timeout
  BY <1>1, <1>5, OutsideSteps, MissedStep DEF Timeout
<1> QED BY <1>1, <1>2, <1>3, <1>4, <1>5, OutsideSteps DEF Next

LEMMA InitWindow == Init => WindowInv
<1> SUFFICES ASSUME Init PROVE WindowInv
  OBVIOUS
<1>1. PacketInv
  BY InitPackets
<1>2. Draw(FirstSeq) = 0 /\ FirstSeq \in Seqs
  <2>1. FirstSeq \in Seqs /\ Seqs \subseteq Int
    BY SpaceType DEF Seqs
  <2> QED BY <2>1, DistIs DEF Draw
<1>3. Cardinality(Packet) \in Nat
  BY SpaceType
<1>4. Numbered
  <2>1. queue = <<>> /\ offered = 0 /\ expired = 0 /\ nextSeq = FirstSeq
    BY DEF Init
  <2>2. <<>> \in Seq(Packet) /\ Len(<<>>) = 0
    OBVIOUS
  <2> QED BY <1>2, <1>3, <2>1, <2>2 DEF Numbered
<1>5. ba = NoAgreement /\ cur.kind = "none" /\ air.kind = "none"
  BY Kinds DEF Init
<1> QED BY <1>1, <1>4, <1>5, NoAgreementIs, EmptyOrdered DEF WindowInv, Asked, Requested, Answering

(* While the packets take at most half of the numbers, no iterator of      *)
(* m_retryPackets dangles: a packet that CleanupBuffers, GetNextPacket, a  *)
(* block ack or the end of the agreement erases is not among the retries,  *)
(* and a block ack covers none of them, whatever was lost and whenever it  *)
(* is answered.                                                            *)
THEOREM RetriesStayKept == ASSUME HalfTheNumbers PROVE Spec => []RetriesAreKept
<1>1. WindowInv => RetriesAreKept
  <2> SUFFICES ASSUME WindowInv PROVE RetriesAreKept
    OBVIOUS
  <2>1. RisingSeqs(ba.retry, Draw(nextSeq)) /\ \A i \in DOMAIN ba.retry : InSent(ba, ba.retry[i])
    BY DEF WindowInv, Ordered
  <2>2. ASSUME NEW i \in DOMAIN ba.retry, NEW j \in DOMAIN ba.retry, ba.retry[i] = ba.retry[j] PROVE i = j
    <3>1. i \in Nat /\ j \in Nat /\ ba.retry[i] \in Seqs
      BY <2>1 DEF RisingSeqs
    <3>2. Draw(ba.retry[i]) \in Nat /\ Draw(ba.retry[j]) = Draw(ba.retry[i])
      BY <2>2, <3>1, DrawIs
    <3>3. ~(i < j) /\ ~(j < i)
      BY <2>1, <3>2 DEF RisingSeqs
    <3> QED BY <3>1, <3>3
  <2> QED BY <2>1, <2>2 DEF RetriesAreKept
<1>2. WindowInv /\ [Next]_vars => WindowInv'
  BY WindowStep
<1> QED BY <1>1, <1>2, InitWindow, PTL DEF Spec

-----------------------------------------------------------------------------
(* Age.                                                                    *)

(* Without a teardown, what is dropped silently has outlived MaxDelay.     *)
LEMMA AgeStep ==
  ASSUME HalfTheNumbers, WindowInv, OnlyOldAreGone, Next
  PROVE  OnlyOldAreGone'
<1> SUFFICES ASSUME NeverTornDown', NEW p \in Packet, outcome'[p] = "gone" PROVE p <= expired'
  BY DEF OnlyOldAreGone
<1>1. p \in Nat /\ expired \in Nat /\ timeouts \in Nat
  <2>1. Packet \subseteq Nat
    BY SpaceType
  <2> QED BY <2>1 DEF WindowInv, PacketInv, AgreementInv, Records, Numbered
<1>3. NeverTornDown /\ Handshake /\ timeouts' = timeouts
  <2>1. timeouts' = timeouts \/ timeouts' = timeouts + 1
    BY DEF Next, Originate, Receive, Timeout, Queue, Expire, Lose, Resend, SendBlockAckRequest, SendRetry, SendDelba,
           SetupBlockAck, SendFirst, SendNothing, EndTxNoAck, SendReply, ReceiveUnderBlockAck, ReceiveUnderNormalAck,
           ReceiveBlockAckReq, ReceiveAddBaRequest, ReceiveDelBa, ReceiveAddBaResponse, GotDelBaFrame, GotBlockAck,
           GotAck, ReplyGotAck, MissedAck, ReplyMissedAck, MissedBlockAck, InactivityTimeout,
           NothingElseSent, NothingElseReceived, NothingElseTold
  <2> QED BY <1>1, <2>1 DEF NeverTornDown, WindowInv, PacketInv, AgreementInv
<1>2. outcome[p] = "gone" => p <= expired
  BY <1>3 DEF OnlyOldAreGone
<1>4. expired' = expired \/ expired' = expired + 1
  BY DEF Next, Originate, Receive, Timeout, Queue, Expire, Lose, Resend, SendBlockAckRequest, SendRetry, SendDelba,
         SetupBlockAck, SendFirst, SendNothing, EndTxNoAck, SendReply, ReceiveUnderBlockAck, ReceiveUnderNormalAck,
         ReceiveBlockAckReq, ReceiveAddBaRequest, ReceiveDelBa, ReceiveAddBaResponse, GotDelBaFrame, GotBlockAck,
         GotAck, ReplyGotAck, MissedAck, ReplyMissedAck, MissedBlockAck, InactivityTimeout,
         NothingElseSent, NothingElseReceived, NothingElseTold, sender
<1>5. p <= expired => p <= expired'
  <2>1. CASE expired' = expired
    BY <2>1
  <2>2. CASE expired' = expired + 1
    BY <1>1, <2>2
  <2> QED BY <1>4, <2>1, <2>2
<1>6. \A S, what : p \notin S => Report(S, what)[p] = outcome[p]
  BY DEF Report
<1>7. \A S : Report(S, "ok")[p] = "gone" \/ Report(S, "failed")[p] = "gone" => outcome[p] = "gone"
  BY DEF Report
<1>8. CASE Expire
  <2>1. expired' = expired + 1
    BY <1>8 DEF Expire
  <2>2. CASE queue # <<>> /\ Head(queue) = expired + 1 /\ outcome' = Report({Head(queue)}, "gone") /\ p = Head(queue)
    BY <1>1, <2>1, <2>2
  <2>3. CASE outcome'[p] = outcome[p]
    BY <1>2, <1>5, <2>3
  <2>4. outcome' = outcome \/ (queue # <<>> /\ Head(queue) = expired + 1 /\ outcome' = Report({Head(queue)}, "gone"))
    BY <1>8 DEF Expire
  <2> QED BY <1>6, <2>2, <2>3, <2>4
<1>9. ASSUME NEW S, outcome' = Report(S, "gone"), \A q \in S : q <= expired PROVE p <= expired
  BY <1>2, <1>6, <1>9
<1>10. CASE SendRetry \/ SendDelba \/ SendFirst \/ SendNothing
  <2>1. outcome' = Report(Gone(ba, Prepared), "gone") /\ \A q \in Gone(ba, Prepared) : q <= expired
    BY <1>10, PreparedWindow DEF SendRetry, SendDelba, SendFirst, SendNothing
  <2> QED BY <1>5, <1>9, <2>1
<1>11. CASE MissedBlockAck
  <2>1. outcome' = Report(Gone(ba, Cleanup(ba)), "gone")
    BY <1>11 DEF MissedBlockAck
  <2>2. PICK a, n : a = ba /\ n = Draw(nextSeq) /\ n \in Nat /\ Ordered(a, n)
    BY NumberedIs DEF WindowInv
  <2>3. \A q \in Gone(a, Cleanup(a)) : q <= expired
    BY <1>1, <2>2, CleanupOrdered
  <2> QED BY <1>5, <1>9, <2>1, <2>2, <2>3
<1>12. CASE GotDelBaFrame
  BY <1>3, <1>12 DEF GotDelBaFrame, Handshake, NoDelba
<1>13. CASE GotAck \/ GotBlockAck \/ MissedAck
  <2>1. cur.kind # "delba"
    BY <1>3 DEF Handshake, NoDelba
  <2>2. outcome' = outcome \/ \E S : outcome' = Report(S, "ok") \/ outcome' = Report(S, "failed")
    BY <1>13, <2>1 DEF GotAck, GotBlockAck, MissedAck
  <2>3. outcome[p] = "gone"
    BY <1>7, <2>2
  <2> QED BY <1>2, <1>5, <2>3
<1>14. CASE \/ Queue \/ Lose \/ Resend \/ SendBlockAckRequest \/ SetupBlockAck \/ EndTxNoAck \/ SendReply
            \/ ReceiveUnderBlockAck \/ ReceiveUnderNormalAck \/ ReceiveBlockAckReq \/ ReceiveAddBaRequest
            \/ ReceiveDelBa \/ ReceiveAddBaResponse \/ ReplyGotAck \/ ReplyMissedAck
            \/ \E side \in {"originator", "recipient"} : InactivityTimeout(side)
  <2>1. outcome' = outcome
    BY <1>14 DEF Queue, Lose, Resend, SendBlockAckRequest, SetupBlockAck, EndTxNoAck, SendReply, ReceiveUnderBlockAck,
           ReceiveUnderNormalAck, ReceiveBlockAckReq, ReceiveAddBaRequest, ReceiveDelBa, ReceiveAddBaResponse,
           ReplyGotAck, ReplyMissedAck, InactivityTimeout, NothingElseReceived, sender
  <2> QED BY <1>2, <1>5, <2>1
<1> QED BY <1>8, <1>10, <1>11, <1>12, <1>13, <1>14 DEF Next, Originate, Receive, Timeout

(* While the packets take at most half of the numbers and no inactivity    *)
(* timer expires, a packet is dropped silently only when it has outlived   *)
(* MaxDelay: GetNextPacket finds no retry that the window has left behind, *)
(* whatever was lost, sent again or answered late.                         *)
THEOREM OnlyTheOldAreGone == ASSUME HalfTheNumbers PROVE Spec => []OnlyOldAreGone
<1>1. WindowInv /\ OnlyOldAreGone /\ [Next]_vars => (WindowInv /\ OnlyOldAreGone)'
  <2> SUFFICES ASSUME WindowInv, OnlyOldAreGone, [Next]_vars PROVE OnlyOldAreGone'
    BY WindowStep
  <2>1. CASE UNCHANGED vars
    BY <2>1 DEF vars, sender, OnlyOldAreGone, NeverTornDown
  <2> QED BY <2>1, AgeStep
<1>2. Init => OnlyOldAreGone
  BY DEF Init, OnlyOldAreGone
<1> QED BY <1>1, <1>2, InitWindow, PTL DEF Spec

-----------------------------------------------------------------------------
(* The recipient.  P holds the packets on their way, each with its number. *)

Record == [exists : BOOLEAN, start : Seqs, buffer : Seq(Item),
           winStart : Seqs, winEnd : Seqs, bitmap : SUBSET Seqs]
Recv == [rx : Record, up : Seq(Packet), last : 0..SeqSpace]

PairsOf(items) == {<<items[i].seq, items[i].packet>> : i \in DOMAIN items}
Once(P) == \A x, y \in P : x[1] = y[1] => x[2] = y[2]
InHand(r) == ToSet(r.up) \cup PacketsOf(r.rx.buffer)
Known(P, r) == /\ r \in Recv /\ PairsOf(r.rx.buffer) \subseteq P
               /\ \A x \in P : x[1] = r.last => x[2] \in ToSet(r.up)

(* q is r after the items went through MacRxMiddle.                        *)
HandedUp(P, r, q, items) ==
  /\ Known(P, q) /\ q.rx = r.rx /\ ToSet(r.up) \subseteq ToSet(q.up) /\ PacketsOf(items) \subseteq ToSet(q.up)
  /\ q.last = r.last \/ q.last \in SeqsOf(items)

PacketSeq(items) == [i \in DOMAIN items |-> items[i].packet]

LEMMA ConcatSet ==
  ASSUME NEW S, NEW s \in Seq(S), NEW t \in Seq(S)
  PROVE  /\ s \o t \in Seq(S) /\ ToSet(s \o t) = ToSet(s) \cup ToSet(t)
<1>1. PICK u, m, n : u = s \o t /\ m = Len(s) /\ n = Len(t) /\ m \in Nat /\ n \in Nat
  <2>1. Len(s) \in Nat /\ Len(t) \in Nat
    OBVIOUS
  <2> QED BY <2>1
<1>2. /\ u \in Seq(S) /\ Len(u) = m + n
      /\ \A i \in 1..(m + n) : u[i] = IF i <= m THEN s[i] ELSE t[i - m]
  BY <1>1, ConcatProperties
<1>3. DOMAIN u = 1..(m + n) /\ DOMAIN s = 1..m /\ DOMAIN t = 1..n
  BY <1>1, <1>2
<1>4. \A i \in DOMAIN u : u[i] \in ToSet(s) \cup ToSet(t)
  <2> TAKE i \in DOMAIN u
  <2>1. CASE i <= m
    <3>1. i \in DOMAIN s /\ u[i] = s[i]
      BY <1>1, <1>2, <1>3, <2>1
    <3> QED BY <3>1 DEF ToSet
  <2>2. CASE ~(i <= m)
    <3>1. i - m \in DOMAIN t /\ u[i] = t[i - m]
      BY <1>1, <1>2, <1>3, <2>2
    <3> QED BY <3>1 DEF ToSet
  <2> QED BY <2>1, <2>2
<1>5. \A i \in DOMAIN s : s[i] \in ToSet(u)
  <2> TAKE i \in DOMAIN s
  <2>1. i \in DOMAIN u /\ u[i] = s[i]
    BY <1>1, <1>2, <1>3
  <2> QED BY <2>1 DEF ToSet
<1>6. \A i \in DOMAIN t : t[i] \in ToSet(u)
  <2> TAKE i \in DOMAIN t
  <2>1. m + i \in DOMAIN u /\ ~(m + i <= m) /\ (m + i) - m = i
    BY <1>1, <1>3
  <2>2. u[m + i] = t[i]
    BY <1>1, <1>2, <1>3, <2>1
  <2> QED BY <2>1, <2>2 DEF ToSet
<1>7. ToSet(u) = ToSet(s) \cup ToSet(t)
  <2>1. ToSet(u) \subseteq ToSet(s) \cup ToSet(t)
    BY <1>4 DEF ToSet
  <2>2. ToSet(s) \subseteq ToSet(u)
    BY <1>5 DEF ToSet
  <2>3. ToSet(t) \subseteq ToSet(u)
    BY <1>6 DEF ToSet
  <2> QED BY <2>1, <2>2, <2>3
<1> QED BY <1>1, <1>2, <1>7

LEMMA PartItems ==
  ASSUME NEW s \in Seq(Item), NEW t \in Seq(Item), Among(t, s)
  PROVE  PairsOf(t) \subseteq PairsOf(s) /\ PacketsOf(t) \subseteq PacketsOf(s) /\ SeqsOf(t) \subseteq SeqsOf(s)
  BY DEF Among, PairsOf, PacketsOf, SeqsOf

(* What is dropped as a repetition has been handed up.                     *)
LEMMA HandUpIs ==
  ASSUME NEW P, Once(P), NEW r, Known(P, r), NEW items \in Seq(Item), PairsOf(items) \subseteq P
  PROVE  HandedUp(P, r, HandUpAll(r, items), items)
<1>1. PICK len \in Nat : len = Len(items) /\ DOMAIN items = 1..len
  OBVIOUS
<1>2. \A i \in DOMAIN items : /\ items[i] \in Item /\ items[i].seq \in Seqs /\ items[i].packet \in Packet
                              /\ <<items[i].seq, items[i].packet>> \in P
  <2> TAKE i \in DOMAIN items
  <2>1. items[i] \in Item
    OBVIOUS
  <2>2. items[i].seq \in Seqs /\ items[i].packet \in Packet
    BY <2>1 DEF Item
  <2>3. <<items[i].seq, items[i].packet>> \in PairsOf(items)
    BY DEF PairsOf
  <2> QED BY <2>1, <2>2, <2>3
<1>3. PICK new : new = {i \in DOMAIN items : ~(items[i].retry /\ items[i].seq = IF i = 1 THEN r.last ELSE items[i - 1].seq)}
  OBVIOUS
<1>4. PICK passed, q : passed = Selected(items, new) /\ q = HandUpAll(r, items)
  OBVIOUS
<1>5. q = [r EXCEPT !.up = @ \o PacketSeq(passed),
                    !.last = IF Len(items) + 1 = 1 THEN r.last ELSE items[Len(items) + 1 - 1].seq]
  BY <1>3, <1>4 DEF HandUpAll, PacketSeq
<1>6. /\ r.rx \in Record /\ r.up \in Seq(Packet) /\ r.last \in 0..SeqSpace /\ DOMAIN r = {"rx", "up", "last"}
      /\ PairsOf(r.rx.buffer) \subseteq P /\ \A x \in P : x[1] = r.last => x[2] \in ToSet(r.up)
  BY DEF Known, Recv
<1>7. /\ passed \in Seq(Item) /\ \A x \in new : \E i \in DOMAIN passed : passed[i] = items[x]
  <2>1. new \subseteq DOMAIN items
    BY <1>3
  <2> QED BY <1>4, <2>1, SelectedPart
<1>8. PICK names : names = PacketSeq(passed) /\ names \in Seq(Packet) /\ ToSet(names) = PacketsOf(passed)
  <2>1. PICK k \in Nat : DOMAIN passed = 1..k
    BY <1>7
  <2>2. \A i \in 1..k : passed[i].packet \in Packet
    <3> TAKE i \in 1..k
    <3>1. passed[i] \in Item
      BY <1>7, <2>1
    <3> QED BY <3>1 DEF Item
  <2>3. PICK names : names = [i \in 1..k |-> passed[i].packet] /\ names = PacketSeq(passed)
    BY <2>1 DEF PacketSeq
  <2>4. names \in Seq(Packet) /\ DOMAIN names = 1..k /\ \A i \in 1..k : names[i] = passed[i].packet
    BY <2>2, <2>3, SeqDef
  <2>5. ToSet(names) = PacketsOf(passed)
    BY <2>1, <2>4 DEF ToSet, PacketsOf
  <2> QED BY <2>3, <2>4, <2>5
<1>9. PICK told, last : /\ told = r.up \o names /\ told \in Seq(Packet) /\ ToSet(told) = ToSet(r.up) \cup PacketsOf(passed)
                      /\ last = IF len = 0 THEN r.last ELSE items[len].seq
  BY <1>6, <1>8, ConcatSet
<1>10. q = [r EXCEPT !.up = told, !.last = last]
  <2>1. Len(items) + 1 - 1 = len /\ (Len(items) + 1 = 1 <=> len = 0)
    BY <1>1
  <2> QED BY <1>1, <1>5, <1>8, <1>9, <2>1
<1>11. q.up = told /\ q.last = last /\ q.rx = r.rx
  BY <1>6, <1>10
<1>12. last = r.last \/ (len \in DOMAIN items /\ last = items[len].seq)
  BY <1>1, <1>9
<1>13. last \in 0..SeqSpace
  <2>1. Seqs \subseteq 0..SeqSpace
    BY SpaceType DEF Seqs
  <2> QED BY <1>2, <1>6, <1>12, <2>1
<1>14. q \in Recv
  BY <1>6, <1>9, <1>10, <1>13 DEF Recv, Known
<1>15. \A i \in DOMAIN items : items[i].packet \in ToSet(told)
  <2>1. PICK T : T = {i \in DOMAIN items : items[i].packet \notin ToSet(told)}
    OBVIOUS
  <2>2. SUFFICES ASSUME T # {} PROVE FALSE
    BY <2>1
  <2>3. PICK m : m \in T /\ \A k \in T : m <= k
    <3>1. T \subseteq Nat
      BY <1>1, <2>1
    <3> QED BY <2>2, <3>1, Least
  <2>4. m \in DOMAIN items /\ items[m].packet \notin ToSet(told)
    BY <2>1, <2>3
  <2>5. m \notin new
    <3>1. SUFFICES ASSUME m \in new PROVE FALSE
      OBVIOUS
    <3>2. PICK i \in DOMAIN passed : passed[i] = items[m]
      BY <1>7, <3>1
    <3>3. items[m].packet \in PacketsOf(passed)
      BY <3>2 DEF PacketsOf
    <3> QED BY <1>9, <2>4, <3>3
  <2>6. items[m].seq = IF m = 1 THEN r.last ELSE items[m - 1].seq
    BY <1>3, <2>4, <2>5
  <2>7. CASE m = 1
    <3>1. PICK x \in P : x = <<items[m].seq, items[m].packet>>
      BY <1>2, <2>4
    <3>2. x[1] = r.last /\ x[2] = items[m].packet
      BY <2>6, <2>7, <3>1
    <3> QED BY <1>6, <1>9, <2>4, <3>1, <3>2
  <2>8. CASE m # 1
    <3>1. m - 1 \in DOMAIN items /\ ~(m <= m - 1)
      BY <1>1, <2>4, <2>8
    <3>2. items[m - 1].packet \in ToSet(told)
      BY <2>1, <2>3, <3>1
    <3>3. PICK x \in P, y \in P : x = <<items[m].seq, items[m].packet>> /\ y = <<items[m - 1].seq, items[m - 1].packet>>
      BY <1>2, <2>4, <3>1
    <3>4. x[1] = y[1] /\ x[2] = items[m].packet /\ y[2] = items[m - 1].packet
      BY <2>6, <2>8, <3>3
    <3> QED BY <2>4, <3>2, <3>3, <3>4 DEF Once
  <2> QED BY <2>7, <2>8
<1>16. \A x \in P : x[1] = last => x[2] \in ToSet(told)
  <2> SUFFICES ASSUME NEW x \in P, x[1] = last PROVE x[2] \in ToSet(told)
    OBVIOUS
  <2>1. CASE last = r.last
    BY <1>6, <1>9, <2>1
  <2>2. CASE len \in DOMAIN items /\ last = items[len].seq
    <3>1. PICK y \in P : y = <<items[len].seq, items[len].packet>>
      BY <1>2, <2>2
    <3>2. y[1] = last /\ y[2] = items[len].packet
      BY <2>2, <3>1
    <3>3. x[2] = y[2]
      BY <3>1, <3>2 DEF Once
    <3> QED BY <1>15, <2>2, <3>2, <3>3
  <2> QED BY <1>12, <2>1, <2>2
<1>17. Known(P, q)
  BY <1>6, <1>11, <1>14, <1>16 DEF Known
<1>18. q.last = r.last \/ q.last \in SeqsOf(items)
  BY <1>11, <1>12 DEF SeqsOf
<1>19. PacketsOf(items) \subseteq ToSet(q.up) /\ ToSet(r.up) \subseteq ToSet(q.up)
  BY <1>9, <1>11, <1>15 DEF PacketsOf
<1> QED BY <1>4, <1>11, <1>17, <1>18, <1>19 DEF HandedUp

(* q is r after packets were handed up from its buffer.                    *)
Passed(P, r, q) ==
  /\ Known(P, q) /\ ToSet(r.up) \subseteq ToSet(q.up) /\ InHand(r) \subseteq InHand(q)
  /\ PairsOf(q.rx.buffer) \subseteq PairsOf(r.rx.buffer)
  /\ q.last = r.last \/ \E x \in P : x[1] = q.last
  /\ q.rx.exists = r.rx.exists /\ q.rx.bitmap = r.rx.bitmap
  /\ q.rx.winStart = r.rx.winStart /\ q.rx.winEnd = r.rx.winEnd

(* s is r without the first n packets of its buffer.                       *)
Shortened(r, s, n) ==
  /\ n \in 0..Len(r.rx.buffer) /\ s \in Recv /\ s.up = r.up /\ s.last = r.last
  /\ s.rx.buffer = SubSeq(r.rx.buffer, n + 1, Len(r.rx.buffer))
  /\ s.rx.exists = r.rx.exists /\ s.rx.bitmap = r.rx.bitmap
  /\ s.rx.winStart = r.rx.winStart /\ s.rx.winEnd = r.rx.winEnd

LEMMA RecvIs ==
  ASSUME NEW r \in Recv
  PROVE  /\ r.rx \in Record /\ r.up \in Seq(Packet) /\ r.last \in 0..SeqSpace /\ DOMAIN r = {"rx", "up", "last"}
         /\ r.rx.start \in Seqs /\ r.rx.buffer \in Seq(Item) /\ r.rx.bitmap \in SUBSET Seqs /\ r.rx.exists \in BOOLEAN
         /\ r.rx.winStart \in Seqs /\ r.rx.winEnd \in Seqs /\ DOMAIN r.rx = DOMAIN NoRecord
<1>1. r.rx \in Record /\ r.up \in Seq(Packet) /\ r.last \in 0..SeqSpace /\ DOMAIN r = {"rx", "up", "last"}
  BY DEF Recv
<1> QED BY <1>1 DEF Record, NoRecord

LEMMA PassedAlong ==
  ASSUME NEW P, NEW a, NEW b, NEW c, Passed(P, a, b), Passed(P, b, c)
  PROVE  Passed(P, a, c)
  BY DEF Passed

LEMMA PassedIs ==
  ASSUME NEW P, Once(P), NEW r, Known(P, r), NEW n, NEW s, Shortened(r, s, n),
         NEW items \in Seq(Item), PairsOf(items) \subseteq PairsOf(r.rx.buffer),
         \A i \in 1..n : r.rx.buffer[i].packet \in PacketsOf(items)
  PROVE  Passed(P, r, HandUpAll(s, items))
<1>1. PICK buffer, rest, q : buffer = r.rx.buffer /\ rest = s.rx.buffer /\ q = HandUpAll(s, items)
  OBVIOUS
<1>2. /\ r \in Recv /\ buffer \in Seq(Item) /\ PairsOf(buffer) \subseteq P
      /\ \A x \in P : x[1] = r.last => x[2] \in ToSet(r.up)
  BY <1>1, RecvIs DEF Known
<1>3. /\ n \in 0..Len(buffer) /\ rest = SubSeq(buffer, n + 1, Len(buffer)) /\ s \in Recv
  BY <1>1 DEF Shortened
<1>4. /\ rest \in Seq(Item) /\ Part(rest, buffer) /\ Len(rest) = Len(buffer) - n
      /\ \A i \in 1..(Len(buffer) - n) : rest[i] = buffer[n + i]
  BY <1>2, <1>3, RestPart
<1>5. Among(rest, buffer)
  BY <1>4 DEF Part, Among
<1>6. PairsOf(rest) \subseteq PairsOf(buffer)
  BY <1>2, <1>4, <1>5, PartItems
<1>7. Known(P, s)
  BY <1>1, <1>2, <1>3, <1>6 DEF Known, Shortened
<1>8. HandedUp(P, s, q, items)
  <2>1. PairsOf(items) \subseteq P
    BY <1>1, <1>2
  <2> QED BY <1>1, <1>7, <2>1, HandUpIs
<1>9. PacketsOf(buffer) \subseteq InHand(q)
  <2>1. SUFFICES ASSUME NEW i \in DOMAIN buffer PROVE buffer[i].packet \in ToSet(q.up) \cup PacketsOf(rest)
    BY <1>1, <1>8 DEF PacketsOf, InHand, HandedUp
  <2>2. CASE i \in 1..n
    BY <1>1, <1>8, <2>2 DEF HandedUp
  <2>3. CASE i \notin 1..n
    <3>1. i - n \in DOMAIN rest /\ i - n \in 1..(Len(buffer) - n) /\ n + (i - n) = i
      BY <1>2, <1>3, <1>4, <2>3
    <3>2. rest[i - n] = buffer[i]
      BY <1>4, <3>1
    <3> QED BY <3>1, <3>2 DEF PacketsOf
  <2> QED BY <2>2, <2>3
<1>10. q.last = r.last \/ \E x \in P : x[1] = q.last
  <2>1. q.last = r.last \/ \E i \in DOMAIN items : q.last = items[i].seq
    BY <1>8 DEF HandedUp, SeqsOf, Shortened
  <2>2. \A i \in DOMAIN items : \E x \in P : x[1] = items[i].seq
    <3> TAKE i \in DOMAIN items
    <3>1. PICK x \in P : x = <<items[i].seq, items[i].packet>>
      BY <1>1, <1>2 DEF PairsOf
    <3>2. x[1] = items[i].seq
      BY <3>1
    <3> QED BY <3>2
  <2> QED BY <2>1, <2>2
<1>11. Known(P, q) /\ ToSet(r.up) \subseteq ToSet(q.up) /\ q.rx = s.rx
  BY <1>8 DEF HandedUp, Shortened
<1>12. InHand(r) \subseteq InHand(q)
  BY <1>1, <1>9, <1>11 DEF InHand
<1> QED BY <1>1, <1>6, <1>10, <1>11, <1>12 DEF Passed, Shortened

LEMMA SmallerIs ==
  ASSUME NEW P, Once(P), NEW r, Known(P, r), NEW s
  PROVE  Passed(P, r, RxCompleteSmaller(r, s))
<1>1. PICK buffer, len : buffer = r.rx.buffer /\ len = Len(buffer) /\ buffer \in Seq(Item) /\ len \in Nat /\ DOMAIN buffer = 1..len
  <2>1. r.rx.buffer \in Seq(Item)
    BY RecvIs DEF Known
  <2> QED BY <2>1
<1>2. PICK n : n = PrefixLen(r.rx.buffer, LAMBDA q : MapSeqControl(q.seq, r.rx.start) >= MapSeqControl(s, r.rx.start))
  OBVIOUS
<1>3. PICK firsts, items, t :
        /\ firsts = {i \in 1..n : i = 1 \/ r.rx.buffer[i].seq # r.rx.buffer[i - 1].seq}
        /\ items = Selected(r.rx.buffer, firsts)
        /\ t = [r EXCEPT !.rx.buffer = SubSeq(@, n + 1, Len(@))]
  OBVIOUS
<1>4. RxCompleteSmaller(r, s) = HandUpAll(t, items)
  BY <1>2, <1>3 DEF RxCompleteSmaller
<1>5. n \in 0..len
  <2>1. PICK I : I = {i \in 1..Len(r.rx.buffer) : MapSeqControl(r.rx.buffer[i].seq, r.rx.start) >= MapSeqControl(s, r.rx.start)}
    OBVIOUS
  <2>2. n = PrefixOf(I, Len(r.rx.buffer))
    BY <1>2, <2>1 DEF PrefixLen, SelectInSeq, PrefixOf
  <2>3. I \subseteq 1..len
    BY <1>1, <2>1
  <2> QED BY <1>1, <2>2, <2>3, PrefixIs
<1>6. /\ firsts \subseteq DOMAIN buffer /\ items \in Seq(Item)
      /\ \A x \in firsts : \E i \in DOMAIN items : items[i] = buffer[x]
      /\ \A i \in DOMAIN items : \E x \in firsts : items[i] = buffer[x]
  <2>1. firsts \subseteq DOMAIN buffer
    BY <1>1, <1>3, <1>5
  <2>2. items = Selected(buffer, firsts)
    BY <1>1, <1>3
  <2>3. buffer \in Seq(Item)
    BY <1>1
  <2>4. items \in Seq(Item) /\ \A x \in firsts : \E i \in DOMAIN items : items[i] = buffer[x]
    BY <2>1, <2>2, <2>3, SelectedPart
  <2>5. \A i \in DOMAIN items : \E x \in firsts : items[i] = buffer[x]
    BY <2>1, <2>2, <2>3, SelectedPart
  <2> QED BY <2>1, <2>4, <2>5
<1>7. PairsOf(items) \subseteq PairsOf(buffer)
  BY <1>6 DEF PairsOf
<1>8. \A i \in 1..n : buffer[i].packet \in PacketsOf(items)
  <2>1. PICK T : T = {i \in 1..n : buffer[i].packet \notin PacketsOf(items)}
    OBVIOUS
  <2>2. SUFFICES ASSUME T # {} PROVE FALSE
    BY <2>1
  <2>3. PICK m : m \in T /\ \A k \in T : m <= k
    <3>1. T \subseteq Nat
      BY <1>5, <2>1
    <3> QED BY <2>2, <3>1, Least
  <2>4. m \in 1..n /\ buffer[m].packet \notin PacketsOf(items)
    BY <2>1, <2>3
  <2>5. m \notin firsts
    BY <1>6, <2>4 DEF PacketsOf
  <2>6. m # 1 /\ buffer[m].seq = buffer[m - 1].seq
    BY <1>1, <1>3, <2>4, <2>5
  <2>7. m - 1 \in 1..n /\ ~(m <= m - 1) /\ m \in DOMAIN buffer /\ m - 1 \in DOMAIN buffer
    BY <1>1, <1>5, <2>4, <2>6
  <2>8. buffer[m - 1].packet \in PacketsOf(items)
    BY <2>1, <2>3, <2>7
  <2>9. PICK x \in P, y \in P : /\ x = <<buffer[m].seq, buffer[m].packet>>
                                /\ y = <<buffer[m - 1].seq, buffer[m - 1].packet>>
    BY <1>1, <2>7 DEF Known, PairsOf
  <2>10. x[1] = y[1] /\ x[2] = buffer[m].packet /\ y[2] = buffer[m - 1].packet
    BY <2>6, <2>9
  <2>11. x[2] = y[2]
    BY <2>9, <2>10 DEF Once
  <2> QED BY <2>4, <2>8, <2>10, <2>11
<1>9. Shortened(r, t, n)
  <2>1. PICK rest : rest = SubSeq(buffer, n + 1, Len(buffer)) /\ rest \in Seq(Item)
    BY <1>1, <1>5, RestPart
  <2>2. /\ r \in Recv /\ r.rx \in Record /\ DOMAIN r = {"rx", "up", "last"} /\ DOMAIN r.rx = DOMAIN NoRecord
    BY RecvIs DEF Known
  <2>3. PICK u : u = [r.rx EXCEPT !.buffer = rest] /\ t = [r EXCEPT !.rx = u]
    BY <1>1, <1>3, <2>1
  <2>4. /\ u.buffer = rest /\ u.exists = r.rx.exists /\ u.bitmap = r.rx.bitmap /\ u.winStart = r.rx.winStart
        /\ u.winEnd = r.rx.winEnd /\ u \in Record
    BY <2>1, <2>2, <2>3 DEF Record, NoRecord
  <2>5. t \in Recv /\ t.rx = u /\ t.up = r.up /\ t.last = r.last
    BY <2>2, <2>3, <2>4 DEF Recv
  <2> QED BY <1>1, <1>5, <2>1, <2>4, <2>5 DEF Shortened
<1> QED BY <1>1, <1>4, <1>6, <1>7, <1>8, <1>9, PassedIs

LEMMA UntilLostIs ==
  ASSUME NEW P, Once(P), NEW r, Known(P, r)
  PROVE  Passed(P, r, RxCompleteUntilLost(r))
<1>1. PICK buffer, len : buffer = r.rx.buffer /\ len = Len(buffer) /\ buffer \in Seq(Item) /\ len \in Nat /\ DOMAIN buffer = 1..len
  <2>1. r.rx.buffer \in Seq(Item)
    BY RecvIs DEF Known
  <2> QED BY <2>1
<1>2. PICK broken : broken = {i \in DOMAIN r.rx.buffer : r.rx.buffer[i].seq # Plus(r.rx.start, i - 1)}
  OBVIOUS
<1>3. PICK n : n = IF broken = {} THEN Len(r.rx.buffer) ELSE Min(broken) - 1
  OBVIOUS
<1>4. PICK items, t : /\ items = SubSeq(r.rx.buffer, 1, n)
                      /\ t = [r EXCEPT !.rx.buffer = SubSeq(@, n + 1, Len(@)), !.rx.start = Plus(@, n)]
  OBVIOUS
<1>5. RxCompleteUntilLost(r) = HandUpAll(t, items)
  BY <1>2, <1>3, <1>4 DEF RxCompleteUntilLost
<1>6. n \in 0..len
  <2>1. CASE broken = {}
    BY <1>1, <1>3, <2>1
  <2>2. CASE broken # {}
    <3>1. broken \subseteq 1..len
      BY <1>1, <1>2
    <3>2. Min(broken) \in 1..len
      BY <1>1, <2>2, <3>1, LeastPosition
    <3> QED BY <1>1, <1>3, <2>2, <3>2
  <2> QED BY <2>1, <2>2
<1>7. items \in Seq(Item) /\ DOMAIN items = 1..n /\ \A i \in 1..n : items[i] = buffer[i] /\ i \in DOMAIN buffer
  <2>1. \A i \in 1..n : i \in DOMAIN buffer /\ buffer[i] \in Item /\ 1 + i - 1 = i
    BY <1>1, <1>6
  <2>2. items = SubSeq(buffer, 1, n) /\ 1 \in Int /\ n \in Int
    BY <1>1, <1>4, <1>6
  <2>3. /\ items \in Seq(Item) /\ Len(items) = IF 1 <= n THEN n - 1 + 1 ELSE 0
        /\ \A i \in 1..(n - 1 + 1) : items[i] = buffer[1 + i - 1]
    BY <2>1, <2>2, SubSeqProperties
  <2>4. Len(items) = n /\ n - 1 + 1 = n
    BY <1>6, <2>3
  <2> QED BY <2>1, <2>3, <2>4
<1>8. PairsOf(items) \subseteq PairsOf(buffer) /\ \A i \in 1..n : buffer[i].packet \in PacketsOf(items)
  BY <1>7 DEF PairsOf, PacketsOf
<1>9. Shortened(r, t, n)
  <2>1. PICK rest : rest = SubSeq(buffer, n + 1, Len(buffer)) /\ rest \in Seq(Item)
    BY <1>1, <1>6, RestPart
  <2>2. /\ r \in Recv /\ r.rx \in Record /\ DOMAIN r = {"rx", "up", "last"} /\ DOMAIN r.rx = DOMAIN NoRecord
        /\ r.rx.start \in Seqs
    BY RecvIs DEF Known
  <2>3. PICK z : z = Plus(r.rx.start, n) /\ z \in Seqs
    <3>1. r.rx.start \in Nat /\ n \in Nat
      BY <1>6, <2>2 DEF Seqs
    <3> QED BY <3>1, SumType
  <2>4. PICK u : u = [r.rx EXCEPT !.buffer = rest, !.start = z] /\ t = [r EXCEPT !.rx = u]
    BY <1>1, <1>4, <2>1, <2>3
  <2>5. /\ u.buffer = rest /\ u.exists = r.rx.exists /\ u.bitmap = r.rx.bitmap /\ u.winStart = r.rx.winStart
        /\ u.winEnd = r.rx.winEnd /\ u \in Record
    BY <2>1, <2>2, <2>3, <2>4 DEF Record, NoRecord
  <2>6. t \in Recv /\ t.rx = u /\ t.up = r.up /\ t.last = r.last
    BY <2>2, <2>4, <2>5 DEF Recv
  <2> QED BY <1>1, <1>6, <2>1, <2>5, <2>6 DEF Shortened
<1> QED BY <1>1, <1>5, <1>7, <1>8, <1>9, PassedIs

LEMMA AppendJoined ==
  ASSUME NEW S, NEW s \in Seq(S), NEW x \in S
  PROVE  Append(s, x) \in Seq(S) /\ Joined(Append(s, x), s, x)
<1>1. PICK t, n : t = Append(s, x) /\ n = Len(s) /\ n \in Nat /\ DOMAIN s = 1..n
  <2>1. Len(s) \in Nat /\ DOMAIN s = 1..Len(s)
    OBVIOUS
  <2> QED BY <2>1
<1>2. t \in Seq(S) /\ DOMAIN t = 1..(n + 1) /\ t[n + 1] = x /\ \A i \in 1..n : t[i] = s[i]
  BY <1>1
<1>3. \A i \in 1..(n + 1) : i = n + 1 \/ i \in 1..n
  BY <1>1
<1>4. n + 1 \in 1..(n + 1) /\ 1..n \subseteq 1..(n + 1)
  BY <1>1
<1> QED BY <1>1, <1>2, <1>3, <1>4 DEF Joined

LEMMA InsertJoined ==
  ASSUME NEW S, NEW s \in Seq(S), NEW x \in S, NEW m \in 1..Len(s)
  PROVE  InsertAt(s, m, x) \in Seq(S) /\ Joined(InsertAt(s, m, x), s, x)
<1>1. PICK t, n : t = InsertAt(s, m, x) /\ n = Len(s) /\ n \in Nat /\ DOMAIN s = 1..n
  <2>1. Len(s) \in Nat /\ DOMAIN s = 1..Len(s)
    OBVIOUS
  <2> QED BY <2>1
<1>2. t \in Seq(S) /\ Insertion(t, s, m, x)
  BY <1>1, InsertedIs
<1>3. /\ DOMAIN t = 1..(n + 1) /\ t[m] = x /\ m \in 1..n
      /\ \A i \in 1..(m - 1) : t[i] = s[i]
      /\ \A i \in m..n : t[i + 1] = s[i]
  <2>1. DOMAIN t = 1..Len(t)
    BY <1>2
  <2> QED BY <1>1, <1>2, <2>1 DEF Insertion
<1>4. \A i \in DOMAIN t : t[i] = x \/ \E j \in DOMAIN s : t[i] = s[j]
  <2> TAKE i \in DOMAIN t
  <2>1. CASE i \in 1..(m - 1)
    <3>1. i \in DOMAIN s
      BY <1>1, <1>3, <2>1
    <3> QED BY <1>3, <2>1, <3>1
  <2>2. CASE i = m
    BY <1>3, <2>2
  <2>3. CASE i \in (m + 1)..(n + 1)
    <3>1. i - 1 \in m..n /\ i - 1 \in DOMAIN s /\ (i - 1) + 1 = i
      BY <1>1, <1>3, <2>3
    <3>2. t[i] = s[i - 1]
      BY <1>3, <3>1
    <3> QED BY <3>1, <3>2
  <2> QED BY <1>1, <1>3, <2>1, <2>2, <2>3
<1>5. \A j \in DOMAIN s : \E i \in DOMAIN t : t[i] = s[j]
  <2> TAKE j \in DOMAIN s
  <2>1. CASE j \in 1..(m - 1)
    <3>1. j \in DOMAIN t
      BY <1>1, <1>3, <2>1
    <3> QED BY <1>3, <2>1, <3>1
  <2>2. CASE j \in m..n
    <3>1. j + 1 \in DOMAIN t
      BY <1>1, <1>3, <2>2
    <3> QED BY <1>3, <2>2, <3>1
  <2> QED BY <1>1, <1>3, <2>1, <2>2
<1>6. m \in DOMAIN t
  BY <1>1, <1>3
<1> QED BY <1>1, <1>2, <1>3, <1>4, <1>5, <1>6 DEF Joined

-----------------------------------------------------------------------------
(* The window of BlockAckCache.                                            *)

Whole(c) == Dist(c.winEnd, c.winStart) = Window - 1

(* c holds the bits of b, but for those in S.                              *)
Cached(b, c, S) ==
  /\ c \in Record /\ Whole(c) /\ c.exists = b.exists /\ c.start = b.start /\ c.buffer = b.buffer
  /\ c.bitmap \subseteq b.bitmap \cup S

LEMMA WindowType == Window \in Nat \ {0} /\ Window - 1 \in 0..SeqSpace
  BY SpaceType

LEMMA CacheMpduIs ==
  ASSUME NEW c \in Record, Whole(c), NEW s \in Seqs
  PROVE  Cached(c, CacheMpdu(c, s), {s})
<1>1. /\ c.winStart \in Seqs /\ c.winEnd \in Seqs /\ c.bitmap \in SUBSET Seqs /\ DOMAIN c = DOMAIN NoRecord
  BY DEF Record, NoRecord
<1>2. CASE IsOld(c.winStart, s)
  BY <1>2 DEF CacheMpdu, Cached
<1>3. CASE ~IsOld(c.winStart, s) /\ IsInWindow(s, c.winStart)
  <2>1. PICK bits : bits = c.bitmap \cup {s} /\ bits \in SUBSET Seqs
    BY <1>1
  <2>2. CacheMpdu(c, s) = [c EXCEPT !.bitmap = bits]
    BY <1>3, <2>1 DEF CacheMpdu
  <2>3. PICK d : d = [c EXCEPT !.bitmap = bits]
    OBVIOUS
  <2>4. d \in Record
    BY <2>1, <2>3 DEF Record
  <2>5. /\ d.bitmap = bits /\ d.exists = c.exists /\ d.start = c.start /\ d.buffer = c.buffer
        /\ d.winStart = c.winStart /\ d.winEnd = c.winEnd
    BY <1>1, <2>3 DEF NoRecord
  <2> QED BY <2>1, <2>2, <2>3, <2>4, <2>5 DEF Cached, Whole
<1>4. CASE ~IsOld(c.winStart, s) /\ ~IsInWindow(s, c.winStart)
  <2>1. PICK delta : delta = Dist(s, c.winEnd)
    OBVIOUS
  <2>2. PICK reset : CacheMpdu(c, s) = [c EXCEPT !.bitmap = (@ \ reset) \cup {s}, !.winStart = Plus(@, delta), !.winEnd = s]
    BY <1>4, <2>1, Zenon DEF CacheMpdu
  <2>3. PICK bits : bits = (c.bitmap \ reset) \cup {s} /\ bits \in SUBSET Seqs /\ bits \subseteq c.bitmap \cup {s}
    BY <1>1
  <2>4. PICK a, e : a = c.winStart /\ e = c.winEnd /\ a \in Seqs /\ e \in Seqs
    BY <1>1
  <2>5. delta \in Seqs /\ delta \in 0..SeqSpace
    <3>1. delta \in Seqs
      BY <2>1, <2>4, DistIs
    <3> QED BY <3>1, SpaceType DEF Seqs
  <2>6. PICK b : b = Plus(a, delta) /\ b \in Seqs /\ b = IF a + delta < SeqSpace THEN a + delta ELSE a + delta - SeqSpace
    BY <2>4, <2>5, PlusIs
  <2>7. Dist(s, b) = Window - 1
    <3>1. SeqSpace \in Nat /\ Window \in Nat \ {0} /\ {a, e, s, b} \subseteq 0..(SeqSpace - 1)
      BY <2>4, <2>6, SpaceType DEF Seqs
    <3>2. Window - 1 = IF e < a THEN e + SeqSpace - a ELSE e - a
      BY <2>4, DistIs DEF Whole
    <3>3. delta = IF s < e THEN s + SeqSpace - e ELSE s - e
      BY <2>1, <2>4, DistIs
    <3>4. PICK d : d = Dist(s, b) /\ d = IF s < b THEN s + SeqSpace - b ELSE s - b
      BY <2>6, DistIs
    <3>5. d = Window - 1
      BY <2>6, <3>1, <3>2, <3>3, <3>4
    <3> QED BY <3>4, <3>5
  <2>8. CacheMpdu(c, s) = [c EXCEPT !.bitmap = bits, !.winStart = b, !.winEnd = s]
    BY <2>2, <2>3, <2>4, <2>6
  <2>9. PICK d : d = [c EXCEPT !.bitmap = bits, !.winStart = b, !.winEnd = s]
    OBVIOUS
  <2>10. d \in Record
    BY <2>3, <2>6, <2>9 DEF Record
  <2>11. /\ d.bitmap = bits /\ d.exists = c.exists /\ d.start = c.start /\ d.buffer = c.buffer
         /\ d.winStart = b /\ d.winEnd = s
    BY <1>1, <2>9 DEF NoRecord
  <2> QED BY <2>3, <2>7, <2>8, <2>9, <2>10, <2>11 DEF Cached, Whole
<1> QED BY <1>2, <1>3, <1>4

LEMMA NewWindow ==
  ASSUME NEW s \in Seqs
  PROVE  Plus(s, Window - 1) \in Seqs /\ Dist(Plus(s, Window - 1), s) = Window - 1
<1>1. PICK w : w = Window - 1 /\ w \in 0..SeqSpace /\ w < SeqSpace /\ w \in Nat
  BY SpaceType
<1>2. PICK e : e = Plus(s, w) /\ e \in Seqs /\ e = IF s + w < SeqSpace THEN s + w ELSE s + w - SeqSpace
  BY <1>1, PlusIs
<1>3. PICK d : d = Dist(e, s) /\ d = IF e < s THEN e + SeqSpace - s ELSE e - s
  BY <1>2, DistIs
<1>4. SeqSpace \in Nat /\ s \in 0..(SeqSpace - 1)
  BY SpaceType DEF Seqs
<1>5. d = w
  BY <1>1, <1>2, <1>3, <1>4
<1> QED BY <1>1, <1>2, <1>3, <1>5

LEMMA CacheBlockAckReqIs ==
  ASSUME NEW c \in Record, Whole(c), NEW s \in Seqs
  PROVE  Cached(c, CacheBlockAckReq(c, s), {})
<1>1. DOMAIN c = DOMAIN NoRecord /\ c.bitmap \in SUBSET Seqs
  BY DEF Record, NoRecord
<1>2. CASE IsOld(c.winStart, s) \/ s = c.winStart
  BY <1>2 DEF CacheBlockAckReq, Cached
<1>3. CASE ~(IsOld(c.winStart, s) \/ s = c.winStart)
  <2>1. PICK reset : CacheBlockAckReq(c, s) = [c EXCEPT !.winStart = s, !.winEnd = Plus(s, Window - 1), !.bitmap = @ \ reset]
    BY <1>3, Zenon DEF CacheBlockAckReq
  <2>2. PICK bits, e : bits = c.bitmap \ reset /\ bits \in SUBSET Seqs /\ e = Plus(s, Window - 1) /\ e \in Seqs
    BY <1>1, NewWindow
  <2>3. PICK d : d = [c EXCEPT !.winStart = s, !.winEnd = e, !.bitmap = bits]
    OBVIOUS
  <2>4. d \in Record
    BY <2>2, <2>3 DEF Record
  <2>5. /\ d.bitmap = bits /\ d.exists = c.exists /\ d.start = c.start /\ d.buffer = c.buffer
        /\ d.winStart = s /\ d.winEnd = e
    BY <1>1, <2>3 DEF NoRecord
  <2>6. CacheBlockAckReq(c, s) = d
    BY <2>1, <2>2, <2>3
  <2> QED BY <2>2, <2>4, <2>5, <2>6, NewWindow DEF Cached, Whole
<1> QED BY <1>2, <1>3

LEMMA NoRecordIs == NoRecord \in Record /\ Whole(NoRecord) /\ NoRecord.buffer = <<>> /\ NoRecord.bitmap = {} /\ ~NoRecord.exists
<1>1. 0 \in Seqs /\ Window - 1 \in Seqs
  BY SpaceType DEF Seqs
<1>2. Dist(Window - 1, 0) = Window - 1
  <2>1. ~(Window - 1 < 0) /\ (Window - 1) - 0 = Window - 1
    BY SpaceType
  <2> QED BY <1>1, <2>1, DistIs
<1> QED BY <1>1, <1>2 DEF NoRecord, Record, Whole

(* q is r after a step of the recipient that may have set the bits in S.   *)
Moved(P, r, q, S) ==
  /\ Known(P, q) /\ Whole(q.rx) /\ ToSet(r.up) \subseteq ToSet(q.up)
  /\ q.last = r.last \/ \E x \in P : x[1] = q.last
  /\ q.rx.bitmap \subseteq r.rx.bitmap \cup S /\ q.rx.exists = r.rx.exists

LEMMA StoredIs ==
  ASSUME NEW P, Once(P), Known(P, Recipient), Whole(rx), NEW item \in Item, <<item.seq, item.packet>> \in P
  PROVE  /\ Moved(P, Recipient, Stored(item), {item.seq})
         /\ InHand(Recipient) \cup {item.packet} \subseteq InHand(Stored(item))
<1>1. PICK r, a, buffer : r = Recipient /\ a = r.rx /\ buffer = a.buffer
  OBVIOUS
<1>2. /\ r \in Recv /\ a \in Record /\ buffer \in Seq(Item) /\ DOMAIN r = {"rx", "up", "last"} /\ DOMAIN a = DOMAIN NoRecord
      /\ Whole(a) /\ PairsOf(buffer) \subseteq P /\ \A x \in P : x[1] = r.last => x[2] \in ToSet(r.up)
  <2>1. r \in Recv /\ a \in Record
    BY <1>1, RecvIs DEF Known
  <2> QED BY <1>1, <2>1, RecvIs DEF Known, Recipient
<1>3. PICK I : I = {i \in 1..Len(r.rx.buffer) :
                      MapSeqControl(r.rx.buffer[i].seq * FragMod, r.rx.start) >= MapSeqControl(item.seq * FragMod, r.rx.start)}
  OBVIOUS
<1>4. PICK b : /\ StoreMpdu(r, item) = [r EXCEPT !.rx.buffer = b]
               /\ b = IF I = {} THEN Append(r.rx.buffer, item) ELSE IF Min(I) = 0 THEN Append(r.rx.buffer, item) ELSE InsertAt(r.rx.buffer, Min(I), item)
  BY <1>3 DEF StoreMpdu, InsertBefore, SelectInSeq
<1>5. b \in Seq(Item) /\ Joined(b, buffer, item)
  <2>1. CASE I = {}
    BY <1>1, <1>2, <1>4, <2>1, AppendJoined
  <2>2. CASE I # {}
    <3>1. Len(buffer) \in Nat
      BY <1>2
    <3>2. I \subseteq 1..Len(buffer)
      BY <1>1, <1>3
    <3>3. Min(I) \in 1..Len(buffer) /\ Min(I) # 0
      <4>1. Min(I) \in 1..Len(buffer)
        BY <2>2, <3>1, <3>2, LeastPosition
      <4> QED BY <3>1, <4>1
    <3>4. b = InsertAt(buffer, Min(I), item)
      BY <1>1, <1>4, <2>2, <3>3
    <3> QED BY <1>2, <3>3, <3>4, InsertJoined
  <2> QED BY <2>1, <2>2
<1>6. item.seq \in Seqs /\ item.packet \in Packet
  BY DEF Item
<1>7. PICK c : c = [a EXCEPT !.buffer = b] /\ c \in Record /\ c.buffer = b /\ c.exists = a.exists /\ c.bitmap = a.bitmap /\ Whole(c)
  <2>1. PICK c : c = [a EXCEPT !.buffer = b]
    OBVIOUS
  <2>2. c \in Record
    BY <1>2, <1>5, <2>1 DEF Record
  <2>3. c.buffer = b /\ c.exists = a.exists /\ c.bitmap = a.bitmap /\ c.winStart = a.winStart /\ c.winEnd = a.winEnd
    BY <1>2, <2>1 DEF NoRecord
  <2> QED BY <1>2, <2>1, <2>2, <2>3 DEF Whole
<1>8. PICK d : d = CacheMpdu(c, item.seq) /\ Cached(c, d, {item.seq})
  BY <1>6, <1>7, CacheMpduIs
<1>9. PICK q : q = Stored(item) /\ q = [r EXCEPT !.rx = d] /\ q.rx = d /\ q.up = r.up /\ q.last = r.last /\ q \in Recv
  <2>1. PICK m : m = StoreMpdu(r, item) /\ m = [r EXCEPT !.rx = c]
    BY <1>1, <1>4, <1>7
  <2>2. Stored(item) = [m EXCEPT !.rx = CacheMpdu(@, item.seq)]
    BY <1>1, <2>1 DEF Stored
  <2>3. m.rx = c /\ DOMAIN m = DOMAIN r
    BY <1>2, <2>1
  <2>4. Stored(item) = [m EXCEPT !.rx = d]
    BY <1>8, <2>2, <2>3
  <2>5. Stored(item) = [r EXCEPT !.rx = d]
    BY <1>2, <2>1, <2>4
  <2>6. PICK q : q = [r EXCEPT !.rx = d]
    OBVIOUS
  <2>7. d \in Record
    BY <1>8 DEF Cached
  <2>8. q.rx = d /\ q.up = r.up /\ q.last = r.last
    BY <1>2, <2>6
  <2>9. q \in Recv
    BY <1>2, <2>6, <2>7 DEF Recv
  <2> QED BY <2>5, <2>6, <2>8, <2>9
<1>10. d.buffer = b /\ d.exists = a.exists /\ d.bitmap \subseteq a.bitmap \cup {item.seq} /\ Whole(d)
  BY <1>7, <1>8 DEF Cached
<1>11. PairsOf(b) \subseteq P
  <2> SUFFICES ASSUME NEW i \in DOMAIN b PROVE <<b[i].seq, b[i].packet>> \in P
    BY DEF PairsOf
  <2>1. CASE b[i] = item
    BY <2>1
  <2>2. CASE \E j \in DOMAIN buffer : b[i] = buffer[j]
    BY <1>2, <2>2 DEF PairsOf
  <2> QED BY <1>5, <2>1, <2>2 DEF Joined
<1>12. PacketsOf(buffer) \cup {item.packet} \subseteq PacketsOf(b)
  <2>1. PacketsOf(buffer) \subseteq PacketsOf(b)
    <3> SUFFICES ASSUME NEW j \in DOMAIN buffer PROVE buffer[j].packet \in PacketsOf(b)
      BY DEF PacketsOf
    <3>1. PICK i \in DOMAIN b : b[i] = buffer[j]
      BY <1>5 DEF Joined
    <3> QED BY <3>1 DEF PacketsOf
  <2>2. item.packet \in PacketsOf(b)
    <3>1. PICK i \in DOMAIN b : b[i] = item
      BY <1>5 DEF Joined
    <3> QED BY <3>1 DEF PacketsOf
  <2> QED BY <2>1, <2>2
<1>13. Known(P, q)
  BY <1>2, <1>9, <1>10, <1>11 DEF Known
<1>14. InHand(r) \cup {item.packet} \subseteq InHand(q)
  BY <1>1, <1>9, <1>10, <1>12 DEF InHand
<1> QED BY <1>1, <1>9, <1>10, <1>13, <1>14 DEF Moved

(* The handlers of MacLow that hand up what follows in order.              *)
LEMMA CompletedIs ==
  ASSUME NEW P, Once(P), NEW r, NEW q, NEW S, Moved(P, r, q, S), NEW s
  PROVE  /\ Moved(P, r, RxCompleteUntilLost(RxCompleteSmaller(q, s)), S)
         /\ InHand(q) \subseteq InHand(RxCompleteUntilLost(RxCompleteSmaller(q, s)))
         /\ RxCompleteUntilLost(RxCompleteSmaller(q, s)).rx.bitmap = q.rx.bitmap
<1>1. PICK y, z : y = RxCompleteSmaller(q, s) /\ z = RxCompleteUntilLost(y)
  OBVIOUS
<1>2. Passed(P, q, y)
  BY <1>1, SmallerIs DEF Moved
<1>3. Moved(P, r, y, S) /\ InHand(q) \subseteq InHand(y) /\ y.rx.bitmap = q.rx.bitmap
  BY <1>2 DEF Moved, Passed, Whole
<1>4. Passed(P, y, z)
  BY <1>1, <1>3, UntilLostIs DEF Moved
<1>5. Moved(P, r, z, S) /\ InHand(y) \subseteq InHand(z) /\ z.rx.bitmap = y.rx.bitmap
  BY <1>3, <1>4 DEF Moved, Passed, Whole
<1> QED BY <1>1, <1>3, <1>5

LEMMA SameMoved ==
  ASSUME NEW P, NEW r, Known(P, r), Whole(r.rx), NEW S
  PROVE  Moved(P, r, r, S)
  BY DEF Moved

(* A request moves the window before anything is handed up.                *)
LEMMA RequestedIs ==
  ASSUME NEW P, Known(P, Recipient), Whole(rx), NEW s \in Seqs,
         NEW q, q = [Recipient EXCEPT !.rx = CacheBlockAckReq(@, s)]
  PROVE  Moved(P, Recipient, q, {}) /\ InHand(q) = InHand(Recipient)
<1>1. PICK r, a, c : r = Recipient /\ a = r.rx /\ c = CacheBlockAckReq(a, s)
  OBVIOUS
<1>2. r \in Recv /\ a \in Record /\ Whole(a) /\ DOMAIN r = {"rx", "up", "last"}
  <2>1. r \in Recv /\ a \in Record
    BY <1>1, RecvIs DEF Known
  <2> QED BY <1>1, <2>1, RecvIs DEF Recipient
<1>3. Cached(a, c, {})
  BY <1>1, <1>2, CacheBlockAckReqIs
<1>4. q.rx = c /\ q.up = r.up /\ q.last = r.last
  BY <1>1, <1>2
<1>5. q \in Recv
  BY <1>1, <1>2, <1>3 DEF Recv, Cached
<1> QED BY <1>1, <1>3, <1>4, <1>5 DEF Moved, Known, Cached, InHand

LEMMA DestroyIs ==
  ASSUME NEW P, Once(P), NEW r, Known(P, r), Whole(r.rx)
  PROVE  \E q : /\ Destroy(r) = q /\ Known(P, q) /\ Whole(q.rx) /\ ToSet(r.up) \subseteq ToSet(q.up)
                /\ q.last = r.last \/ \E x \in P : x[1] = q.last
                /\ q.rx.bitmap \subseteq r.rx.bitmap
                /\ (q.rx.exists \/ q.rx.buffer = <<>> \/ q = r)
<1>1. CASE ~r.rx.exists
  BY <1>1 DEF Destroy
<1>2. CASE r.rx.exists
  <2>1. PICK s, z : s = r.rx.start /\ z = RxCompleteUntilLost(RxCompleteSmaller(r, s))
    OBVIOUS
  <2>2. Moved(P, r, z, {})
    BY <2>1, SameMoved, CompletedIs
  <2>3. PICK q : q = [z EXCEPT !.rx = NoRecord] /\ q = Destroy(r)
    BY <1>2, <2>1 DEF Destroy
  <2>4. z \in Recv /\ DOMAIN z = {"rx", "up", "last"}
    BY <2>2, RecvIs DEF Moved, Known
  <2>5. q.rx = NoRecord /\ q.up = z.up /\ q.last = z.last
    BY <2>3, <2>4
  <2>6. q \in Recv
    BY <2>3, <2>4, NoRecordIs DEF Recv
  <2>7. Known(P, q)
    <3>1. PairsOf(<<>>) = {}
      BY DEF PairsOf
    <3> QED BY <2>2, <2>5, <2>6, <3>1, NoRecordIs DEF Moved, Known
  <2>8. /\ Whole(q.rx) /\ ToSet(r.up) \subseteq ToSet(q.up) /\ q.rx.bitmap \subseteq r.rx.bitmap /\ q.rx.buffer = <<>>
        /\ q.last = r.last \/ \E x \in P : x[1] = q.last
    BY <2>2, <2>5, NoRecordIs DEF Moved
  <2> QED BY <2>3, <2>7, <2>8
<1> QED BY <1>1, <1>2

-----------------------------------------------------------------------------
(* Frames, and what they carry.                                            *)

FramePairs(f) == IF f.kind = "data" THEN {<<f.item.seq, f.item.packet>>} ELSE {}
FrameBits(f) == IF f.kind = "ba" THEN f.acked ELSE {}
BaFrame(s, acked) == [kind |-> "ba", start |-> s, acked |-> acked]

LEMMA FrameIs ==
  /\ NoFrame \in Frame /\ \A k \in {"ack", "delba", "resp"} : Management(k) \in Frame
  /\ \A s \in Seqs : BarFrame(s) \in Frame /\ AddBa(s) \in Frame
  /\ \A item \in Item, policy \in {"block", "normal"} : DataFrame(item, policy) \in Frame
  /\ \A s \in Seqs, acked \in SUBSET Seqs : BaFrame(s, acked) \in Frame
  BY DEF NoFrame, Management, BarFrame, AddBa, DataFrame, BaFrame, Frame

LEMMA FrameHas ==
  ASSUME NEW f \in Frame
  PROVE  /\ f.kind = "data" => f.item \in Item /\ f.policy \in {"block", "normal"} /\ f = DataFrame(f.item, f.policy)
         /\ f.kind \in {"bar", "addba", "ba"} => f.start \in Seqs
         /\ f.kind = "ba" => f.acked \in SUBSET Seqs
  BY DEF Frame, DataFrame

LEMMA PairsIs ==
  /\ FramePairs(NoFrame) = {} /\ \A k : k # "data" => FramePairs(Management(k)) = {}
  /\ \A s : FramePairs(BarFrame(s)) = {} /\ FramePairs(AddBa(s)) = {}
  /\ \A item, policy : FramePairs(DataFrame(item, policy)) = {<<item.seq, item.packet>>}
  /\ \A s, acked : FramePairs(BaFrame(s, acked)) = {} /\ FrameBits(BaFrame(s, acked)) = acked
  /\ \A f : f.kind # "ba" => FrameBits(f) = {}
  BY DEF NoFrame, Management, BarFrame, AddBa, DataFrame, BaFrame, FramePairs, FrameBits

(* A frame that is sent again keeps its packet and its number.             *)
LEMMA SentAgain ==
  ASSUME NEW f \in Frame, f.kind = "data", NEW g, g = [f EXCEPT !.item.retry = TRUE]
  PROVE  g \in Frame /\ g.kind = "data" /\ FramePairs(g) = FramePairs(f) /\ g.item.packet = f.item.packet
<1>1. PICK item, policy : item \in Item /\ policy \in {"block", "normal"} /\ f = DataFrame(item, policy)
  BY FrameHas
<1>2. PICK again : again = [item EXCEPT !.retry = TRUE] /\ again \in Item /\ again.seq = item.seq /\ again.packet = item.packet
  <2>1. PICK again : again = [item EXCEPT !.retry = TRUE]
    OBVIOUS
  <2>2. again \in Item /\ again.seq = item.seq /\ again.packet = item.packet
    BY <1>1, <2>1 DEF Item
  <2> QED BY <2>1, <2>2
<1>3. g = DataFrame(again, policy)
  BY <1>1, <1>2 DEF DataFrame
<1>4. FramePairs(g) = {<<again.seq, again.packet>>} /\ FramePairs(f) = {<<item.seq, item.packet>>}
  BY <1>1, <1>3, PairsIs
<1>5. g.item = again /\ f.item = item /\ g.kind = "data"
  BY <1>1, <1>3 DEF DataFrame
<1>6. g \in Frame
  BY <1>1, <1>2, <1>3, FrameIs, ZenonT(60)
<1> QED BY <1>2, <1>4, <1>5, <1>6

Facing == low = "ack" => air \in {cur, NoFrame, Management("ack")}
FrameInv == {cur, rcur, air} \subseteq Frame /\ Facing /\ rcur.kind \in {"none", "resp", "delba"}

LEMMA FrameSteps1 ==
  ASSUME WindowInv, FrameInv,
         \/ Queue \/ Expire \/ Lose \/ EndTxNoAck
         \/ ReceiveUnderBlockAck \/ ReceiveUnderNormalAck \/ ReceiveAddBaRequest \/ ReceiveDelBa
         \/ ReceiveAddBaResponse \/ GotDelBaFrame \/ GotBlockAck \/ GotAck \/ ReplyGotAck
         \/ MissedAck \/ ReplyMissedAck \/ MissedBlockAck
         \/ \E side \in {"originator", "recipient"} : InactivityTimeout(side)
  PROVE  FrameInv'
<1>1. rcur' = rcur \/ rcur' = NoFrame
  BY DEF Queue, Expire, Lose, EndTxNoAck, ReceiveUnderBlockAck, ReceiveUnderNormalAck, ReceiveAddBaRequest, ReceiveDelBa,
         ReceiveAddBaResponse, GotDelBaFrame, GotBlockAck, GotAck, ReplyGotAck, MissedAck, ReplyMissedAck, MissedBlockAck,
         InactivityTimeout, receiver
<1>2. \/ cur' = cur \/ (cur' = NoFrame /\ low' # "ack")
      \/ (cur.kind = "data" /\ cur' = [cur EXCEPT !.item.retry = TRUE] /\ low' # "ack")
  BY DEF Queue, Expire, Lose, EndTxNoAck, ReceiveUnderBlockAck, ReceiveUnderNormalAck, ReceiveAddBaRequest, ReceiveDelBa,
         ReceiveAddBaResponse, GotDelBaFrame, GotBlockAck, GotAck, ReplyGotAck, MissedAck, ReplyMissedAck, MissedBlockAck,
         InactivityTimeout, sender, NothingElseReceived, Answered, TimedOut
<1>3. (low' = low \/ low' # "ack") /\ (air' = air \/ air' = NoFrame \/ air' = Management("ack"))
  BY DEF Queue, Expire, Lose, EndTxNoAck, ReceiveUnderBlockAck, ReceiveUnderNormalAck, ReceiveAddBaRequest, ReceiveDelBa,
         ReceiveAddBaResponse, GotDelBaFrame, GotBlockAck, GotAck, ReplyGotAck, MissedAck, ReplyMissedAck, MissedBlockAck,
         InactivityTimeout, medium, NothingElseReceived, Answered, TimedOut
<1>4. cur' \in Frame
  BY <1>2, FrameIs, SentAgain DEF FrameInv
<1>5. rcur' \in Frame /\ air' \in Frame /\ rcur'.kind \in {"none", "resp", "delba"}
  BY <1>1, <1>3, FrameIs, Kinds DEF FrameInv
<1>6. Facing'
  BY <1>2, <1>3 DEF FrameInv, Facing
<1> QED BY <1>4, <1>5, <1>6 DEF FrameInv

LEMMA ItemOfRetry ==
  ASSUME HalfTheNumbers, WindowInv, Prepared.retry # <<>>,
         NEW item, item = Prepared.sent[SelectInSeq(Prepared.sent, LAMBDA it : it.seq = Head(Prepared.retry))]
  PROVE  item \in Item /\ \E j \in DOMAIN ba.sent : item = ba.sent[j]
<1>1. PICK b, s : b = Prepared /\ s = Head(Prepared.retry)
  OBVIOUS
<1>2. Ordered(b, Draw(nextSeq)) /\ Among(b.sent, ba.sent)
  BY <1>1, PreparedWindow DEF Less
<1>3. b.sent \in Seq(Item) /\ b.retry \in Seq(Seqs) /\ \A i \in DOMAIN b.retry : InSent(b, b.retry[i])
  BY <1>2, AgreementIs DEF Ordered
<1>4. 1 \in DOMAIN b.retry /\ s = b.retry[1]
  BY <1>1, <1>3, Rest
<1>5. PICK I : I = {i \in 1..Len(Prepared.sent) : Prepared.sent[i].seq = Head(Prepared.retry)}
  OBVIOUS
<1>6. Len(b.sent) \in Nat /\ DOMAIN b.sent = 1..Len(b.sent)
  BY <1>3
<1>7. I \subseteq 1..Len(b.sent) /\ I # {}
  <2>1. PICK i \in DOMAIN b.sent : b.sent[i].seq = s
    BY <1>3, <1>4 DEF InSent
  <2> QED BY <1>1, <1>5, <1>6, <2>1
<1>8. PICK m : m = Min(I) /\ m \in DOMAIN b.sent
  BY <1>6, <1>7, LeastPosition
<1>9. item = b.sent[m]
  BY <1>1, <1>5, <1>7, <1>8 DEF SelectInSeq
<1> QED BY <1>2, <1>3, <1>8, <1>9 DEF Among

LEMMA FrameSteps2 ==
  ASSUME HalfTheNumbers, WindowInv, FrameInv,
         \/ Resend \/ SendBlockAckRequest \/ SendDelba \/ SetupBlockAck \/ SendNothing \/ SendReply
         \/ SendRetry \/ SendFirst
  PROVE  FrameInv'
<1>1. CASE Resend \/ SendBlockAckRequest \/ SendDelba \/ SetupBlockAck \/ SendRetry \/ SendFirst
  <2>1. air' = cur' /\ rcur' = rcur
    BY <1>1 DEF Resend, SendBlockAckRequest, SendDelba, SetupBlockAck, SendRetry, SendFirst, Transmit,
                NothingElseSent, receiver
  <2>2. cur' \in Frame
    <3>1. CASE Resend
      BY <3>1 DEF Resend, Transmit, FrameInv
    <3>2. CASE SendBlockAckRequest
      <4>1. cur' = BarFrame(Head(ba.bars)) /\ ba.bars # <<>>
        BY <3>2 DEF SendBlockAckRequest, Transmit
      <4>2. PICK z \in Seqs : ba.bars = <<z>>
        BY <4>1 DEF WindowInv, Asked
      <4>3. Head(<<z>>) = z
        OBVIOUS
      <4> QED BY <4>1, <4>2, <4>3, FrameIs
    <3>3. CASE SendDelba
      BY <3>3, FrameIs DEF SendDelba, Transmit
    <3>4. CASE SetupBlockAck
      BY <3>4, FrameIs DEF SetupBlockAck, Transmit, WindowInv, Numbered
    <3>5. CASE SendRetry
      <4>1. PICK item : item = Prepared.sent[SelectInSeq(Prepared.sent, LAMBDA it : it.seq = Head(Prepared.retry))]
        OBVIOUS
      <4>2. Prepared.retry # <<>> /\ cur' = DataFrame([item EXCEPT !.retry = TRUE], "block")
        BY <3>5, <4>1 DEF SendRetry, Transmit
      <4>3. item \in Item
        BY <4>1, <4>2, ItemOfRetry
      <4>4. [item EXCEPT !.retry = TRUE] \in Item
        BY <4>3 DEF Item
      <4> QED BY <4>2, <4>4, FrameIs
    <3>6. CASE SendFirst
      <4>1. PICK item : item = [packet |-> Head(queue), seq |-> nextSeq, retry |-> FALSE]
        OBVIOUS
      <4>2. queue # <<>> /\ (cur' = DataFrame(item, "block") \/ cur' = DataFrame(item, "normal"))
        BY <3>6, <4>1 DEF SendFirst, HasData, Transmit
      <4>3. Head(queue) \in Packet /\ nextSeq \in Seqs
        BY <4>2, Rest DEF WindowInv, Numbered
      <4>4. item \in Item
        BY <4>1, <4>3 DEF Item
      <4> QED BY <4>2, <4>4, FrameIs
    <3> QED BY <1>1, <3>1, <3>2, <3>3, <3>4, <3>5, <3>6
  <2> QED BY <2>1, <2>2 DEF FrameInv, Facing
<1>2. CASE SendNothing
  BY <1>2 DEF SendNothing, NothingElseSent, medium, receiver, FrameInv, Facing
<1>3. CASE SendReply
  <2>1. cur' = cur /\ air' = rcur' /\ low' # "ack"
    BY <1>3 DEF SendReply, sender
  <2>2. rcur' = rcur \/ (replies # <<>> /\ rcur' = Management(Head(replies)))
    BY <1>3 DEF SendReply
  <2>3. rcur' \in Frame /\ rcur'.kind \in {"none", "resp", "delba"}
    <3>1. CASE replies # <<>> /\ rcur' = Management(Head(replies))
      <4>1. replies \in Seq({"resp", "delba"})
        BY DEF WindowInv, PacketInv, Serving
      <4>2. Head(replies) \in {"resp", "delba"}
        BY <3>1, <4>1, Rest
      <4> QED BY <3>1, <4>2, FrameIs, Kinds
    <3> QED BY <2>2, <3>1 DEF FrameInv
  <2> QED BY <2>1, <2>3 DEF FrameInv, Facing
<1> QED BY <1>1, <1>2, <1>3

(* The packets on their way, and the bits that stand for packets.          *)
Way  == PairsOf(ba.sent) \cup PairsOf(rx.buffer) \cup FramePairs(cur) \cup FramePairs(air)
Bits == rx.bitmap \cup FrameBits(air)

(* s is one of the first n numbers. *)
Drawn(n, s) == s \in Seqs /\ Draw(s) < n

(* Of the first n numbers, each belongs to one packet.                     *)
RecInv(P, r, B, n) ==
  /\ Known(P, r) /\ Once(P) /\ Whole(r.rx) /\ (r.rx.exists \/ r.rx.buffer = <<>>)
  /\ \A x \in P : Drawn(n, x[1])
  /\ r.last = SeqSpace \/ Drawn(n, r.last)
  /\ \A s \in B : Drawn(n, s)

RecipientInv == RecInv(Way, Recipient, Bits, Draw(nextSeq))

LEMMA WayStep ==
  ASSUME NEW P, NEW r, NEW B, NEW n, RecInv(P, r, B, n),
         NEW Q, Q \subseteq P, NEW q, Known(P, q), PairsOf(q.rx.buffer) \subseteq Q, Whole(q.rx),
         q.rx.exists \/ q.rx.buffer = <<>>,
         q.last = r.last \/ \E x \in P : x[1] = q.last,
         NEW C, \A s \in C : s \in B \/ \E x \in P : x[1] = s
  PROVE  RecInv(Q, q, C, n)
<1>1. Known(Q, q)
  BY DEF Known
<1>2. Once(Q)
  BY DEF RecInv, Once
<1>3. (\A x \in Q : Drawn(n, x[1])) /\ (q.last = SeqSpace \/ Drawn(n, q.last)) /\ (\A s \in C : Drawn(n, s))
  BY DEF RecInv
<1> QED BY <1>1, <1>2, <1>3 DEF RecInv

LEMMA RecipientIs == Recipient.rx = rx /\ Recipient.up = up /\ Recipient.last = lastSeq
  BY DEF Recipient

(* A step after which nothing new is on its way.                           *)
Quiet == /\ nextSeq' = nextSeq /\ PairsOf(ba'.sent) \subseteq PairsOf(ba.sent)
         /\ FramePairs(cur') \subseteq Way /\ FramePairs(air') \subseteq Way

LEMMA QuietStep ==
  ASSUME RecipientInv, Quiet, Known(Way, Recipient'), Whole(rx'), rx'.exists \/ rx'.buffer = <<>>,
         lastSeq' = lastSeq \/ \E x \in Way : x[1] = lastSeq',
         \A s \in Bits' : s \in Bits \/ \E x \in Way : x[1] = s
  PROVE  RecipientInv'
<1>1. PICK P, Q, r, q, B, C, n : /\ P = Way /\ Q = Way' /\ r = Recipient /\ q = Recipient'
                                 /\ B = Bits /\ C = Bits' /\ n = Draw(nextSeq)
  OBVIOUS
<1>2. q.rx = rx' /\ q.last = lastSeq' /\ r.last = lastSeq
  BY <1>1 DEF Recipient
<1>3. PairsOf(q.rx.buffer) \subseteq P
  BY <1>1 DEF Known
<1>4. Q \subseteq P
  BY <1>1, <1>2, <1>3 DEF Way, Quiet
<1>5. PairsOf(q.rx.buffer) \subseteq Q
  BY <1>1, <1>2 DEF Way
<1>6. RecInv(P, r, B, n) /\ Known(P, q) /\ Whole(q.rx) /\ (q.rx.exists \/ q.rx.buffer = <<>>)
  BY <1>1, <1>2 DEF RecipientInv
<1>7. (q.last = r.last \/ \E x \in P : x[1] = q.last) /\ \A s \in C : s \in B \/ \E x \in P : x[1] = s
  BY <1>1, <1>2
<1>8. RecInv(Q, q, C, n)
  BY <1>4, <1>5, <1>6, <1>7, WayStep
<1>9. n = Draw(nextSeq')
  BY <1>1 DEF Quiet
<1> QED BY <1>1, <1>8, <1>9 DEF RecipientInv

(* A step that leaves the recipient alone.                                 *)
LEMMA AloneStep ==
  ASSUME RecipientInv, Quiet, UNCHANGED <<rx, up, lastSeq>>, FrameBits(air') \subseteq FrameBits(air)
  PROVE  RecipientInv' /\ InHand(Recipient) = InHand(Recipient') /\ Bits' \subseteq Bits /\ Way' \subseteq Way
<1>1. Recipient' = Recipient
  BY DEF Recipient
<1>2. Bits' \subseteq Bits
  BY DEF Bits
<1>3. Known(Way, Recipient) /\ Whole(rx) /\ (rx.exists \/ rx.buffer = <<>>)
  BY RecipientIs DEF RecipientInv, RecInv
<1>4. RecipientInv'
  BY <1>1, <1>2, <1>3, QuietStep
<1>5. Way' \subseteq Way
  BY DEF Way, Quiet
<1> QED BY <1>1, <1>2, <1>4, <1>5

-----------------------------------------------------------------------------
(* Steps after which nothing new is on its way.                            *)

LEMMA SentShrinks ==
  ASSUME HalfTheNumbers, WindowInv, Next, ~SendFirst
  PROVE  PairsOf(ba'.sent) \subseteq PairsOf(ba.sent)
<1>1. PICK a, n : a = ba /\ n = Draw(nextSeq) /\ n \in 0..Cardinality(Packet) /\ n \in Nat /\ Ordered(a, n)
                  /\ DOMAIN a = DOMAIN NoAgreement /\ a.sent \in Seq(Item) /\ nextSeq \in Seqs /\ expired \in Nat
  BY NumberedIs, AgreementIs DEF WindowInv, Ordered, Numbered
<1>2. PairsOf(<<>>) = {}
  BY DEF PairsOf
<1>3. ASSUME NEW b, Ordered(b, n), Among(b.sent, a.sent) PROVE PairsOf(b.sent) \subseteq PairsOf(a.sent)
  <2>1. b.sent \in Seq(Item)
    BY <1>3, AgreementIs DEF Ordered
  <2> QED BY <1>1, <1>3, <2>1, PartItems
<1>4. CASE ba' = ba \/ ba' = NoAgreement
  BY <1>2, <1>4, NoAgreementIs
<1>5. CASE SendBlockAckRequest \/ ReceiveAddBaResponse
  <2>1. ba' = ba \/ ba' = [ba EXCEPT !.bars = Tail(@)] \/ ba' = [ba EXCEPT !.state = "established"]
    BY <1>5 DEF SendBlockAckRequest, ReceiveAddBaResponse, Established
  <2>2. ba'.sent = ba.sent
    BY <1>1, <2>1 DEF NoAgreement
  <2> QED BY <2>2
<1>6. CASE SetupBlockAck
  <2>1. ba'.sent = <<>>
    BY <1>6 DEF SetupBlockAck, NoAgreement
  <2> QED BY <1>2, <2>1
<1>7. CASE SendDelba \/ SendNothing
  <2>1. PICK b : b = ba' /\ Ordered(b, n) /\ Among(b.sent, a.sent)
    BY <1>1, <1>7, PreparedWindow DEF SendDelba, SendNothing, Less
  <2> QED BY <1>1, <1>3, <2>1
<1>8. CASE SendRetry
  <2>1. PICK b, s, start, c :
          /\ b = Prepared /\ s = Head(b.retry) /\ start = IF s > Plus(b.start, Window - 1) THEN s ELSE b.start
          /\ c = [b EXCEPT !.retry = Tail(@), !.start = start]
    BY Zenon
  <2>2. Ordered(b, n) /\ b.bars = <<>> /\ b.retry # <<>> /\ Among(b.sent, a.sent) /\ ba' = NotifyMpduTransmission(c, nextSeq, queue)
    BY <1>1, <1>8, <2>1, PreparedWindow DEF Less, SendRetry, HasNoBar
  <2>3. Resent(b, start, c)
    BY <2>1 DEF Resent
  <2>4. Ordered(c, n) /\ c.bars = <<>> /\ c.sent = b.sent
    <3>1. Ordered(c, n) /\ c.bars = b.bars /\ c.sent = b.sent
      BY <1>1, <2>2, <2>3, RetryOrdered
    <3> QED BY <2>2, <3>1
  <2>5. PICK next, rest : next = nextSeq /\ rest = queue /\ next \in Seqs
    BY <1>1
  <2>6. NotifyMpduTransmission(c, next, rest).sent = c.sent
    BY <1>1, <2>4, <2>5, TransmissionOrdered
  <2>7. ba'.sent = b.sent
    BY <2>2, <2>4, <2>5, <2>6
  <2> QED BY <1>1, <1>3, <2>2, <2>7
<1>9. CASE MissedBlockAck
  <2>1. PICK b : b = ba' /\ b = Cleanup(a)
    BY <1>1, <1>9 DEF MissedBlockAck
  <2>2. Ordered(b, n) /\ Among(b.sent, a.sent)
    BY <1>1, <2>1, CleanupOrdered DEF Less
  <2> QED BY <1>1, <1>3, <2>1, <2>2
<1>10. CASE GotBlockAck
  <2>1. CASE ba.state = "established"
    <3>1. PICK b, acked : b = ba' /\ acked = air.acked /\ b = NotifyGotBlockAck(a, acked)
      BY <1>1, <1>10, <2>1 DEF GotBlockAck
    <3>2. \A i \in DOMAIN a.retry : a.retry[i] \notin acked
      <4>1. cur.kind = "bar" /\ air.start = cur.start /\ \A s \in acked : IsInWindow(s, air.start)
        BY <1>10, <3>1 DEF GotBlockAck, WindowInv, Answering
      <4>2. Outside(a, cur.start)
        BY <1>1, <4>1 DEF WindowInv, Requested
      <4> QED BY <4>1, <4>2 DEF Outside
    <3>3. b.sent = Without(a.sent, acked)
      BY <1>1, <2>1, <3>1, <3>2, BlockAckOrdered
    <3>4. PICK t : t = Without(a.sent, acked) /\ t \in Seq(Item) /\ Among(t, a.sent)
      <4>1. Without(a.sent, acked) \in Seq(Item) /\ Part(Without(a.sent, acked), a.sent)
        BY <1>1, WithoutPart
      <4> QED BY <4>1 DEF Part, Among
    <3>5. PairsOf(t) \subseteq PairsOf(a.sent)
      BY <1>1, <3>4, PartItems
    <3> QED BY <1>1, <3>1, <3>3, <3>4, <3>5
  <2>2. CASE ba.state # "established"
    BY <1>4, <1>10, <2>2 DEF GotBlockAck
  <2> QED BY <2>1, <2>2
<1>11. CASE \/ Queue \/ Expire \/ Lose \/ Resend \/ EndTxNoAck \/ SendReply
            \/ ReceiveUnderBlockAck \/ ReceiveUnderNormalAck \/ ReceiveBlockAckReq
            \/ ReceiveAddBaRequest \/ ReceiveDelBa \/ GotDelBaFrame \/ GotAck \/ ReplyGotAck
            \/ MissedAck \/ ReplyMissedAck \/ \E side \in {"originator", "recipient"} : InactivityTimeout(side)
  <2>1. ba' = ba \/ ba' = NoAgreement
    BY <1>11 DEF Queue, Expire, Lose, Resend, EndTxNoAck, SendReply, ReceiveUnderBlockAck, ReceiveUnderNormalAck,
         ReceiveBlockAckReq, ReceiveAddBaRequest, ReceiveDelBa, GotDelBaFrame, GotAck, TearDownBlockAck, ReplyGotAck,
         MissedAck, ReplyMissedAck, InactivityTimeout, NothingElseReceived, sender
  <2> QED BY <1>4, <2>1
<1> QED BY <1>5, <1>6, <1>7, <1>8, <1>9, <1>10, <1>11 DEF Next, Originate, Receive, Timeout

LEMMA QuietFrames ==
  ASSUME HalfTheNumbers, WindowInv, FrameInv, Next, ~SendFirst
  PROVE  FramePairs(cur') \subseteq Way /\ FramePairs(air') \subseteq Way
<1>1. CASE SendRetry
  <2>1. PICK item, again : /\ item = Prepared.sent[SelectInSeq(Prepared.sent, LAMBDA it : it.seq = Head(Prepared.retry))]
                           /\ again = [item EXCEPT !.retry = TRUE]
    OBVIOUS
  <2>2. Prepared.retry # <<>> /\ cur' = DataFrame(again, "block") /\ air' = cur'
    BY <1>1, <2>1 DEF SendRetry, Transmit
  <2>3. PICK j \in DOMAIN ba.sent : item = ba.sent[j] /\ item \in Item
    BY <2>1, <2>2, ItemOfRetry
  <2>4. again.seq = item.seq /\ again.packet = item.packet
    BY <2>1, <2>3 DEF Item
  <2>5. FramePairs(cur') = {<<item.seq, item.packet>>}
    BY <2>2, <2>4, PairsIs
  <2>6. <<item.seq, item.packet>> \in PairsOf(ba.sent)
    BY <2>3 DEF PairsOf
  <2> QED BY <2>2, <2>5, <2>6 DEF Way
<1>2. CASE ~SendRetry
  <2>1. \/ cur' = cur \/ cur' = NoFrame \/ cur' = Management("delba") \/ (\E s : cur' = BarFrame(s) \/ cur' = AddBa(s))
        \/ cur.kind = "data" /\ cur' = [cur EXCEPT !.item.retry = TRUE]
    BY <1>2 DEF Next, Originate, Receive, Timeout, Queue, Expire, Lose, Resend, SendBlockAckRequest, SendDelba,
           SetupBlockAck, SendNothing, EndTxNoAck, SendReply, ReceiveUnderBlockAck, ReceiveUnderNormalAck,
           ReceiveBlockAckReq, ReceiveAddBaRequest, ReceiveDelBa, ReceiveAddBaResponse, GotDelBaFrame, GotBlockAck,
           GotAck, ReplyGotAck, MissedAck, ReplyMissedAck, MissedBlockAck, InactivityTimeout,
           NothingElseSent, NothingElseReceived, NothingElseTold, Transmit, sender
  <2>2. FramePairs(cur') \subseteq Way
    <3>1. CASE cur.kind = "data" /\ cur' = [cur EXCEPT !.item.retry = TRUE]
      <4>1. FramePairs(cur') = FramePairs(cur)
        BY <3>1, SentAgain DEF FrameInv
      <4> QED BY <4>1 DEF Way
    <3> QED BY <2>1, <3>1, PairsIs DEF Way
  <2>3. \/ air' = air \/ air' = cur' \/ air' = NoFrame \/ air' = Management("ack") \/ (SendReply /\ air' = rcur')
        \/ \E s, acked : air' = BaFrame(s, acked)
    BY <1>2 DEF Next, Originate, Receive, Timeout, Queue, Expire, Lose, Resend, SendBlockAckRequest, SendDelba,
           SetupBlockAck, SendNothing, EndTxNoAck, SendReply, ReceiveUnderBlockAck, ReceiveUnderNormalAck,
           ReceiveBlockAckReq, ReceiveAddBaRequest, ReceiveDelBa, ReceiveAddBaResponse, GotDelBaFrame, GotBlockAck,
           GotAck, ReplyGotAck, MissedAck, ReplyMissedAck, MissedBlockAck, InactivityTimeout,
           Answered, TimedOut, Transmit, medium, BaFrame
  <2>4. SendReply => rcur'.kind # "data"
    <3>1. SUFFICES ASSUME SendReply PROVE rcur'.kind # "data"
      OBVIOUS
    <3>2. rcur' = rcur \/ (replies # <<>> /\ rcur' = Management(Head(replies)))
      BY <3>1 DEF SendReply
    <3>3. replies # <<>> => Head(replies) # "data"
      <4>1. replies \in Seq({"resp", "delba"})
        BY DEF WindowInv, PacketInv, Serving
      <4>2. replies # <<>> => Head(replies) \in {"resp", "delba"}
        BY <4>1, Rest
      <4> QED BY <4>2
    <3> QED BY <3>2, <3>3, Kinds DEF FrameInv
  <2>5. SendReply => FramePairs(rcur') = {}
    BY <2>4 DEF FramePairs
  <2> QED BY <2>2, <2>3, <2>5, PairsIs DEF Way
<1> QED BY <1>1, <1>2

LEMMA QuietSteps ==
  ASSUME HalfTheNumbers, WindowInv, FrameInv, Next, ~SendFirst
  PROVE  Quiet
<1>1. nextSeq' = nextSeq
  BY DEF Next, Originate, Receive, Timeout, Queue, Expire, Lose, Resend, SendBlockAckRequest, SendRetry, SendDelba,
         SetupBlockAck, SendNothing, EndTxNoAck, SendReply, ReceiveUnderBlockAck, ReceiveUnderNormalAck,
         ReceiveBlockAckReq, ReceiveAddBaRequest, ReceiveDelBa, ReceiveAddBaResponse, GotDelBaFrame, GotBlockAck,
         GotAck, ReplyGotAck, MissedAck, ReplyMissedAck, MissedBlockAck, InactivityTimeout,
         NothingElseReceived, NothingElseTold, sender
<1> QED BY <1>1, QuietFrames, SentShrinks DEF Quiet

(* Steps of the originator, and steps that lose.                           *)
LEMMA AloneSteps ==
  ASSUME HalfTheNumbers, WindowInv, FrameInv, RecipientInv, Next,
         \/ Queue \/ Expire \/ Lose
         \/ Resend \/ SendBlockAckRequest \/ SendRetry \/ SendDelba \/ SetupBlockAck \/ SendNothing \/ EndTxNoAck
         \/ SendReply \/ ReceiveAddBaResponse \/ GotDelBaFrame \/ GotBlockAck \/ GotAck
         \/ (ReplyGotAck /\ rcur.kind # "delba")
         \/ MissedAck \/ ReplyMissedAck \/ MissedBlockAck
         \/ \E side \in {"originator", "recipient"} : InactivityTimeout(side),
         ~SendFirst
  PROVE  /\ RecipientInv' /\ InHand(Recipient) = InHand(Recipient') /\ Bits' \subseteq Bits /\ Way' \subseteq Way
         /\ FrameBits(air') \subseteq FrameBits(air)
<1>1. UNCHANGED <<rx, up, lastSeq>>
  BY DEF Queue, Expire, Lose, Resend, SendBlockAckRequest, SendRetry, SendDelba,
         SetupBlockAck, SendNothing, EndTxNoAck, SendReply, ReceiveAddBaResponse, GotDelBaFrame, GotBlockAck,
         GotAck, ReplyGotAck, MissedAck, ReplyMissedAck, MissedBlockAck, InactivityTimeout,
         NothingElseSent, receiver
<1>2. FrameBits(air') \subseteq FrameBits(air)
  <2>1. CASE SendRetry
    BY <2>1, PairsIs, Kinds DEF SendRetry, Transmit
  <2>2. CASE Resend
    BY <2>2, PairsIs DEF Resend, Transmit, WindowInv, PacketInv, Serving
  <2>3. CASE SendReply
    <3>1. air'.kind # "ba"
      BY <2>3 DEF SendReply, WindowInv, PacketInv, Serving, Management
    <3> QED BY <3>1, PairsIs
  <2>4. CASE SendBlockAckRequest \/ SendDelba \/ SetupBlockAck
    <3>1. air' = Management("delba") \/ \E s : air' = BarFrame(s) \/ air' = AddBa(s)
      BY <2>4 DEF SendBlockAckRequest, SendDelba, SetupBlockAck, Transmit
    <3> QED BY <3>1, PairsIs, Kinds
  <2>5. CASE \/ Queue \/ Expire \/ Lose \/ SendNothing \/ EndTxNoAck \/ ReceiveAddBaResponse \/ GotDelBaFrame
             \/ GotBlockAck \/ GotAck \/ ReplyGotAck \/ MissedAck \/ ReplyMissedAck \/ MissedBlockAck
             \/ \E side \in {"originator", "recipient"} : InactivityTimeout(side)
    <3>1. air' = air \/ air' = NoFrame \/ air' = Management("ack")
      BY <2>5 DEF Queue, Expire, Lose, SendNothing, EndTxNoAck, ReceiveAddBaResponse, GotDelBaFrame,
             GotBlockAck, GotAck, ReplyGotAck, MissedAck, ReplyMissedAck, MissedBlockAck, InactivityTimeout,
             Answered, TimedOut, medium
    <3> QED BY <3>1, PairsIs, Kinds
  <2> QED BY <2>1, <2>2, <2>3, <2>4, <2>5
<1> QED BY <1>1, <1>2, QuietSteps, AloneStep

(* A new packet takes the next number.                                     *)
LEMMA GrowStep ==
  ASSUME NEW P, NEW r, NEW B, NEW n \in Nat, RecInv(P, r, B, n), NEW s \in Seqs, Draw(s) = n, NEW p,
         NEW Q, Q \subseteq P \cup {<<s, p>>}, PairsOf(r.rx.buffer) \subseteq Q, NEW C, C \subseteq B
  PROVE  RecInv(Q, r, C, n + 1)
<1>1. \A t : Drawn(n, t) => Drawn(n + 1, t) /\ t # s
  <2> TAKE t
  <2> SUFFICES ASSUME Drawn(n, t) PROVE Drawn(n + 1, t) /\ t # s
    OBVIOUS
  <2>1. t \in Seqs /\ Draw(t) < n
    BY DEF Drawn
  <2>2. PICK d \in Nat : d = Draw(t)
    BY <2>1, DrawIs
  <2>3. d < n + 1 /\ d # n
    BY <2>1, <2>2
  <2> QED BY <2>1, <2>2, <2>3 DEF Drawn
<1>2. Drawn(n + 1, s)
  BY DEF Drawn
<1>3. /\ \A x \in P : Drawn(n, x[1])
      /\ r.last = SeqSpace \/ Drawn(n, r.last)
      /\ \A t \in B : Drawn(n, t)
      /\ Known(P, r) /\ Once(P) /\ Whole(r.rx) /\ (r.rx.exists \/ r.rx.buffer = <<>>)
  BY DEF RecInv
<1>4. r.last # s
  <2>1. s # SeqSpace
    BY SpaceType DEF Seqs
  <2> QED BY <1>1, <1>3, <2>1
<1>5a. PICK z : z = <<s, p>>
  OBVIOUS
<1>5. z = <<s, p>> /\ z[1] = s
  BY <1>5a
<1>6. \A x \in Q : x \in P \/ x = z
  BY <1>5
<1>7. \A x \in Q : x[1] = r.last => x[2] \in ToSet(r.up)
  BY <1>3, <1>4, <1>5, <1>6 DEF Known
<1>8. Known(Q, r)
  BY <1>3, <1>7 DEF Known
<1>9. Once(Q)
  <2> SUFFICES ASSUME NEW x \in Q, NEW y \in Q, x[1] = y[1] PROVE x[2] = y[2]
    BY DEF Once
  <2>1. CASE x \in P /\ y \in P
    BY <1>3, <2>1 DEF Once
  <2>2. CASE x = z /\ y = z
    BY <2>2
  <2>3. CASE x \in P /\ y = z
    BY <1>1, <1>3, <1>5, <2>3
  <2>4. CASE x = z /\ y \in P
    BY <1>1, <1>3, <1>5, <2>4
  <2> QED BY <1>6, <2>1, <2>2, <2>3, <2>4
<1>10. \A x \in Q : Drawn(n + 1, x[1])
  BY <1>1, <1>2, <1>3, <1>5, <1>6
<1>11. (r.last = SeqSpace \/ Drawn(n + 1, r.last)) /\ \A t \in C : Drawn(n + 1, t)
  BY <1>1, <1>3
<1> QED BY <1>3, <1>8, <1>9, <1>10, <1>11 DEF RecInv

LEMMA FirstWay ==
  ASSUME HalfTheNumbers, WindowInv, FrameInv, RecipientInv, SendFirst
  PROVE  /\ RecipientInv' /\ Recipient' = Recipient /\ Bits' \subseteq Bits
         /\ Way' \subseteq Way \cup {<<nextSeq, Head(queue)>>}
<1>1. PICK item, next, b, a :
        /\ item = [packet |-> Head(queue), seq |-> nextSeq, retry |-> FALSE] /\ next = Plus(nextSeq, 1)
        /\ a = Prepared /\ b = StorePacket(Prepared, item)
  OBVIOUS
<1>2. /\ queue # <<>> /\ ba.bars = <<>> /\ nextSeq' = next /\ air' = cur'
      /\ cur' = DataFrame(item, "block") \/ cur' = DataFrame(item, "normal")
      /\ UNCHANGED <<rx, up, lastSeq>>
      /\ \/ ba' = NotifyMpduTransmission(b, next, Tail(queue))
         \/ ba' = a
  BY <1>1 DEF SendFirst, HasData, HasNoRetry, HasNoBar, Transmit, NothingElseSent, receiver
<1>3. /\ queue \in Seq(Packet) /\ nextSeq \in Seqs
      /\ Draw(nextSeq) \in Nat /\ Draw(nextSeq) < Cardinality(Packet)
  BY <1>2, NumberedIs DEF WindowInv, Numbered
<1>4. PICK n \in Nat : n = Draw(nextSeq) /\ Ordered(a, n) /\ a.bars = <<>> /\ Among(a.sent, ba.sent) /\ a.sent \in Seq(Item)
                       /\ ba.sent \in Seq(Item)
  <2>1. Ordered(a, Draw(nextSeq)) /\ a.bars = <<>> /\ Among(a.sent, ba.sent)
    BY <1>1, <1>2, PreparedWindow DEF Less
  <2>2. a.sent \in Seq(Item) /\ ba.sent \in Seq(Item)
    BY <2>1, AgreementIs DEF Ordered, WindowInv
  <2> QED BY <1>3, <2>1, <2>2
<1>5. next \in Seqs /\ Draw(next) = n + 1
  BY <1>1, <1>3, <1>4, NextDraw
<1>6. item \in Item /\ item.seq = nextSeq /\ item.packet = Head(queue)
  <2>1. Head(queue) \in Packet
    BY <1>2, <1>3, Rest
  <2> QED BY <1>1, <1>3, <2>1 DEF Item
<1>7. PairsOf(ba'.sent) \subseteq PairsOf(ba.sent) \cup {<<nextSeq, Head(queue)>>}
  <2>1. PairsOf(a.sent) \subseteq PairsOf(ba.sent)
    BY <1>4, PartItems
  <2>2. CASE ba' = NotifyMpduTransmission(b, next, Tail(queue))
    <3>1. Ordered(b, n + 1) /\ b = [a EXCEPT !.sent = Append(a.sent, item)] /\ b.sent = Append(a.sent, item)
      <4>1. n = Draw(item.seq) /\ Draw(item.seq) < Cardinality(Packet)
        BY <1>3, <1>4, <1>6
      <4> QED BY <1>1, <1>4, <1>6, <4>1, StoreOrdered
    <3>2. b.bars = <<>>
      <4>1. DOMAIN a = DOMAIN NoAgreement
        BY <1>4, AgreementIs DEF Ordered
      <4> QED BY <1>4, <3>1, <4>1 DEF NoAgreement
    <3>3. PICK rest : rest = Tail(queue)
      OBVIOUS
    <3>4. PICK m \in Nat : m = n + 1
      OBVIOUS
    <3>5. NotifyMpduTransmission(b, next, rest).sent = b.sent
      <4>1. Ordered(b, m) /\ Draw(next) = m
        BY <1>5, <3>1, <3>4
      <4> QED BY <1>5, <3>2, <4>1, TransmissionOrdered
    <3>6. ba'.sent = Append(a.sent, item)
      BY <2>2, <3>1, <3>3, <3>5
    <3>7. PairsOf(Append(a.sent, item)) \subseteq PairsOf(a.sent) \cup {<<item.seq, item.packet>>}
      <4>1. PICK t : t = Append(a.sent, item) /\ Joined(t, a.sent, item)
        BY <1>4, <1>6, AppendJoined
      <4>2. SUFFICES ASSUME NEW i \in DOMAIN t
                     PROVE  <<t[i].seq, t[i].packet>> \in PairsOf(a.sent) \cup {<<item.seq, item.packet>>}
        BY <4>1 DEF PairsOf
      <4>3. CASE t[i] = item
        BY <4>3
      <4>4. CASE \E j \in DOMAIN a.sent : t[i] = a.sent[j]
        BY <4>4 DEF PairsOf
      <4> QED BY <4>1, <4>3, <4>4 DEF Joined
    <3> QED BY <1>6, <2>1, <3>6, <3>7
  <2>3. CASE ba' = a
    BY <2>1, <2>3
  <2> QED BY <1>2, <2>2, <2>3
<1>8. FramePairs(cur') = {<<nextSeq, Head(queue)>>} /\ FrameBits(air') = {}
  <2>1. FramePairs(cur') = {<<item.seq, item.packet>>} /\ cur'.kind # "ba"
    BY <1>2, PairsIs, Kinds
  <2> QED BY <1>2, <1>6, <2>1, PairsIs
<1>9. Recipient' = Recipient /\ Bits' \subseteq Bits
  BY <1>2, <1>8 DEF Recipient, Bits
<1>10. Way' \subseteq Way \cup {<<nextSeq, Head(queue)>>}
  BY <1>2, <1>7, <1>8 DEF Way
<1>11. PICK P, r, B, s, p, Q, C : /\ P = Way /\ r = Recipient /\ B = Bits /\ s = nextSeq /\ p = Head(queue)
                                  /\ Q = Way' /\ C = Bits'
  OBVIOUS
<1>12. PairsOf(r.rx.buffer) \subseteq Q
  BY <1>2, <1>11, RecipientIs DEF Way
<1>13. RecInv(P, r, B, n)
  BY <1>4, <1>11 DEF RecipientInv
<1>14. RecInv(Q, r, C, n + 1)
  <2>1. s \in Seqs /\ Draw(s) = n /\ Q \subseteq P \cup {<<s, p>>} /\ C \subseteq B
    BY <1>3, <1>4, <1>9, <1>10, <1>11
  <2> QED BY <1>12, <1>13, <2>1, GrowStep
<1>15. RecipientInv'
  BY <1>2, <1>5, <1>9, <1>11, <1>14 DEF RecipientInv
<1> QED BY <1>9, <1>10, <1>15

(* What the recipient had it still has, and each new bit is of a packet it *)
(* has as well.                                                            *)
Gained ==
  /\ InHand(Recipient) \subseteq InHand(Recipient') /\ Way' \subseteq Way
  /\ \A s \in Bits' : s \in Bits \/ \E x \in Way : x[1] = s /\ x[2] \in InHand(Recipient')

LEMMA RecipientBecomes ==
  ASSUME NEW q \in Recv, Becomes(q)
  PROVE  Recipient' = q
<1>1. q = [rx |-> q.rx, up |-> q.up, last |-> q.last]
  BY DEF Recv
<1> QED BY <1>1 DEF Becomes, Recipient

LEMMA MovedStep ==
  ASSUME RecipientInv, Quiet, NEW q, Becomes(q), NEW S, Moved(Way, Recipient, q, S),
         q.rx.exists \/ q.rx.buffer = <<>>,
         \A s \in S : \E x \in Way : x[1] = s /\ x[2] \in InHand(q),
         InHand(Recipient) \subseteq InHand(q), FrameBits(air') \subseteq q.rx.bitmap
  PROVE  RecipientInv' /\ Gained /\ Recipient' = q
<1>1. Known(Way, q) /\ q \in Recv
  BY DEF Moved, Known
<1>2. Recipient' = q
  BY <1>1, RecipientBecomes
<1>3. rx' = q.rx /\ lastSeq' = q.last
  BY DEF Becomes
<1>4. Known(Way, Recipient') /\ Whole(rx') /\ (rx'.exists \/ rx'.buffer = <<>>)
  BY <1>1, <1>2, <1>3 DEF Moved
<1>5. lastSeq' = lastSeq \/ \E x \in Way : x[1] = lastSeq'
  BY <1>3, RecipientIs DEF Moved
<1>6. \A s \in Bits' : s \in Bits \/ \E x \in Way : x[1] = s /\ x[2] \in InHand(q)
  <2>1. Bits' \subseteq rx.bitmap \cup S
    BY <1>3, RecipientIs DEF Bits, Moved
  <2> QED BY <2>1 DEF Bits
<1>7. RecipientInv'
  BY <1>4, <1>5, <1>6, QuietStep
<1>8. Way' \subseteq Way
  BY <1>1, <1>3 DEF Way, Quiet, Known
<1> QED BY <1>2, <1>6, <1>7, <1>8 DEF Gained

LEMMA BlockAckData ==
  ASSUME RecipientInv, FrameInv, Quiet, ReceiveUnderBlockAck
  PROVE  RecipientInv' /\ Gained
<1>1. air.kind = "data" /\ FrameBits(air') = {}
  BY PairsIs, Kinds DEF ReceiveUnderBlockAck
<1>2. air.item \in Item /\ <<air.item.seq, air.item.packet>> \in Way
  <2>1. air.item \in Item
    BY <1>1, FrameHas DEF FrameInv
  <2> QED BY <1>1, <2>1 DEF Way, FramePairs
<1>3. Once(Way) /\ Known(Way, Recipient) /\ Whole(rx) /\ (rx.exists \/ rx.buffer = <<>>)
  BY RecipientIs DEF RecipientInv, RecInv
<1>4. CASE rx.exists
  <2>1. PICK item, P, q : item = air.item /\ P = Way /\ q = Stored(item)
    OBVIOUS
  <2>2. item \in Item /\ <<item.seq, item.packet>> \in P /\ Once(P) /\ Known(P, Recipient) /\ Whole(rx)
    BY <1>2, <1>3, <2>1
  <2>3. Moved(P, Recipient, q, {item.seq})
    BY <2>1, <2>2, StoredIs
  <2>4. InHand(Recipient) \cup {item.packet} \subseteq InHand(q)
    BY <2>1, <2>2, StoredIs
  <2>5. Becomes(q)
    BY <1>4, <2>1 DEF ReceiveUnderBlockAck
  <2>6. PICK x : x = <<item.seq, item.packet>>
    OBVIOUS
  <2>7. x \in Way /\ x[1] = item.seq /\ x[2] \in InHand(q)
    BY <2>1, <2>2, <2>4, <2>6
  <2>8. q.rx.exists
    BY <1>4, <2>3, RecipientIs DEF Moved
  <2>9. \A s \in {item.seq} : \E y \in Way : y[1] = s /\ y[2] \in InHand(q)
    BY <2>7
  <2> QED BY <1>1, <2>1, <2>3, <2>4, <2>5, <2>8, <2>9, MovedStep
<1>5. CASE ~rx.exists
  <2>1. PICK q : q = Recipient
    OBVIOUS
  <2>2. Becomes(q)
    BY <1>5, <2>1, RecipientIs DEF ReceiveUnderBlockAck, Becomes
  <2>3. Moved(Way, Recipient, q, {})
    <3>1. PICK P, r : P = Way /\ r = Recipient /\ Known(P, r) /\ Whole(r.rx)
      BY <1>3, RecipientIs
    <3> QED BY <2>1, <3>1, SameMoved
  <2> QED BY <1>1, <1>3, <2>1, <2>2, <2>3, RecipientIs, MovedStep
<1> QED BY <1>4, <1>5

LEMMA NormalAckData ==
  ASSUME RecipientInv, FrameInv, Quiet, ReceiveUnderNormalAck
  PROVE  RecipientInv' /\ Gained /\ air.item.packet \in InHand(Recipient')
<1>1. air.kind = "data" /\ FrameBits(air') = {}
  BY PairsIs, Kinds DEF ReceiveUnderNormalAck
<1>2. air.item \in Item /\ <<air.item.seq, air.item.packet>> \in Way
  <2>1. air.item \in Item
    BY <1>1, FrameHas DEF FrameInv
  <2> QED BY <1>1, <2>1 DEF Way, FramePairs
<1>3. Once(Way) /\ Known(Way, Recipient) /\ Whole(rx) /\ (rx.exists \/ rx.buffer = <<>>)
  BY RecipientIs DEF RecipientInv, RecInv
<1>4. PICK item, P, r : item = air.item /\ P = Way /\ r = Recipient
  OBVIOUS
<1>5. item \in Item /\ <<item.seq, item.packet>> \in P /\ Once(P) /\ Known(P, r)
  BY <1>2, <1>3, <1>4
<1>6. PICK x : x = <<item.seq, item.packet>>
  OBVIOUS
<1>7. CASE rx.exists
  <2>1. PICK a, s, q : a = Stored(item) /\ s = rx.start /\ q = RxCompleteUntilLost(RxCompleteSmaller(a, s))
    OBVIOUS
  <2>2. Known(P, Recipient) /\ Whole(rx)
    BY <1>3, <1>4, <1>5
  <2>3. Moved(P, Recipient, a, {item.seq})
    BY <1>5, <2>1, <2>2, StoredIs
  <2>4. InHand(Recipient) \cup {item.packet} \subseteq InHand(a)
    BY <1>5, <2>1, <2>2, StoredIs
  <2>5. Moved(P, r, a, {item.seq})
    BY <1>4, <2>3
  <2>6. Moved(P, r, q, {item.seq})
    BY <1>5, <2>1, <2>5, CompletedIs
  <2>7. InHand(a) \subseteq InHand(q)
    BY <1>5, <2>1, <2>5, CompletedIs
  <2>8. Becomes(q)
    BY <1>4, <1>7, <2>1 DEF ReceiveUnderNormalAck
  <2>9. q.rx.exists
    BY <1>4, <1>7, <2>6, RecipientIs DEF Moved
  <2>10. x \in Way /\ x[1] = item.seq /\ x[2] \in InHand(q)
    BY <1>4, <1>5, <1>6, <2>4, <2>7
  <2>11. \A t \in {item.seq} : \E y \in Way : y[1] = t /\ y[2] \in InHand(q)
    BY <2>10
  <2>12. Moved(Way, Recipient, q, {item.seq}) /\ InHand(Recipient) \subseteq InHand(q)
    BY <1>4, <2>4, <2>6, <2>7
  <2>13. FrameBits(air') \subseteq q.rx.bitmap
    BY <1>1
  <2>14. RecipientInv' /\ Gained /\ Recipient' = q
    BY <2>8, <2>9, <2>11, <2>12, <2>13, MovedStep
  <2> QED BY <1>4, <1>6, <2>10, <2>14
<1>8. CASE ~rx.exists
  <2>1. PICK items, q : items = <<item>> /\ q = HandUpAll(r, items)
    OBVIOUS
  <2>2. items \in Seq(Item) /\ PairsOf(items) = {x} /\ PacketsOf(items) = {item.packet} /\ SeqsOf(items) = {item.seq}
    <3>1. items \in Seq(Item) /\ DOMAIN items = {1} /\ items[1] = item
      BY <1>5, <2>1
    <3> QED BY <1>6, <3>1 DEF PairsOf, PacketsOf, SeqsOf
  <2>3. HandedUp(P, r, q, items)
    BY <1>5, <1>6, <2>1, <2>2, HandUpIs
  <2>4. x \in P /\ x[1] = item.seq
    BY <1>5, <1>6
  <2>5. Moved(P, r, q, {})
    BY <1>3, <1>4, <2>2, <2>3, <2>4, RecipientIs DEF HandedUp, Moved
  <2>6. InHand(r) \cup {item.packet} \subseteq InHand(q)
    BY <2>2, <2>3 DEF HandedUp, InHand
  <2>7. Becomes(q)
    BY <1>4, <1>8, <2>1 DEF ReceiveUnderNormalAck
  <2>8. q.rx.buffer = <<>>
    BY <1>3, <1>4, <1>8, <2>3, RecipientIs DEF HandedUp
  <2>9. Moved(Way, Recipient, q, {}) /\ InHand(Recipient) \subseteq InHand(q)
    BY <1>4, <2>5, <2>6
  <2>10. RecipientInv' /\ Gained /\ Recipient' = q
    BY <1>1, <2>7, <2>8, <2>9, MovedStep
  <2> QED BY <1>4, <2>6, <2>10
<1> QED BY <1>7, <1>8

LEMMA RecipientHas ==
  ASSUME RecipientInv
  PROVE  /\ Once(Way) /\ Known(Way, Recipient) /\ Whole(rx) /\ (rx.exists \/ rx.buffer = <<>>)
         /\ rx \in Record /\ Recipient \in Recv
<1>1. Once(Way) /\ Known(Way, Recipient) /\ Whole(rx) /\ (rx.exists \/ rx.buffer = <<>>)
  BY RecipientIs DEF RecipientInv, RecInv
<1>2. PICK r : r = Recipient
  OBVIOUS
<1>3. r \in Recv /\ r.rx \in Record
  BY <1>1, <1>2, RecvIs DEF Known
<1> QED BY <1>1, <1>2, <1>3, RecipientIs

LEMMA BlockAckAsked ==
  ASSUME WindowInv, RecipientInv, FrameInv, Quiet, ReceiveBlockAckReq
  PROVE  RecipientInv' /\ Gained /\ FrameInv'
<1>1. Once(Way) /\ Known(Way, Recipient) /\ Whole(rx) /\ (rx.exists \/ rx.buffer = <<>>)
  BY RecipientHas
<1>2. air.start \in Seqs
  BY FrameHas DEF FrameInv, ReceiveBlockAckReq
<1>3. UNCHANGED <<cur, rcur, low>> /\ low = "blockack"
  BY DEF ReceiveBlockAckReq, NothingElseReceived, sender, WindowInv, PacketInv, Serving
<1>4. CASE rx.exists
  <2>1. PICK s, P, r, c, a, q :
          /\ s = air.start /\ P = Way /\ r = Recipient /\ c = [r EXCEPT !.rx = CacheBlockAckReq(@, s)]
          /\ a = FillBlockAckBitmap(c.rx, s) /\ q = RxCompleteUntilLost(RxCompleteSmaller(c, s))
    OBVIOUS
  <2>2. Becomes(q) /\ air' = BaFrame(s, a)
    BY <1>4, <2>1 DEF ReceiveBlockAckReq, BaFrame
  <2>3. Known(P, Recipient) /\ c = [Recipient EXCEPT !.rx = CacheBlockAckReq(@, s)] /\ Once(P) /\ s \in Seqs
    BY <1>1, <1>2, <2>1
  <2>4. Moved(P, Recipient, c, {}) /\ InHand(c) = InHand(Recipient)
    BY <1>1, <2>3, RequestedIs
  <2>5. Moved(P, r, c, {})
    BY <2>1, <2>4
  <2>6. Moved(P, r, q, {})
    BY <2>1, <2>3, <2>5, CompletedIs
  <2>7. InHand(c) \subseteq InHand(q)
    BY <2>1, <2>3, <2>5, CompletedIs
  <2>8. q.rx.bitmap = c.rx.bitmap
    <3>1. PICK S : S = {} /\ Moved(P, r, c, S)
      BY <2>5
    <3>2. Once(P)
      BY <2>3
    <3>3. RxCompleteUntilLost(RxCompleteSmaller(c, s)).rx.bitmap = c.rx.bitmap
      BY <3>1, <3>2, CompletedIs
    <3> QED BY <2>1, <3>3
  <2>9. a \subseteq c.rx.bitmap /\ c.rx.bitmap \subseteq Seqs
    <3>1. c.rx.bitmap \subseteq Seqs
      BY <2>5, RecvIs DEF Moved, Known
    <3> QED BY <2>1, <3>1 DEF FillBlockAckBitmap
  <2>10. FrameBits(air') \subseteq q.rx.bitmap
    BY <2>2, <2>8, <2>9, PairsIs
  <2>11. Moved(Way, Recipient, q, {}) /\ InHand(Recipient) \subseteq InHand(q) /\ q.rx.exists
    BY <1>4, <2>1, <2>4, <2>6, <2>7, RecipientIs DEF Moved
  <2>12. RecipientInv' /\ Gained
    BY <2>2, <2>10, <2>11, MovedStep
  <2>13. air' \in Frame
    BY <2>2, <2>3, <2>9, FrameIs
  <2> QED BY <1>3, <2>12, <2>13 DEF FrameInv, Facing
<1>5. CASE ~rx.exists
  <2>1. PICK q : q = Recipient
    OBVIOUS
  <2>2. Becomes(q) /\ air' = NoFrame
    BY <1>5, <2>1, RecipientIs DEF ReceiveBlockAckReq, Becomes
  <2>3. Moved(Way, Recipient, q, {})
    <3>1. PICK P, r : P = Way /\ r = Recipient /\ Known(P, r) /\ Whole(r.rx)
      BY <1>1, RecipientIs
    <3> QED BY <2>1, <3>1, SameMoved
  <2>4. FrameBits(air') = {}
    BY <2>2, PairsIs, Kinds
  <2>5. RecipientInv' /\ Gained
    BY <1>1, <2>1, <2>2, <2>3, <2>4, RecipientIs, MovedStep
  <2> QED BY <1>3, <2>2, <2>5, FrameIs DEF FrameInv, Facing
<1> QED BY <1>4, <1>5

(* A new record is empty. *)
LEMMA AddBaRequested ==
  ASSUME RecipientInv, FrameInv, Quiet, ReceiveAddBaRequest
  PROVE  RecipientInv' /\ Gained
<1>1. Once(Way) /\ Known(Way, Recipient) /\ Whole(rx) /\ (rx.exists \/ rx.buffer = <<>>)
  BY RecipientHas
<1>2. PICK s \in Seqs : s = air.start
  BY FrameHas DEF FrameInv, ReceiveAddBaRequest
<1>3. FrameBits(air') = {}
  BY PairsIs, Kinds DEF ReceiveAddBaRequest
<1>4. UNCHANGED <<up, lastSeq>>
  BY DEF ReceiveAddBaRequest
<1>5. CASE rx' = rx
  BY <1>3, <1>4, <1>5, AloneStep DEF Gained
<1>6. CASE rx' # rx
  <2>1. PICK new, q : /\ new = [exists |-> TRUE, start |-> s, buffer |-> <<>>, winStart |-> s,
                                winEnd |-> Plus(s, Window - 1), bitmap |-> {}]
                      /\ q = [rx |-> new, up |-> up, last |-> lastSeq]
    OBVIOUS
  <2>2. ~rx.exists /\ rx' = new
    BY <1>2, <1>6, <2>1 DEF ReceiveAddBaRequest
  <2>3. new \in Record /\ Whole(new) /\ new.buffer = <<>> /\ new.bitmap = {} /\ new.exists
    <3>1. <<>> \in Seq(Item)
      OBVIOUS
    <3> QED BY <2>1, <3>1, NewWindow DEF Record, Whole
  <2>4. q.rx = new /\ q.up = up /\ q.last = lastSeq
    BY <2>1
  <2>5. Becomes(q)
    BY <1>4, <2>2, <2>4 DEF Becomes
  <2>6. Known(Way, q)
    <3>1. up \in Seq(Packet) /\ lastSeq \in 0..SeqSpace
      <4>1. PICK r : r = Recipient /\ r \in Recv
        BY RecipientHas
      <4> QED BY <4>1, RecvIs, RecipientIs
    <3>2. q \in Recv
      BY <2>1, <2>3, <3>1 DEF Recv
    <3>3. PairsOf(<<>>) = {}
      BY DEF PairsOf
    <3> QED BY <1>1, <2>3, <2>4, <3>2, <3>3, RecipientIs DEF Known
  <2>7. Recipient' = q
    BY <2>5, <2>6, RecipientBecomes DEF Known
  <2>8. rx'.bitmap = {} /\ rx'.exists /\ Whole(rx') /\ Known(Way, Recipient')
    BY <2>2, <2>3, <2>6, <2>7
  <2>9. Bits' = {}
    BY <1>3, <2>8 DEF Bits
  <2>10. RecipientInv'
    BY <1>4, <2>8, <2>9, QuietStep
  <2>11. rx.buffer = <<>> /\ rx'.buffer = <<>>
    BY <1>1, <2>2, <2>3
  <2>12. InHand(Recipient) \subseteq InHand(Recipient') /\ Way' \subseteq Way
    BY <1>4, <2>2, <2>4, <2>7, <2>11, RecipientIs DEF InHand, Way, Quiet
  <2> QED BY <2>9, <2>10, <2>12 DEF Gained
<1> QED BY <1>5, <1>6

(* A teardown may drop what was out of order. *)
LEMMA DestroyedStep ==
  ASSUME RecipientInv, Quiet, Becomes(Destroy(Recipient)), air'.kind # "ba"
  PROVE  RecipientInv'
<1>1. PICK P, r : /\ P = Way /\ r = Recipient /\ Once(P) /\ Known(P, r) /\ Whole(r.rx)
                  /\ (r.rx.exists \/ r.rx.buffer = <<>>)
  BY RecipientHas, RecipientIs
<1>2. PICK q : /\ Destroy(r) = q /\ Known(P, q) /\ Whole(q.rx) /\ ToSet(r.up) \subseteq ToSet(q.up)
               /\ q.last = r.last \/ \E x \in P : x[1] = q.last
               /\ q.rx.bitmap \subseteq r.rx.bitmap
               /\ (q.rx.exists \/ q.rx.buffer = <<>> \/ q = r)
  BY <1>1, DestroyIs
<1>3. Becomes(q) /\ q \in Recv
  BY <1>1, <1>2 DEF Known
<1>4. Recipient' = q /\ rx' = q.rx /\ lastSeq' = q.last
  BY <1>3, RecipientBecomes DEF Becomes
<1>5. Bits' \subseteq Bits
  BY <1>1, <1>2, <1>4, PairsIs, RecipientIs DEF Bits
<1>6. (lastSeq' = lastSeq \/ \E x \in Way : x[1] = lastSeq') /\ Known(Way, Recipient')
  BY <1>1, <1>2, <1>4, RecipientIs
<1>7. Whole(rx') /\ (rx'.exists \/ rx'.buffer = <<>>)
  BY <1>1, <1>2, <1>4
<1> QED BY <1>5, <1>6, <1>7, QuietStep

LEMMA TornDownSteps ==
  ASSUME RecipientInv, Quiet, ReceiveDelBa \/ (ReplyGotAck /\ rcur.kind = "delba")
  PROVE  RecipientInv'
<1>1. air'.kind # "ba"
  BY Kinds DEF ReceiveDelBa, ReplyGotAck, Answered
<1>2. CASE Becomes(Destroy(Recipient))
  BY <1>1, <1>2, DestroyedStep
<1>3. CASE UNCHANGED <<rx, up, lastSeq>>
  BY <1>1, <1>3, AloneStep, PairsIs
<1> QED BY <1>2, <1>3 DEF ReceiveDelBa, ReplyGotAck

OrderInv == WindowInv /\ FrameInv /\ RecipientInv

LEMMA OrderStep == HalfTheNumbers /\ OrderInv /\ [Next]_vars => OrderInv'
<1> SUFFICES ASSUME HalfTheNumbers, WindowInv, FrameInv, RecipientInv, [Next]_vars PROVE OrderInv'
  BY DEF OrderInv
<1>1. WindowInv'
  BY WindowStep
<1>2. CASE UNCHANGED vars
  <2>1. Way' = Way /\ Bits' = Bits /\ Recipient' = Recipient /\ nextSeq' = nextSeq
    BY <1>2 DEF vars, sender, receiver, medium, Way, Bits, Recipient
  <2>2. RecipientInv'
    BY <2>1 DEF RecipientInv
  <2>3. FrameInv'
    BY <1>2 DEF vars, sender, receiver, medium, FrameInv, Facing
  <2> QED BY <1>1, <2>2, <2>3 DEF OrderInv
<1>3. CASE SendFirst
  <2>1. RecipientInv'
    BY <1>3, FirstWay
  <2>2. FrameInv'
    BY <1>3, FrameSteps2
  <2> QED BY <1>1, <2>1, <2>2 DEF OrderInv
<1>4. CASE Next /\ ~SendFirst
  <2>1. Quiet
    BY <1>4, QuietSteps
  <2>2. CASE ReceiveBlockAckReq
    BY <1>1, <2>1, <2>2, BlockAckAsked DEF OrderInv
  <2>3. CASE ~ReceiveBlockAckReq
    <3>1. FrameInv'
      BY <1>4, <2>3, FrameSteps1, FrameSteps2 DEF Next, Originate, Receive, Timeout
    <3>2. CASE \/ ReceiveUnderBlockAck \/ ReceiveUnderNormalAck \/ ReceiveAddBaRequest
               \/ ReceiveDelBa \/ (ReplyGotAck /\ rcur.kind = "delba")
      <4>1. RecipientInv'
        BY <2>1, <3>2, BlockAckData, NormalAckData, AddBaRequested, TornDownSteps
      <4> QED BY <1>1, <3>1, <4>1 DEF OrderInv
    <3>3. CASE ~(\/ ReceiveUnderBlockAck \/ ReceiveUnderNormalAck \/ ReceiveAddBaRequest
                 \/ ReceiveDelBa \/ (ReplyGotAck /\ rcur.kind = "delba"))
      <4>1. \/ Queue \/ Expire \/ Lose
            \/ Resend \/ SendBlockAckRequest \/ SendRetry \/ SendDelba \/ SetupBlockAck \/ SendNothing \/ EndTxNoAck
            \/ SendReply \/ ReceiveAddBaResponse \/ GotDelBaFrame \/ GotBlockAck \/ GotAck
            \/ (ReplyGotAck /\ rcur.kind # "delba")
            \/ MissedAck \/ ReplyMissedAck \/ MissedBlockAck
            \/ \E side \in {"originator", "recipient"} : InactivityTimeout(side)
        BY <1>4, <2>3, <3>3 DEF Next, Originate, Receive, Timeout
      <4>2. RecipientInv'
        BY <1>4, <4>1, AloneSteps
      <4> QED BY <1>1, <3>1, <4>2 DEF OrderInv
    <3> QED BY <3>2, <3>3
  <2> QED BY <2>2, <2>3
<1> QED BY <1>2, <1>3, <1>4

LEMMA InitOrder == Init => OrderInv
<1> SUFFICES ASSUME Init PROVE OrderInv
  OBVIOUS
<1>1. WindowInv
  BY InitWindow
<1>2. /\ cur = NoFrame /\ rcur = NoFrame /\ air = NoFrame /\ low = "idle" /\ rx = NoRecord /\ up = <<>>
      /\ lastSeq = SeqSpace /\ ba = NoAgreement
  BY DEF Init
<1>3. FrameInv
  BY <1>2, FrameIs, Kinds DEF FrameInv, Facing
<1>4. PairsOf(<<>>) = {} /\ NoAgreement.sent = <<>>
  BY DEF PairsOf, NoAgreement
<1>5. Way = {} /\ Bits = {}
  BY <1>2, <1>4, PairsIs, NoRecordIs, Kinds DEF Way, Bits
<1>6. Recipient = [rx |-> NoRecord, up |-> <<>>, last |-> SeqSpace]
  BY <1>2 DEF Recipient
<1>7. Recipient \in Recv
  <2>1. <<>> \in Seq(Packet) /\ SeqSpace \in 0..SeqSpace
    BY SpaceType
  <2> QED BY <1>6, <2>1, NoRecordIs DEF Recv
<1>8. Known({}, Recipient) /\ Once({})
  BY <1>2, <1>4, <1>7, NoRecordIs, RecipientIs DEF Known, Once
<1>9. PICK n, r : n = Draw(nextSeq) /\ r = Recipient /\ r.rx = NoRecord /\ r.last = SeqSpace
  BY <1>2, RecipientIs
<1>10. RecInv({}, r, {}, n)
  BY <1>8, <1>9, NoRecordIs DEF RecInv
<1> QED BY <1>1, <1>3, <1>5, <1>9, <1>10 DEF OrderInv, RecipientInv

-----------------------------------------------------------------------------
(* What was sent was received.                                             *)

(* A bit stands for a packet the recipient has; so does an ack on its way. *)
Backed == \A x \in Way : x[1] \in Bits => x[2] \in InHand(Recipient)
AckBacked == air.kind = "ack" /\ low = "ack" /\ cur.kind = "data" => cur.item.packet \in InHand(Recipient)
SentBacked == \A p \in Packet : outcome[p] = "ok" => p \in InHand(Recipient)

LEMMA GainSteps ==
  ASSUME HalfTheNumbers, OrderInv, Handshake, Next, ~SendFirst
  PROVE  Gained
<1>1. WindowInv /\ FrameInv /\ RecipientInv /\ Quiet
  BY QuietSteps DEF OrderInv
<1>2. air.kind # "delba" /\ rcur.kind # "delba"
  BY DEF Handshake, NoDelba
<1>3. CASE ReceiveUnderBlockAck \/ ReceiveUnderNormalAck \/ ReceiveAddBaRequest \/ ReceiveBlockAckReq
  BY <1>1, <1>3, BlockAckData, NormalAckData, AddBaRequested, BlockAckAsked
<1>4. CASE ~(ReceiveUnderBlockAck \/ ReceiveUnderNormalAck \/ ReceiveAddBaRequest \/ ReceiveBlockAckReq)
  <2>1. \/ Queue \/ Expire \/ Lose
        \/ Resend \/ SendBlockAckRequest \/ SendRetry \/ SendDelba \/ SetupBlockAck \/ SendNothing \/ EndTxNoAck
        \/ SendReply \/ ReceiveAddBaResponse \/ GotDelBaFrame \/ GotBlockAck \/ GotAck
        \/ (ReplyGotAck /\ rcur.kind # "delba")
        \/ MissedAck \/ ReplyMissedAck \/ MissedBlockAck
        \/ \E side \in {"originator", "recipient"} : InactivityTimeout(side)
    <3>1. ~ReceiveDelBa
      BY <1>2 DEF ReceiveDelBa
    <3> QED BY <1>2, <1>4, <3>1 DEF Next, Originate, Receive, Timeout
  <2>2. InHand(Recipient) = InHand(Recipient') /\ Bits' \subseteq Bits /\ Way' \subseteq Way
    BY <1>1, <2>1, AloneSteps
  <2> QED BY <2>2 DEF Gained
<1> QED BY <1>3, <1>4

LEMMA BackedStep ==
  ASSUME HalfTheNumbers, OrderInv, Handshake, Backed, Next
  PROVE  Backed' /\ InHand(Recipient) \subseteq InHand(Recipient')
<1>1. WindowInv /\ FrameInv /\ RecipientInv /\ Once(Way)
  BY RecipientHas DEF OrderInv
<1>2. CASE ~SendFirst
  <2>1. Gained
    BY <1>2, GainSteps
  <2>2. SUFFICES ASSUME NEW x \in Way', x[1] \in Bits' PROVE x[2] \in InHand(Recipient')
    BY <2>1 DEF Backed, Gained
  <2>3. x \in Way
    BY <2>1 DEF Gained
  <2>4. CASE x[1] \in Bits
    BY <2>1, <2>3, <2>4 DEF Backed, Gained
  <2>5. CASE \E y \in Way : y[1] = x[1] /\ y[2] \in InHand(Recipient')
    BY <1>1, <2>3, <2>5 DEF Once
  <2> QED BY <2>1, <2>2, <2>4, <2>5 DEF Gained
<1>3. CASE SendFirst
  <2>1. Recipient' = Recipient /\ Bits' \subseteq Bits /\ Way' \subseteq Way \cup {<<nextSeq, Head(queue)>>}
    BY <1>1, <1>3, FirstWay
  <2>2. nextSeq \notin Bits
    <3>1. PICK n, s : n = Draw(nextSeq) /\ s = nextSeq /\ n \in Nat
      BY <1>1, NumberedIs DEF WindowInv
    <3>2. ~Drawn(n, s)
      BY <3>1 DEF Drawn
    <3> QED BY <1>1, <3>1, <3>2 DEF RecipientInv, RecInv
  <2>3. SUFFICES ASSUME NEW x \in Way', x[1] \in Bits' PROVE x[2] \in InHand(Recipient')
    BY <2>1 DEF Backed
  <2>4. PICK z : z = <<nextSeq, Head(queue)>>
    OBVIOUS
  <2>5. z[1] = nextSeq
    BY <2>4
  <2>6. x \in Way
    BY <2>1, <2>2, <2>3, <2>4, <2>5
  <2> QED BY <2>1, <2>3, <2>6 DEF Backed
<1> QED BY <1>2, <1>3

LEMMA AckBackedStep ==
  ASSUME HalfTheNumbers, OrderInv, Handshake, Backed, AckBacked, Next
  PROVE  AckBacked'
<1>1. FrameInv /\ RecipientInv /\ InHand(Recipient) \subseteq InHand(Recipient')
  BY BackedStep DEF OrderInv
<1>2. SUFFICES ASSUME air'.kind = "ack", low' = "ack", cur'.kind = "data" PROVE cur'.item.packet \in InHand(Recipient')
  BY DEF AckBacked
<1>3. CASE ReceiveUnderNormalAck
  <2>1. cur' = cur /\ low = "ack" /\ air.kind = "data"
    BY <1>2, <1>3 DEF ReceiveUnderNormalAck, NothingElseReceived, sender
  <2>2. air = cur
    <3>1. air = cur \/ air = NoFrame \/ air = Management("ack")
      BY <1>1, <2>1 DEF FrameInv, Facing
    <3> QED BY <2>1, <3>1, Kinds
  <2>3. ~SendFirst
    BY <1>3 DEF ReceiveUnderNormalAck, SendFirst, HasData, HasNoRetry, HasNoBar, MediumIdle, NoFrame
  <2>4. Quiet
    BY <2>3, QuietSteps DEF OrderInv
  <2>5. air.item.packet \in InHand(Recipient')
    BY <1>1, <1>3, <2>4, NormalAckData
  <2> QED BY <2>1, <2>2, <2>5
<1>4. CASE ReceiveAddBaRequest \/ ReceiveDelBa \/ ReceiveAddBaResponse
  <2>1. cur' = cur /\ low = "ack" /\ air.kind \in {"addba", "delba", "resp"}
    BY <1>2, <1>4 DEF ReceiveAddBaRequest, ReceiveDelBa, ReceiveAddBaResponse, NothingElseReceived, NothingElseTold, sender
  <2>2. air = cur
    <3>1. air = cur \/ air = NoFrame \/ air = Management("ack")
      BY <1>1, <2>1 DEF FrameInv, Facing
    <3> QED BY <2>1, <3>1, Kinds
  <2> QED BY <1>2, <2>1, <2>2
<1>5. CASE Queue \/ Expire \/ SendNothing \/ \E side \in {"originator", "recipient"} : InactivityTimeout(side)
  <2>1. UNCHANGED <<air, low, cur>>
    BY <1>5 DEF Queue, Expire, SendNothing, InactivityTimeout, medium
  <2> QED BY <1>1, <1>2, <2>1 DEF AckBacked
<1>6. CASE Resend \/ SendBlockAckRequest \/ SendRetry \/ SendDelba \/ SetupBlockAck \/ SendFirst
  <2>1. air' = cur'
    BY <1>6 DEF Resend, SendBlockAckRequest, SendRetry, SendDelba, SetupBlockAck, SendFirst, Transmit
  <2> QED BY <1>2, <2>1
<1>7. CASE \/ Lose \/ EndTxNoAck \/ SendReply \/ ReceiveUnderBlockAck \/ ReceiveBlockAckReq \/ GotDelBaFrame
           \/ GotBlockAck \/ GotAck \/ ReplyGotAck \/ MissedAck \/ ReplyMissedAck \/ MissedBlockAck
  <2>1. low' # "ack" \/ air' = NoFrame \/ air'.kind = "ba"
    BY <1>7 DEF Lose, EndTxNoAck, SendReply, ReceiveUnderBlockAck, ReceiveBlockAckReq, GotDelBaFrame,
           GotBlockAck, GotAck, ReplyGotAck, MissedAck, ReplyMissedAck, MissedBlockAck, Answered, TimedOut
  <2> QED BY <1>2, <2>1, Kinds
<1> QED BY <1>3, <1>4, <1>5, <1>6, <1>7 DEF Next, Originate, Receive, Timeout

(* A packet is reported sent for an ack, or for its bit in a block ack.    *)
LEMMA SentBackedStep ==
  ASSUME HalfTheNumbers, OrderInv, Handshake, Backed, AckBacked, SentBacked, Next
  PROVE  SentBacked'
<1>1. WindowInv /\ FrameInv /\ RecipientInv /\ InHand(Recipient) \subseteq InHand(Recipient')
  BY BackedStep DEF OrderInv
<1>2. SUFFICES ASSUME NEW p \in Packet, outcome'[p] = "ok" PROVE p \in InHand(Recipient')
  BY DEF SentBacked
<1>3. outcome[p] = "ok" => p \in InHand(Recipient')
  BY <1>1 DEF SentBacked
<1>4. \A S, what : Report(S, what)[p] = "ok" => (p \in S /\ what = "ok") \/ outcome[p] = "ok"
  BY DEF Report
<1>5. CASE GotBlockAck
  <2>1. CASE ba.state = "established"
    <3>1. PICK a, b, acked, n : /\ a = ba /\ b = ba' /\ acked = air.acked /\ b = NotifyGotBlockAck(a, acked)
                                /\ n = Draw(nextSeq) /\ n \in 0..Cardinality(Packet) /\ Ordered(a, n)
                                /\ nextSeq \in Seqs /\ a.state = "established"
      BY <1>1, <1>5, <2>1, NumberedIs DEF GotBlockAck, WindowInv, Numbered
    <3>2. outcome' = Report(Gone(a, b), "ok") /\ air.kind = "ba"
      BY <1>5, <2>1, <3>1 DEF GotBlockAck
    <3>3. \A i \in DOMAIN a.retry : a.retry[i] \notin acked
      <4>1. cur.kind = "bar" /\ air.start = cur.start /\ \A s \in acked : IsInWindow(s, air.start)
        BY <1>1, <1>5, <3>1 DEF GotBlockAck, WindowInv, Answering
      <4>2. Outside(a, cur.start)
        BY <1>1, <3>1, <4>1 DEF WindowInv, Requested
      <4> QED BY <4>1, <4>2 DEF Outside
    <3>4. NotifyGotBlockAck(a, acked).sent = Without(a.sent, acked)
      BY <3>1, <3>3, BlockAckOrdered
    <3>5. PICK items, left : items = a.sent /\ left = Without(items, acked) /\ items \in Seq(Item) /\ b.sent = left
      BY <3>1, <3>4, AgreementIs DEF Ordered
    <3>6. \A i \in DOMAIN items : items[i].seq \notin acked => \E j \in DOMAIN left : left[j] = items[i]
      BY <3>5, WithoutPart
    <3>7. SUFFICES ASSUME p \in Gone(a, b) PROVE p \in InHand(Recipient')
      BY <1>2, <1>3, <1>4, <3>2
    <3>8. PICK i \in DOMAIN items : items[i].packet = p
      BY <3>5, <3>7 DEF Gone, PacketsOf
    <3>9. items[i].seq \in acked
      <4>1. SUFFICES ASSUME items[i].seq \notin acked PROVE FALSE
        OBVIOUS
      <4>2. PICK j \in DOMAIN left : left[j] = items[i]
        BY <3>6, <4>1
      <4> QED BY <3>5, <3>7, <3>8, <4>2 DEF Gone, PacketsOf
    <3>10. PICK x : x = <<items[i].seq, items[i].packet>>
      OBVIOUS
    <3>11. x[1] = items[i].seq /\ x[2] = p
      BY <3>8, <3>10
    <3>12. x \in Way /\ x[1] \in Bits
      <4>1. x \in PairsOf(items)
        BY <3>10 DEF PairsOf
      <4>2. FrameBits(air) = acked
        BY <3>1, <3>2 DEF FrameBits
      <4> QED BY <3>1, <3>5, <3>9, <3>11, <4>1, <4>2 DEF Way, Bits
    <3>13. x[2] \in InHand(Recipient)
      BY <3>12 DEF Backed
    <3> QED BY <1>1, <3>11, <3>13
  <2>2. CASE ba.state # "established"
    BY <1>2, <1>3, <1>5, <2>2 DEF GotBlockAck
  <2> QED BY <2>1, <2>2
<1>6. CASE GotAck
  <2>1. cur.kind # "delba" /\ air.kind = "ack" /\ low = "ack"
    BY <1>6 DEF GotAck, Handshake, NoDelba
  <2>2. outcome' = IF cur.kind = "data" THEN Report({cur.item.packet}, "ok") ELSE outcome
    BY <1>6, <2>1 DEF GotAck
  <2>3. CASE cur.kind = "data"
    <3>1. cur.item.packet \in InHand(Recipient)
      BY <2>1, <2>3 DEF AckBacked
    <3> QED BY <1>1, <1>2, <1>3, <1>4, <2>2, <2>3, <3>1
  <2> QED BY <1>2, <1>3, <2>2, <2>3
<1>7. CASE ~GotBlockAck /\ ~GotAck
  <2>1. outcome' = outcome \/ \E S : outcome' = Report(S, "gone") \/ outcome' = Report(S, "failed")
    BY <1>7 DEF Next, Originate, Receive, Timeout, Queue, Expire, Lose, Resend, SendBlockAckRequest, SendRetry, SendDelba,
           SetupBlockAck, SendFirst, SendNothing, EndTxNoAck, SendReply, ReceiveUnderBlockAck, ReceiveUnderNormalAck,
           ReceiveBlockAckReq, ReceiveAddBaRequest, ReceiveDelBa, ReceiveAddBaResponse, GotDelBaFrame,
           ReplyGotAck, MissedAck, ReplyMissedAck, MissedBlockAck, InactivityTimeout, TearDownBlockAck,
           NothingElseReceived, sender
  <2> QED BY <1>2, <1>3, <1>4, <2>1, SMTT(30)
<1> QED BY <1>5, <1>6, <1>7

ReceivedInv == OrderInv /\ (NeverTornDown => Backed /\ AckBacked /\ SentBacked)

LEMMA ReceivedStep == HalfTheNumbers /\ ReceivedInv /\ [Next]_vars => ReceivedInv'
<1> SUFFICES ASSUME HalfTheNumbers, ReceivedInv, [Next]_vars PROVE ReceivedInv'
  OBVIOUS
<1>1. OrderInv /\ OrderInv'
  BY OrderStep DEF ReceivedInv
<1>2. CASE UNCHANGED vars
  <2>1. /\ Way' = Way /\ Bits' = Bits /\ Recipient' = Recipient /\ timeouts' = timeouts
        /\ UNCHANGED <<air, low, cur, outcome>>
    BY <1>2 DEF vars, sender, receiver, medium, Way, Bits, Recipient
  <2> QED BY <1>1, <2>1 DEF ReceivedInv, NeverTornDown, Backed, AckBacked, SentBacked
<1>3. CASE Next
  <2>1. SUFFICES ASSUME NeverTornDown' PROVE Backed' /\ AckBacked' /\ SentBacked'
    BY <1>1 DEF ReceivedInv
  <2>2. NeverTornDown
    <3>1. timeouts \in Nat
      BY <1>1, SMTT(30) DEF OrderInv, WindowInv, PacketInv, AgreementInv, Records
    <3>2. timeouts' = timeouts \/ timeouts' = timeouts + 1
      BY <1>3, Zenon DEF Next, Originate, Receive, Timeout, Queue, Expire, Lose, Resend, SendBlockAckRequest, SendRetry, SendDelba,
             SetupBlockAck, SendFirst, SendNothing, EndTxNoAck, SendReply, ReceiveUnderBlockAck, ReceiveUnderNormalAck,
             ReceiveBlockAckReq, ReceiveAddBaRequest, ReceiveDelBa, ReceiveAddBaResponse, GotDelBaFrame, GotBlockAck,
             GotAck, ReplyGotAck, MissedAck, ReplyMissedAck, MissedBlockAck, InactivityTimeout,
             NothingElseSent, NothingElseReceived, NothingElseTold
    <3> QED BY <2>1, <3>1, <3>2 DEF NeverTornDown
  <2>3. Handshake /\ Backed /\ AckBacked /\ SentBacked
    BY <1>1, <2>2 DEF ReceivedInv, OrderInv, WindowInv, PacketInv, AgreementInv
  <2>4. Backed'
    BY <1>1, <1>3, <2>3, BackedStep
  <2>5. AckBacked'
    BY <1>1, <1>3, <2>3, AckBackedStep
  <2>6. SentBacked'
    BY <1>1, <1>3, <2>3, SentBackedStep
  <2> QED BY <2>4, <2>5, <2>6
<1> QED BY <1>2, <1>3

(* While the packets take at most half of the numbers and no inactivity    *)
(* timer expires, a packet is reported sent only after the recipient got   *)
(* it: its ack, or its bit in a block ack, was of this packet and not of   *)
(* another one, whatever was lost, sent again or answered late.            *)
THEOREM SentIsReceived == ASSUME HalfTheNumbers PROVE Spec => []SentMeansReceived
<1>1. ReceivedInv /\ [Next]_vars => ReceivedInv'
  BY ReceivedStep
<1>2. Init => ReceivedInv
  <2> SUFFICES ASSUME Init PROVE ReceivedInv
    OBVIOUS
  <2>1. Way = {}
    <3>1. /\ cur = NoFrame /\ air = NoFrame /\ rx.buffer = <<>> /\ ba.sent = <<>>
      BY NoRecordIs DEF Init, NoAgreement
    <3>2. PairsOf(<<>>) = {}
      BY DEF PairsOf
    <3> QED BY <3>1, <3>2, PairsIs DEF Way
  <2>2. Backed
    BY <2>1 DEF Backed
  <2>3. AckBacked /\ SentBacked
    BY Kinds DEF Init, AckBacked, SentBacked
  <2> QED BY <2>2, <2>3, InitOrder DEF ReceivedInv
<1>3. ReceivedInv => SentMeansReceived
  BY DEF ReceivedInv, SentBacked, SentMeansReceived, InHand, Recipient
<1> QED BY <1>1, <1>2, <1>3, PTL DEF Spec

-----------------------------------------------------------------------------
(* Types.                                                                  *)

Sides == {"originator", "recipient"}
Counted == expired \in 0..MaxExpired /\ losses \in 0..MaxLosses /\ timeouts \in 0..MaxTimeouts
Listing == delbas \in Seq({"delba"}) /\ blocked \in BOOLEAN
Awaiting == low \in {"idle", "noack", "ack", "rack", "blockack"} /\ seen \subseteq Sides /\ timers \subseteq Sides
Reported == outcome \in [Packet -> {"pending", "ok", "failed", "gone"}]
Tried == slrc \in [Sides -> 0..MaxSlrc]

LEMMA BoundType == MaxExpired \in Nat /\ MaxLosses \in Nat /\ MaxTimeouts \in Nat /\ MaxSlrc \in Nat \ {0}
  BY BlockAckAssumption

LEMMA CountedStep == Counted /\ Next => Counted'
<1> SUFFICES ASSUME Counted, Next PROVE Counted'
  OBVIOUS
<1>1. expired \in Nat /\ losses \in Nat /\ timeouts \in Nat /\ expired <= MaxExpired /\ losses <= MaxLosses /\ timeouts <= MaxTimeouts
  BY BoundType, SMTT(30) DEF Counted
<1>2. expired' = expired \/ (expired' = expired + 1 /\ expired < MaxExpired)
  BY SMTT(30) DEF Next, Originate, Receive, Timeout, Queue, Expire, Lose, Resend, SendBlockAckRequest, SendRetry, SendDelba,
         SetupBlockAck, SendFirst, SendNothing, EndTxNoAck, SendReply, ReceiveUnderBlockAck, ReceiveUnderNormalAck,
         ReceiveBlockAckReq, ReceiveAddBaRequest, ReceiveDelBa, ReceiveAddBaResponse, GotDelBaFrame, GotBlockAck,
         GotAck, ReplyGotAck, MissedAck, ReplyMissedAck, MissedBlockAck, InactivityTimeout, TearDownBlockAck, Established,
         NothingElseSent, NothingElseReceived, NothingElseTold, Answered, TimedOut, Transmit, Running, sender, receiver, medium
<1>3. losses' = losses \/ (losses' = losses + 1 /\ losses < MaxLosses)
  BY SMTT(30) DEF Next, Originate, Receive, Timeout, Queue, Expire, Lose, Resend, SendBlockAckRequest, SendRetry, SendDelba,
         SetupBlockAck, SendFirst, SendNothing, EndTxNoAck, SendReply, ReceiveUnderBlockAck, ReceiveUnderNormalAck,
         ReceiveBlockAckReq, ReceiveAddBaRequest, ReceiveDelBa, ReceiveAddBaResponse, GotDelBaFrame, GotBlockAck,
         GotAck, ReplyGotAck, MissedAck, ReplyMissedAck, MissedBlockAck, InactivityTimeout, TearDownBlockAck, Established,
         NothingElseSent, NothingElseReceived, NothingElseTold, Answered, TimedOut, Transmit, Running, sender, receiver, medium
<1>4. timeouts' = timeouts \/ (timeouts' = timeouts + 1 /\ timeouts < MaxTimeouts)
  BY DEF Next, Originate, Receive, Timeout, Queue, Expire, Lose, Resend, SendBlockAckRequest, SendRetry, SendDelba,
         SetupBlockAck, SendFirst, SendNothing, EndTxNoAck, SendReply, ReceiveUnderBlockAck, ReceiveUnderNormalAck,
         ReceiveBlockAckReq, ReceiveAddBaRequest, ReceiveDelBa, ReceiveAddBaResponse, GotDelBaFrame, GotBlockAck,
         GotAck, ReplyGotAck, MissedAck, ReplyMissedAck, MissedBlockAck, InactivityTimeout, TearDownBlockAck, Established,
         NothingElseSent, NothingElseReceived, NothingElseTold, Answered, TimedOut, Transmit, Running, sender, receiver, medium
<1>5. expired' \in 0..MaxExpired
  BY <1>1, <1>2, BoundType
<1>6. losses' \in 0..MaxLosses
  BY <1>1, <1>3, BoundType
<1>7. timeouts' \in 0..MaxTimeouts
  BY <1>1, <1>4, BoundType
<1> QED BY <1>5, <1>6, <1>7 DEF Counted

LEMMA ListingStep == Listing /\ Next => Listing'
<1> SUFFICES ASSUME Listing, Next PROVE Listing'
  OBVIOUS
<1>1. blocked' = blocked \/ blocked' = TRUE \/ blocked' = FALSE
  BY DEF Next, Originate, Receive, Timeout, Queue, Expire, Lose, Resend, SendBlockAckRequest, SendRetry, SendDelba,
         SetupBlockAck, SendFirst, SendNothing, EndTxNoAck, SendReply, ReceiveUnderBlockAck, ReceiveUnderNormalAck,
         ReceiveBlockAckReq, ReceiveAddBaRequest, ReceiveDelBa, ReceiveAddBaResponse, GotDelBaFrame, GotBlockAck,
         GotAck, ReplyGotAck, MissedAck, ReplyMissedAck, MissedBlockAck, InactivityTimeout, TearDownBlockAck, Established,
         NothingElseSent, NothingElseReceived, NothingElseTold, Answered, TimedOut, Transmit, Running, sender, receiver, medium
<1>2. delbas' = delbas \/ (delbas # <<>> /\ delbas' = Tail(delbas)) \/ delbas' = <<"delba">> \o delbas
  BY DEF Next, Originate, Receive, Timeout, Queue, Expire, Lose, Resend, SendBlockAckRequest, SendRetry, SendDelba,
         SetupBlockAck, SendFirst, SendNothing, EndTxNoAck, SendReply, ReceiveUnderBlockAck, ReceiveUnderNormalAck,
         ReceiveBlockAckReq, ReceiveAddBaRequest, ReceiveDelBa, ReceiveAddBaResponse, GotDelBaFrame, GotBlockAck,
         GotAck, ReplyGotAck, MissedAck, ReplyMissedAck, MissedBlockAck, InactivityTimeout, TearDownBlockAck, Established,
         NothingElseSent, NothingElseReceived, NothingElseTold, Answered, TimedOut, Transmit, Running, sender, receiver, medium
<1>3. PICK d : d = delbas /\ d \in Seq({"delba"})
  BY DEF Listing
<1>4. d # <<>> => Tail(d) \in Seq({"delba"})
  BY <1>3, Rest
<1>5. <<"delba">> \o d \in Seq({"delba"})
  BY <1>3
<1>6. delbas' \in Seq({"delba"})
  BY <1>2, <1>3, <1>4, <1>5
<1> QED BY <1>1, <1>6 DEF Listing

LEMMA AwaitingStep == Awaiting /\ Next => Awaiting'
<1> SUFFICES ASSUME Awaiting, Next PROVE Awaiting'
  OBVIOUS
<1>1. low' = low \/ low' \in {"idle", "noack", "ack", "rack", "blockack"}
  BY DEF Next, Originate, Receive, Timeout, Queue, Expire, Lose, Resend, SendBlockAckRequest, SendRetry, SendDelba,
         SetupBlockAck, SendFirst, SendNothing, EndTxNoAck, SendReply, ReceiveUnderBlockAck, ReceiveUnderNormalAck,
         ReceiveBlockAckReq, ReceiveAddBaRequest, ReceiveDelBa, ReceiveAddBaResponse, GotDelBaFrame, GotBlockAck,
         GotAck, ReplyGotAck, MissedAck, ReplyMissedAck, MissedBlockAck, InactivityTimeout, TearDownBlockAck, Established,
         NothingElseSent, NothingElseReceived, NothingElseTold, Answered, TimedOut, Transmit, Running, sender, receiver, medium
<1>2. \/ seen' = seen \/ seen' = seen \cup {"originator"} \/ seen' = seen \cup {"recipient"}
      \/ seen' = seen \ {"originator"} \/ seen' = seen \ {"recipient"}
  BY DEF Next, Originate, Receive, Timeout, Queue, Expire, Lose, Resend, SendBlockAckRequest, SendRetry, SendDelba,
         SetupBlockAck, SendFirst, SendNothing, EndTxNoAck, SendReply, ReceiveUnderBlockAck, ReceiveUnderNormalAck,
         ReceiveBlockAckReq, ReceiveAddBaRequest, ReceiveDelBa, ReceiveAddBaResponse, GotDelBaFrame, GotBlockAck,
         GotAck, ReplyGotAck, MissedAck, ReplyMissedAck, MissedBlockAck, InactivityTimeout, TearDownBlockAck, Established,
         NothingElseSent, NothingElseReceived, NothingElseTold, Answered, TimedOut, Transmit, Running, sender, receiver, medium
<1>3. \/ timers' = timers \/ timers' = timers \cup {"originator"} \/ timers' = timers \cup {"recipient"}
      \/ timers' = timers \ {"originator"} \/ timers' = timers \ {"recipient"}
  BY DEF Next, Originate, Receive, Timeout, Queue, Expire, Lose, Resend, SendBlockAckRequest, SendRetry, SendDelba,
         SetupBlockAck, SendFirst, SendNothing, EndTxNoAck, SendReply, ReceiveUnderBlockAck, ReceiveUnderNormalAck,
         ReceiveBlockAckReq, ReceiveAddBaRequest, ReceiveDelBa, ReceiveAddBaResponse, GotDelBaFrame, GotBlockAck,
         GotAck, ReplyGotAck, MissedAck, ReplyMissedAck, MissedBlockAck, InactivityTimeout, TearDownBlockAck, Established,
         NothingElseSent, NothingElseReceived, NothingElseTold, Answered, TimedOut, Transmit, Running, sender, receiver, medium
<1>4. low' \in {"idle", "noack", "ack", "rack", "blockack"}
  BY <1>1 DEF Awaiting
<1>5. seen' \subseteq Sides
  BY <1>2 DEF Awaiting, Sides
<1>6. timers' \subseteq Sides
  BY <1>3 DEF Awaiting, Sides
<1> QED BY <1>4, <1>5, <1>6 DEF Awaiting

LEMMA ReportedStep == Reported /\ Next => Reported'
<1> SUFFICES ASSUME Reported, Next PROVE Reported'
  OBVIOUS
<1>1. outcome' = outcome \/ \E S : \E what \in {"ok", "failed", "gone"} : outcome' = Report(S, what)
  <2>1. outcome' = outcome \/ \E S : outcome' = Report(S, "ok") \/ outcome' = Report(S, "failed") \/ outcome' = Report(S, "gone")
    BY DEF Next, Originate, Receive, Timeout, Queue, Expire, Lose, Resend, SendBlockAckRequest, SendRetry, SendDelba,
         SetupBlockAck, SendFirst, SendNothing, EndTxNoAck, SendReply, ReceiveUnderBlockAck, ReceiveUnderNormalAck,
         ReceiveBlockAckReq, ReceiveAddBaRequest, ReceiveDelBa, ReceiveAddBaResponse, GotDelBaFrame, GotBlockAck,
         GotAck, ReplyGotAck, MissedAck, ReplyMissedAck, MissedBlockAck, InactivityTimeout, TearDownBlockAck, Established,
         NothingElseSent, NothingElseReceived, NothingElseTold, Answered, TimedOut, Transmit, Running, sender, receiver, medium
  <2> QED BY <2>1, SMTT(30)
<1>2. \A S : \A what \in {"ok", "failed", "gone"} : Report(S, what) \in [Packet -> {"pending", "ok", "failed", "gone"}]
  BY DEF Reported, Report
<1> QED BY <1>1, <1>2 DEF Reported

(* The last of the positions in I. *)
LEMMA GreatestPosition ==
  ASSUME NEW n \in Nat, NEW I, I \subseteq 1..n, I # {}
  PROVE  Max(I) \in 1..n
<1>1. PICK K : K = {k \in 1..n : n + 1 - k \in I}
  OBVIOUS
<1>2. K \subseteq 1..n /\ K # {}
  <2>1. PICK i \in I : i \in 1..n
    OBVIOUS
  <2>2. n + 1 - i \in 1..n /\ n + 1 - (n + 1 - i) = i
    BY <2>1
  <2> QED BY <1>1, <2>1, <2>2
<1>3. PICK m \in 1..n : m = Min(K) /\ m \in K /\ \A k \in K : m <= k
  BY <1>2, LeastPosition
<1>4. n + 1 - m \in I
  BY <1>1, <1>3
<1>5. \A y \in I : n + 1 - m >= y
  <2> SUFFICES ASSUME NEW y \in I PROVE n + 1 - m >= y
    OBVIOUS
  <2>1. y \in 1..n
    OBVIOUS
  <2>2. n + 1 - y \in 1..n /\ n + 1 - (n + 1 - y) = y
    BY <2>1
  <2>3. m <= n + 1 - y
    BY <1>1, <1>3, <2>2
  <2> QED BY <1>3, <2>1, <2>3
<1>6. Max(I) \in I
  BY <1>4, <1>5 DEF Max
<1> QED BY <1>6

LEMMA SlrcStep ==
  ASSUME NEW f, f \in [Sides -> 0..MaxSlrc], NEW n, n \in 0..MaxSlrc, NEW side \in Sides
  PROVE  [f EXCEPT ![side] = n] \in [Sides -> 0..MaxSlrc]
  OBVIOUS

LEMMA TriedStep ==
  ASSUME WindowInv, Tried, Next
  PROVE  Tried'
<1>1. PICK f : f = slrc /\ f \in [Sides -> 0..MaxSlrc]
  BY DEF Tried
<1>2. f["originator"] \in 0..MaxSlrc /\ f["recipient"] \in 0..MaxSlrc /\ {"originator", "recipient"} = Sides
  BY <1>1 DEF Sides
<1>3. 0 \in 0..MaxSlrc /\ MaxSlrc \in 0..MaxSlrc /\ MaxSlrc \in Nat
  BY BoundType
<1>4. \A n \in Nat : (IF n < MaxSlrc THEN n ELSE MaxSlrc) \in 0..MaxSlrc /\ (n < MaxSlrc => n \in 0..MaxSlrc)
  BY <1>3
<1>5. f["originator"] + 1 \in Nat /\ f["recipient"] + 1 \in Nat
  BY <1>2, <1>3
<1>6. CASE GotBlockAck
  <2>1. PICK n : n = FailedInARow(air.acked)
    OBVIOUS
  <2>2. n \in Nat
    <3>1. PICK len \in Nat : len = Len(ba.sent) /\ DOMAIN ba.sent = 1..len
      <4>1. ba.sent \in Seq(Item)
        BY AgreementIs DEF WindowInv, Ordered
      <4> QED BY <4>1
    <3>2. PICK hits : hits = {i \in DOMAIN ba.sent : ba.sent[i].seq \in air.acked} /\ hits \subseteq 1..len
      BY <3>1
    <3>3. n = IF hits = {} THEN slrc["originator"] + len ELSE len - Max(hits)
      BY <2>1, <3>1, <3>2 DEF FailedInARow
    <3>4. CASE hits = {}
      BY <1>1, <1>2, <1>3, <3>3, <3>4
    <3>5. CASE hits # {}
      <4>1. Max(hits) \in 1..len
        BY <3>2, <3>5, GreatestPosition
      <4> QED BY <3>3, <3>5, <4>1
    <3> QED BY <3>4, <3>5
  <2>3. slrc' = f \/ slrc' = [f EXCEPT !["originator"] = IF n < MaxSlrc THEN n ELSE MaxSlrc]
    BY <1>1, <1>6, <2>1 DEF GotBlockAck
  <2> QED BY <1>1, <1>2, <1>4, <2>2, <2>3, SlrcStep DEF Tried
<1>7. CASE GotAck
  <2>1. slrc' = [f EXCEPT !["originator"] = 0]
    BY <1>1, <1>7 DEF GotAck
  <2> QED BY <1>1, <1>2, <1>3, <2>1, SlrcStep DEF Tried
<1>8. CASE ReplyGotAck
  <2>1. slrc' = [f EXCEPT !["recipient"] = 0]
    BY <1>1, <1>8 DEF ReplyGotAck
  <2> QED BY <1>1, <1>2, <1>3, <2>1, SlrcStep DEF Tried
<1>9. CASE MissedAck \/ MissedBlockAck
  <2>1. PICK n : n = f["originator"] + 1
    OBVIOUS
  <2>2. \/ slrc' = [f EXCEPT !["originator"] = 0]
        \/ (n < MaxSlrc /\ slrc' = [f EXCEPT !["originator"] = n])
        \/ slrc' = [f EXCEPT !["originator"] = IF n < MaxSlrc THEN n ELSE MaxSlrc]
    BY <1>1, <1>9, <2>1 DEF MissedAck, MissedBlockAck, Failed
  <2> QED BY <1>1, <1>2, <1>3, <1>4, <1>5, <2>1, <2>2, SlrcStep DEF Tried
<1>10. CASE ReplyMissedAck
  <2>1. PICK n : n = f["recipient"] + 1
    OBVIOUS
  <2>2. slrc' = [f EXCEPT !["recipient"] = 0] \/ (n < MaxSlrc /\ slrc' = [f EXCEPT !["recipient"] = n])
    BY <1>1, <1>10, <2>1 DEF ReplyMissedAck, Failed
  <2> QED BY <1>1, <1>2, <1>3, <1>4, <1>5, <2>1, <2>2, SlrcStep DEF Tried
<1>11. CASE ~(GotBlockAck \/ GotAck \/ ReplyGotAck \/ MissedAck \/ ReplyMissedAck \/ MissedBlockAck)
  <2>1. slrc' = slrc
    BY <1>11 DEF Next, Originate, Receive, Timeout, Queue, Expire, Lose, Resend, SendBlockAckRequest, SendRetry, SendDelba,
           SetupBlockAck, SendFirst, SendNothing, EndTxNoAck, SendReply, ReceiveUnderBlockAck, ReceiveUnderNormalAck,
           ReceiveBlockAckReq, ReceiveAddBaRequest, ReceiveDelBa, ReceiveAddBaResponse, GotDelBaFrame,
           InactivityTimeout, NothingElseSent, NothingElseReceived
  <2> QED BY <2>1 DEF Tried
<1> QED BY <1>6, <1>7, <1>8, <1>9, <1>10, <1>11

RecordsInv == OrderInv /\ Counted /\ Listing /\ Awaiting /\ Reported /\ Tried

LEMMA RecordsStep == HalfTheNumbers /\ RecordsInv /\ [Next]_vars => RecordsInv'
<1> SUFFICES ASSUME HalfTheNumbers, RecordsInv, [Next]_vars PROVE RecordsInv'
  OBVIOUS
<1>1. OrderInv /\ OrderInv' /\ WindowInv
  BY OrderStep DEF RecordsInv, OrderInv
<1>2. CASE UNCHANGED vars
  BY <1>1, <1>2 DEF RecordsInv, vars, sender, receiver, medium, Counted, Listing, Awaiting, Reported, Tried
<1>3. CASE Next
  BY <1>1, <1>3, CountedStep, ListingStep, AwaitingStep, ReportedStep, TriedStep DEF RecordsInv
<1> QED BY <1>2, <1>3

LEMMA SoundIs == RecordsInv => RecordsAreSound
<1> SUFFICES ASSUME RecordsInv PROVE RecordsAreSound
  OBVIOUS
<1>1. WindowInv /\ FrameInv /\ RecipientInv
  BY DEF RecordsInv, OrderInv
<1>2. offered \in 0..Cardinality(Packet) /\ queue \in Seq(Packet) /\ nextSeq \in Seqs
  BY <1>1 DEF WindowInv, Numbered
<1>3. rx \in Record /\ up \in Seq(Packet) /\ lastSeq \in 0..SeqSpace
  <2>1. PICK r : r = Recipient /\ r \in Recv /\ rx \in Record
    BY <1>1, RecipientHas
  <2> QED BY <2>1, RecvIs, RecipientIs
<1>4. ba \in [state : {"none", "pending", "established"}, start : Seqs, needBar : BOOLEAN,
              sent : Seq(Item), retry : Seq(Seqs), bars : Seq(Seqs)]
  <2>1. ba \in Agreement
    BY <1>1 DEF WindowInv, Ordered
  <2> QED BY <2>1 DEF Agreement
<1>5. replies \in Seq({"resp", "delba"})
  BY <1>1 DEF WindowInv, PacketInv, Serving
<1>6. {seen, timers} \subseteq {{}, {"originator"}, {"recipient"}, {"originator", "recipient"}}
  BY ZenonT(60) DEF RecordsInv, Awaiting, Sides
<1>7. Dist(rx.winEnd, rx.winStart) = Window - 1
  BY <1>1, RecipientHas DEF Whole
<1>8. TypeOK
  BY <1>1, <1>2, <1>3, <1>4, <1>5, <1>6
     DEF TypeOK, FrameInv, RecordsInv, Counted, Listing, Awaiting, Reported, Tried, Sides, Record
<1> QED BY <1>7, <1>8 DEF RecordsAreSound, CacheWindow

(* While the packets take at most half of the numbers, the records of both *)
(* sides stay sound: frames, queues, windows and buffers keep their types, *)
(* and data and requests that move the window of BlockAckCache move both   *)
(* of its ends; inactivity timers may expire.                              *)
THEOREM RecordsStaySound == ASSUME HalfTheNumbers PROVE Spec => []RecordsAreSound
<1>1. RecordsInv /\ [Next]_vars => RecordsInv'
  BY RecordsStep
<1>2. Init => RecordsInv
  <2> SUFFICES ASSUME Init PROVE RecordsInv
    OBVIOUS
  <2>1. Counted
    BY BoundType DEF Init, Counted
  <2>2. Listing
    <3>1. <<>> \in Seq({"delba"})
      OBVIOUS
    <3> QED BY <3>1 DEF Init, Listing
  <2>3. Awaiting
    BY DEF Init, Awaiting
  <2>4. Reported
    BY DEF Init, Reported
  <2>5. Tried
    BY BoundType DEF Init, Tried, Sides
  <2> QED BY <2>1, <2>2, <2>3, <2>4, <2>5, InitOrder DEF RecordsInv
<1> QED BY <1>1, <1>2, SoundIs, PTL DEF Spec
=============================================================================
