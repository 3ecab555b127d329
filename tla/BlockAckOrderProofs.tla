---------------------------- MODULE BlockAckOrderProofs ----------------------------
(***************************************************************************)
(* Packets are handed up in order under a block ack, and once while no     *)
(* agreement is torn down, for any packets, losses, retry limits and       *)
(* expired packets, as long as the numbers stay in the first half of the   *)
(* space and the window is wider than one packet.                          *)
(*                                                                         *)
(* First what the recipient's operators do to numbers of the first half:   *)
(* keys compare like numbers, StoreMpdu keeps the buffer sorted, the two   *)
(* handlers that empty it take a prefix, MacRxMiddle hands it up in order. *)
(* Then the invariant: what may still arrive fits into one window, which   *)
(* the recipient has not passed, and only the newest packet comes again    *)
(* after its bit was set.  At last a lemma for each kind of step.          *)
(***************************************************************************)
EXTENDS BlockAckProofs

-----------------------------------------------------------------------------
(* Numbers of the first half.                                              *)

(* The packets' numbers end before the second half of the space.           *)
Half == SeqSpace \div 2
FirstHalf == FirstSeq + Cardinality(Packet) <= Half
Early == 0..(Half - 1)

(* The first half of the numbers is no shorter than a window.              *)
LEMMA HalfIs ==
  /\ Half \in Nat /\ 2 * Half <= SeqSpace /\ SeqSpace <= 2 * Half + 1
  /\ Window \in Nat \ {0} /\ Window <= Half /\ SeqSpace \in Nat /\ FirstSeq \in Nat /\ Cardinality(Packet) \in Nat
<1>1. SeqSpace \in Nat \ {0} /\ Window \in Nat \ {0} /\ 2 * Window <= SeqSpace /\ Cardinality(Packet) \in Nat
      /\ FirstSeq \in Nat
  BY SpaceType DEF Seqs
<1>2. Half \in Nat /\ 2 * Half <= SeqSpace /\ SeqSpace <= 2 * Half + 1
  BY <1>1 DEF Half
<1> QED BY <1>1, <1>2

(* Packets whose numbers stay in the first half take at most half of the   *)
(* numbers.                                                                *)
LEMMA HalfSuffices == FirstHalf => HalfTheNumbers
  BY HalfIs DEF FirstHalf, HalfTheNumbers

(* The numbers that were drawn are those between the first and the next.   *)
LEMMA EarlyIs ==
  ASSUME FirstHalf, NEW s \in Seqs, Draw(s) <= Cardinality(Packet)
  PROVE  s = FirstSeq + Draw(s) /\ s \in Nat /\ s <= Half /\ FirstSeq <= s
<1>1. /\ SeqSpace \in Nat /\ FirstSeq \in Nat /\ s \in 0..(SeqSpace - 1) /\ FirstSeq \in Seqs
      /\ Cardinality(Packet) \in Nat
  BY SpaceType DEF Seqs
<1>2. PICK d, k : /\ d = Draw(s) /\ d \in Nat /\ d = IF s < FirstSeq THEN s + SeqSpace - FirstSeq ELSE s - FirstSeq
                  /\ k = Cardinality(Packet) /\ k \in Nat /\ d <= k
  <2>1. Dist(s, FirstSeq) = IF s < FirstSeq THEN s + SeqSpace - FirstSeq ELSE s - FirstSeq
    BY <1>1, DistIs
  <2> QED BY <1>1, <2>1, DrawIs DEF Draw
<1>3. FirstSeq + k <= Half /\ Half \in Nat /\ 2 * Half <= SeqSpace
  BY <1>2, HalfIs DEF FirstHalf
<1>4. s = FirstSeq + d /\ s \in Nat /\ s <= Half /\ FirstSeq <= s
  BY <1>1, <1>2, <1>3
<1> QED BY <1>2, <1>4

(* What was drawn before the counter is smaller than the counter.          *)
LEMMA DrawnIs ==
  ASSUME FirstHalf, NEW n \in Seqs, Draw(n) <= Cardinality(Packet), NEW s
  PROVE  /\ Drawn(Draw(n), s) => s \in Nat /\ s < n /\ s \in Early /\ s \in Seqs /\ FirstSeq <= s
         /\ n \in 0..Half
<1>1. n = FirstSeq + Draw(n) /\ n \in Nat /\ n <= Half /\ Draw(n) \in Nat
  BY EarlyIs, DrawIs
<1>2. ASSUME Drawn(Draw(n), s) PROVE s \in Nat /\ s < n /\ s \in Early /\ s \in Seqs /\ FirstSeq <= s
  <2>1. s \in Seqs /\ Draw(s) \in Nat /\ Draw(s) < Draw(n)
    BY <1>2, DrawIs DEF Drawn
  <2>2. PICK ds, dn, k : ds = Draw(s) /\ dn = Draw(n) /\ ds \in Nat /\ dn \in Nat /\ k = Cardinality(Packet) /\ k \in Nat
    BY <1>1, <2>1, HalfIs
  <2>3. s = FirstSeq + ds /\ s \in Nat
    BY <2>1, <2>2, EarlyIs
  <2>4. s < n /\ s < Half
    BY <1>1, <2>1, <2>2, <2>3, HalfIs
  <2>5. FirstSeq <= s
    BY <2>2, <2>3, HalfIs
  <2> QED BY <2>1, <2>3, <2>4, <2>5, HalfIs DEF Early
<1> QED BY <1>1, <1>2, HalfIs

(* Of numbers of the first half, old means smaller.                        *)
LEMMA EarlyOld ==
  ASSUME NEW s \in Early, NEW t \in 0..Half
  PROVE  /\ s \in Seqs /\ t \in Seqs /\ (IsOld(t, s) <=> s < t)
         /\ t <= s => Dist(s, t) = s - t
<1>1. Half \in Nat /\ Half # 0 /\ 2 * Half <= SeqSpace /\ SeqSpace <= 2 * Half + 1 /\ SeqSpace \in Nat
  BY HalfIs
<1>2. s \in Seqs /\ t \in Seqs /\ s \in 0..(Half - 1)
  BY <1>1 DEF Seqs, Early
<1>3. PICK d : d = Dist(s, t) /\ d = IF s < t THEN s + SeqSpace - t ELSE s - t
  BY <1>2, DistIs
<1>4. d >= Half <=> s < t
  BY <1>1, <1>2, <1>3
<1>5. t <= s => d = s - t
  BY <1>1, <1>2, <1>3
<1> QED BY <1>2, <1>3, <1>4, <1>5 DEF IsOld, Half

(* Keys.                                                                   *)
LEMMA Quotient ==
  ASSUME NEW f \in Nat \ {0}, NEW x \in Nat
  PROVE  x \div f \in Nat /\ x % f \in 0..(f - 1) /\ x = f * (x \div f) + (x % f) /\ x \div f <= x
  OBVIOUS

LEMMA Multiple ==
  ASSUME NEW f \in Nat \ {0}, NEW x \in Nat
  PROVE  (x * f) \div f = x /\ (x * f) % f = 0 /\ x * f \in Nat
  OBVIOUS

(* Sequence controls compare like the numbers they are made from.          *)
LEMMA MultipleOrder ==
  ASSUME NEW f \in Nat \ {0}, NEW x \in Nat, NEW y \in Nat
  PROVE  x * f \in Nat /\ y * f \in Nat /\ (x * f >= y * f <=> x >= y)
  OBVIOUS

(* While a window begins in the first half, the key of a control is itself *)
(* but for a constant.                                                     *)
Offset(start) == (SeqSpace - start - Half) * FragMod

(* MapSeqControl adds a constant to a control of the first half.           *)
LEMMA KeyIs ==
  ASSUME NEW start \in 0..Half, NEW control \in Nat, control \div FragMod \in Early \cup {start}
  PROVE  MapSeqControl(control, start) = control + Offset(start) /\ Offset(start) \in Nat
<1>1. Half \in Nat /\ Half # 0 /\ 2 * Half <= SeqSpace /\ SeqSpace <= 2 * Half + 1 /\ SeqSpace \in Nat
      /\ FragMod \in Nat \ {0}
  BY HalfIs, SpaceType
<1>2. PICK h : h = SeqSpace \div 2 /\ h = Half
  BY DEF Half
<1>3. PICK y, m : y = control \div FragMod /\ m = control % FragMod /\ y \in Nat /\ (y < Half \/ y = start) /\ m \in Nat
                  /\ control = FragMod * y + m
  <2>1. control % FragMod \in 0..(FragMod - 1) /\ control = FragMod * (control \div FragMod) + (control % FragMod)
    BY <1>1, Quotient
  <2>2. PICK y, m : y = control \div FragMod /\ m = control % FragMod
    OBVIOUS
  <2>3. y \in Early \cup {start} /\ m \in 0..(FragMod - 1) /\ control = FragMod * y + m
    BY <2>1, <2>2
  <2>4. y \in Nat /\ (y < Half \/ y = start) /\ m \in Nat
    BY <1>1, <2>3 DEF Early
  <2> QED BY <2>2, <2>3, <2>4
<1>4. Plus(start, SeqSpace \div 2 - 1) = start + Half - 1
  <2>1. start \in Seqs /\ h - 1 \in 0..SeqSpace
    BY <1>1, <1>2 DEF Seqs
  <2>2. Plus(start, h - 1) = IF start + (h - 1) < SeqSpace THEN start + (h - 1) ELSE start + (h - 1) - SeqSpace
    BY <2>1, PlusIs
  <2>3. start + (h - 1) < SeqSpace /\ start + (h - 1) = start + Half - 1
    BY <1>1, <1>2
  <2> QED BY <1>2, <2>2, <2>3
<1>5. PICK x : x = y + SeqSpace - (start + Half) /\ x \in 0..(SeqSpace - 1)
  BY <1>1, <1>3
<1>6. Dist(y, (start + Half - 1) + 1) = x
  <2>1. x % SeqSpace = x
    BY <1>1, <1>5
  <2>2. (start + Half - 1) + 1 = start + Half
    BY <1>1
  <2> QED BY <1>5, <2>1, <2>2 DEF Dist
<1>7. MapSeqControl(control, start) = x * FragMod + m
  BY <1>3, <1>4, <1>6 DEF MapSeqControl
<1>8. PICK c : c = SeqSpace - start - Half /\ c \in Nat /\ x = y + c
  BY <1>1, <1>3, <1>5
<1>9. x * FragMod + m = (FragMod * y + m) + c * FragMod /\ c * FragMod \in Nat
  <2>1. ASSUME NEW a \in Nat, NEW b \in Nat, NEW f \in Nat, NEW r \in Nat
        PROVE  (a + b) * f + r = (f * a + r) + b * f /\ b * f \in Nat
    BY <2>1
  <2>2. y \in Nat /\ c \in Nat /\ FragMod \in Nat /\ m \in Nat
    BY <1>1, <1>3, <1>8
  <2> QED BY <1>8, <2>1, <2>2
<1> QED BY <1>3, <1>7, <1>8, <1>9 DEF Offset

(* Buffers are sorted by number, and numbers are compared by value.        *)
LEMMA KeyOrder ==
  ASSUME NEW start \in 0..Half, NEW s \in Early, NEW t \in Early \cup {start}
  PROVE  /\ MapSeqControl(s, start) >= MapSeqControl(t, start) <=> s >= t
         /\ MapSeqControl(s * FragMod, start) >= MapSeqControl(t * FragMod, start) <=> s >= t
<1>1. FragMod \in Nat \ {0} /\ Half \in Nat /\ Half # 0 /\ s \in 0..(Half - 1) /\ start \in Nat /\ t \in Nat /\ start <= Half
  BY HalfIs, SpaceType DEF Early
<1>2. \A x \in Early \cup {start} :
        x \in Nat /\ x \div FragMod \in Early \cup {start} /\ x * FragMod \in Nat /\ (x * FragMod) \div FragMod \in Early \cup {start}
  <2> TAKE x \in Early \cup {start}
  <2>1. x \in Nat /\ x <= Half /\ (x = Half => x = start)
    BY <1>1 DEF Early
  <2>2. PICK y : y = x \div FragMod /\ y \in Nat /\ y <= x
    BY <1>1, <2>1, Quotient
  <2>3. x * FragMod \in Nat /\ (x * FragMod) \div FragMod = x
    BY <1>1, <2>1, Multiple
  <2>4. y < Half \/ y = start
    BY <1>1, <2>1, <2>2
  <2>5. y \in Early \cup {start}
    BY <1>1, <2>2, <2>4 DEF Early
  <2> QED BY <2>1, <2>2, <2>3, <2>5
<1>3. \A x \in Early \cup {start} : /\ MapSeqControl(x, start) = x + Offset(start) /\ Offset(start) \in Nat
                       /\ MapSeqControl(x * FragMod, start) = x * FragMod + Offset(start)
  <2> TAKE x \in Early \cup {start}
  <2>1. MapSeqControl(x, start) = x + Offset(start) /\ Offset(start) \in Nat
    BY <1>2, KeyIs
  <2>2. PICK c : c = x * FragMod /\ c \in Nat /\ c \div FragMod \in Early \cup {start}
    BY <1>2
  <2>3. MapSeqControl(c, start) = c + Offset(start)
    BY <2>2, KeyIs
  <2> QED BY <2>1, <2>2, <2>3
<1>4. PICK o \in Nat, a \in Nat, b \in Nat : o = Offset(start) /\ a = s * FragMod /\ b = t * FragMod /\ (a >= b <=> s >= t)
  BY <1>1, <1>2, <1>3, MultipleOrder
<1>5. (s + o >= t + o <=> s >= t) /\ (a + o >= b + o <=> a >= b)
  BY <1>1, <1>4
<1> QED BY <1>3, <1>4, <1>5

(* What was handed up is in order, and before what is on its way.          *)
Ranked(P) == \A x, y \in P : x[1] < y[1] => x[2] < y[2]
Reached(last, s) == last = SeqSpace \/ last <= s
Past(last, s) == last = SeqSpace \/ last < s
Climbing(told) == \A i, j \in DOMAIN told : i < j => told[i] < told[j]
UpOrder(P, told, last) ==
  /\ \A i, j \in DOMAIN told : i < j => told[i] <= told[j]
  /\ \A i \in DOMAIN told : \A x \in P : (last < x[1] => told[i] < x[2]) /\ (last = x[1] => told[i] <= x[2])
  /\ told # <<>> => last < SeqSpace

Increasing(items) == \A i, j \in DOMAIN items : i < j => items[i].seq < items[j].seq
Repeats(items, last) == \A i \in DOMAIN items : items[i].seq = last => items[i].retry
Natural(P) == \A x \in P : x[1] \in Nat /\ x[2] \in Nat
LastOf(items, last) == IF items = <<>> THEN last ELSE items[Len(items)].seq

(* The order of what was handed up does not depend on what left the way.   *)
LEMMA LessUpOrder ==
  ASSUME NEW P, NEW Q, Q \subseteq P, NEW told, NEW last, UpOrder(P, told, last)
  PROVE  UpOrder(Q, told, last)
  BY DEF UpOrder

(* MacRxMiddle hands up a rising list in order, and nothing twice if what  *)
(* repeats the last number is a retry.                                     *)
LEMMA HandUpOrder ==
  ASSUME NEW P, Once(P), Ranked(P), Natural(P), NEW r \in Recv, UpOrder(P, r.up, r.last),
         NEW items \in Seq(Item), PairsOf(items) \subseteq P, Increasing(items),
         \A i \in DOMAIN items : Reached(r.last, items[i].seq)
  PROVE  /\ HandUpAll(r, items) \in Recv /\ HandUpAll(r, items).rx = r.rx
         /\ HandUpAll(r, items).last = LastOf(items, r.last)
         /\ UpOrder(P, HandUpAll(r, items).up, LastOf(items, r.last))
         /\ ToSet(HandUpAll(r, items).up) \subseteq ToSet(r.up) \cup PacketsOf(items)
         /\ Repeats(items, r.last) /\ Climbing(r.up) => Climbing(HandUpAll(r, items).up)
<1>1. PICK len \in Nat : len = Len(items) /\ DOMAIN items = 1..len
  OBVIOUS
<1>2. \A i \in DOMAIN items : /\ items[i] \in Item /\ items[i].seq \in Seqs /\ items[i].packet \in Packet
                              /\ items[i].seq \in Nat /\ items[i].packet \in Nat /\ items[i].seq < SeqSpace
                              /\ \E x \in P : x[1] = items[i].seq /\ x[2] = items[i].packet
  <2> TAKE i \in DOMAIN items
  <2>1. items[i] \in Item
    OBVIOUS
  <2>2. items[i].seq \in Seqs /\ items[i].packet \in Packet
    BY <2>1 DEF Item
  <2>3. PICK x : x = <<items[i].seq, items[i].packet>> /\ x \in PairsOf(items)
    BY DEF PairsOf
  <2>4. items[i].seq \in Nat /\ items[i].seq < SeqSpace /\ items[i].packet \in Nat
    BY <2>2, SpaceType, SMTT(30) DEF Seqs
  <2> QED BY <2>1, <2>2, <2>3, <2>4
<1>3. PICK new : new = {i \in DOMAIN items : ~(items[i].retry /\ items[i].seq = IF i = 1 THEN r.last ELSE items[i - 1].seq)}
  OBVIOUS
<1>4. PICK passed, q : passed = Selected(items, new) /\ q = HandUpAll(r, items)
  OBVIOUS
<1>5. q = [r EXCEPT !.up = @ \o PacketSeq(passed),
                    !.last = IF Len(items) + 1 = 1 THEN r.last ELSE items[Len(items) + 1 - 1].seq]
  BY <1>3, <1>4 DEF HandUpAll, PacketSeq
<1>6. r.rx \in Record /\ r.up \in Seq(Packet) /\ r.last \in 0..SeqSpace /\ DOMAIN r = {"rx", "up", "last"}
  BY DEF Recv
<1>7. /\ passed \in Seq(Item) /\ Part(passed, items) /\ \A i \in DOMAIN passed : \E x \in new : passed[i] = items[x]
  <2>1. new \subseteq DOMAIN items
    BY <1>3
  <2> QED BY <1>4, <2>1, SelectedPart
<1>8. PICK k, names : /\ k \in Nat /\ DOMAIN passed = 1..k /\ names = PacketSeq(passed) /\ names \in Seq(Packet) /\ Len(names) = k
                              /\ \A i \in 1..k : names[i] = passed[i].packet
  <2>1. PICK k \in Nat : DOMAIN passed = 1..k
    BY <1>7
  <2>2. \A i \in 1..k : passed[i].packet \in Packet
    <3> TAKE i \in 1..k
    <3>1. passed[i] \in Item
      BY <1>7, <2>1
    <3> QED BY <3>1 DEF Item
  <2>3. PICK names : names = [i \in 1..k |-> passed[i].packet] /\ names = PacketSeq(passed)
    BY <2>1 DEF PacketSeq
  <2>4. names \in Seq(Packet) /\ Len(names) = k /\ \A i \in 1..k : names[i] = passed[i].packet
    BY <2>2, <2>3, SeqDef
  <2> QED BY <2>1, <2>3, <2>4, SMTT(30)
<1>9. PICK m, told : /\ m \in Nat /\ m = Len(r.up) /\ DOMAIN r.up = 1..m /\ told = r.up \o names /\ told \in Seq(Packet)
                             /\ DOMAIN told = 1..(m + k) /\ Len(told) = m + k
                             /\ \A i \in 1..(m + k) : told[i] = IF i <= m THEN r.up[i] ELSE names[i - m]
  <2>1. PICK m \in Nat : m = Len(r.up) /\ DOMAIN r.up = 1..m
    BY <1>6
  <2>2. PICK told : told = r.up \o names
    OBVIOUS
  <2>3. told \in Seq(Packet) /\ Len(told) = m + k /\ \A i \in 1..(m + k) : told[i] = IF i <= m THEN r.up[i] ELSE names[i - m]
    BY <1>6, <1>8, <2>1, <2>2, ConcatProperties
  <2>4. DOMAIN told = 1..(m + k)
    BY <2>3
  <2> QED BY <2>1, <2>2, <2>3, <2>4
<1>10. PICK last : /\ q = [r EXCEPT !.up = told, !.last = last] /\ last = LastOf(items, r.last)
                   /\ last = IF len = 0 THEN r.last ELSE items[len].seq
  <2>1. Len(items) + 1 - 1 = len /\ (Len(items) + 1 = 1 <=> len = 0) /\ (items = <<>> <=> len = 0)
    BY <1>1
  <2> QED BY <1>1, <1>5, <1>8, <1>9, <2>1, Zenon DEF LastOf
<1>11. q.up = told /\ q.last = last /\ q.rx = r.rx
  BY <1>6, <1>10
<1>12. (len = 0 /\ last = r.last) \/ (len \in DOMAIN items /\ last = items[len].seq)
  BY <1>1, <1>10
<1>13. q \in Recv /\ last \in Nat
  <2>1. Seqs \subseteq 0..SeqSpace /\ SeqSpace \in Nat
    BY SpaceType DEF Seqs
  <2>2. last \in 0..SeqSpace
    BY <1>2, <1>6, <1>12, <2>1
  <2>3. q \in Recv
    BY <1>6, <1>9, <1>10, <2>2 DEF Recv
  <2> QED BY <2>1, <2>2, <2>3
<1>14. PICK e : /\ e \in [1..k -> DOMAIN items] /\ \A i, j \in 1..k : i < j => e[i] < e[j]
                /\ \A i \in 1..k : names[i] = items[e[i]].packet /\ e[i] \in DOMAIN items /\ passed[i] = items[e[i]]
  <2>1. PICK e : /\ e \in [DOMAIN passed -> DOMAIN items]
                 /\ \A i, j \in DOMAIN passed : i < j => e[i] < e[j]
                 /\ \A i \in DOMAIN passed : passed[i] = items[e[i]]
    BY <1>7 DEF Part
  <2>2. e \in [1..k -> DOMAIN items] /\ \A i, j \in 1..k : i < j => e[i] < e[j]
    BY <1>8, <2>1
  <2>3. \A i \in 1..k : names[i] = items[e[i]].packet /\ e[i] \in DOMAIN items /\ passed[i] = items[e[i]]
    BY <1>8, <2>1, <2>2
  <2> QED BY <2>2, <2>3
<1>15. \A i \in 1..k : e[i] \in new
  <2> TAKE i \in 1..k
  <2>1. PICK x \in new : passed[i] = items[x]
    BY <1>7, <1>8
  <2>2. x \in DOMAIN items /\ e[i] \in DOMAIN items /\ items[x].seq = items[e[i]].seq
    BY <1>3, <1>14, <2>1
  <2>3. x \in Nat /\ e[i] \in Nat
    BY <1>1, <2>2
  <2>4. x = e[i]
    <3>1. ~(x < e[i]) /\ ~(e[i] < x)
      BY <1>2, <2>2 DEF Increasing
    <3> QED BY <2>3, <3>1
  <2> QED BY <2>1, <2>4
<1>16. \A i \in DOMAIN r.up : r.up[i] \in Nat /\ r.last # SeqSpace
  <2> TAKE i \in DOMAIN r.up
  <2>1. r.up[i] \in Packet /\ r.up # <<>>
    BY <1>6
  <2> QED BY <1>6, <2>1, SpaceType DEF UpOrder
<1>17. \A i \in DOMAIN r.up, j \in DOMAIN items :
         /\ r.up[i] <= items[j].packet
         /\ items[j].seq # r.last => r.up[i] < items[j].packet
  <2> TAKE i \in DOMAIN r.up, j \in DOMAIN items
  <2>1. PICK x \in P : x[1] = items[j].seq /\ x[2] = items[j].packet
    BY <1>2
  <2>2. r.last <= items[j].seq /\ r.last \in Nat /\ r.up[i] \in Nat /\ items[j].seq \in Nat /\ items[j].packet \in Nat
    BY <1>2, <1>6, <1>16 DEF Reached
  <2>3. (r.last < x[1] => r.up[i] < x[2]) /\ (r.last = x[1] => r.up[i] <= x[2])
    BY DEF UpOrder
  <2> QED BY <2>1, <2>2, <2>3
<1>18. \A i, j \in DOMAIN items : i < j => items[i].packet < items[j].packet
  <2> SUFFICES ASSUME NEW i \in DOMAIN items, NEW j \in DOMAIN items, i < j PROVE items[i].packet < items[j].packet
    OBVIOUS
  <2>1. PICK x \in P, y \in P : /\ x[1] = items[i].seq /\ x[2] = items[i].packet
                                /\ y[1] = items[j].seq /\ y[2] = items[j].packet
    BY <1>2
  <2>2. x[1] < y[1]
    BY <2>1 DEF Increasing
  <2> QED BY <2>1, <2>2 DEF Ranked
<1>19. \A i \in DOMAIN told : \/ i \in DOMAIN r.up /\ told[i] = r.up[i]
                              \/ i - m \in 1..k /\ told[i] = items[e[i - m]].packet /\ e[i - m] \in DOMAIN items /\ i \in Nat /\ i > m
  <2> TAKE i \in DOMAIN told
  <2>1. CASE i <= m
    <3>1. i \in 1..m
      BY <1>9, <2>1
    <3> QED BY <1>9, <2>1, <3>1
  <2>2. CASE ~(i <= m)
    <3>1. i - m \in 1..k /\ i > m /\ i \in Nat
      BY <1>8, <1>9, <2>2, SMTT(30)
    <3> QED BY <1>9, <1>14, <2>2, <3>1
  <2> QED BY <2>1, <2>2
<1>20. \A i \in DOMAIN told : told[i] \in Nat
  <2>1. \A i \in DOMAIN told : told[i] \in Packet
    BY <1>9
  <2> QED BY <2>1, SpaceType
<1>21. \A i, j \in DOMAIN told : i < j =>
         \/ i \in DOMAIN r.up /\ j \in DOMAIN r.up /\ told[i] = r.up[i] /\ told[j] = r.up[j]
         \/ i \in DOMAIN r.up /\ told[i] = r.up[i] /\ \E x \in DOMAIN items : x \in new /\ told[j] = items[x].packet
         \/ told[i] < told[j]
  <2> SUFFICES ASSUME NEW i \in DOMAIN told, NEW j \in DOMAIN told, i < j
               PROVE  \/ i \in DOMAIN r.up /\ j \in DOMAIN r.up /\ told[i] = r.up[i] /\ told[j] = r.up[j]
                      \/ i \in DOMAIN r.up /\ told[i] = r.up[i] /\ \E x \in DOMAIN items : x \in new /\ told[j] = items[x].packet
                      \/ told[i] < told[j]
    OBVIOUS
  <2>1. i \in Nat /\ j \in Nat
    BY <1>9
  <2>2. CASE j \in DOMAIN r.up
    <3>1. i \in DOMAIN r.up /\ i <= m /\ j <= m
      BY <1>9, <2>1, <2>2
    <3> QED BY <1>9, <2>2, <3>1
  <2>3. CASE j \notin DOMAIN r.up
    <3>1. j - m \in 1..k /\ told[j] = items[e[j - m]].packet /\ e[j - m] \in DOMAIN items /\ e[j - m] \in new
      BY <1>15, <1>19, <2>3
    <3>2. CASE i \in DOMAIN r.up /\ told[i] = r.up[i]
      BY <3>1, <3>2
    <3>3. CASE i - m \in 1..k /\ told[i] = items[e[i - m]].packet /\ e[i - m] \in DOMAIN items
      <4>1. i - m < j - m
        BY <1>9, <2>1
      <4>2. e[i - m] < e[j - m]
        BY <1>14, <3>1, <3>3, <4>1
      <4> QED BY <1>18, <3>1, <3>3, <4>2
    <3> QED BY <1>19, <3>2, <3>3
  <2> QED BY <2>2, <2>3
<1>22. \A i, j \in DOMAIN told : i < j => told[i] <= told[j]
  <2> SUFFICES ASSUME NEW i \in DOMAIN told, NEW j \in DOMAIN told, i < j PROVE told[i] <= told[j]
    OBVIOUS
  <2>1. told[i] \in Nat /\ told[j] \in Nat
    BY <1>20
  <2>2. told[i] < told[j] \/ told[i] <= told[j]
    BY <1>17, <1>21 DEF UpOrder
  <2> QED BY <2>1, <2>2
<1>23. \A i \in DOMAIN items : items[i].seq <= last
  <2> TAKE i \in DOMAIN items
  <2>1. len \in DOMAIN items /\ last = items[len].seq /\ i \in Nat /\ i <= len
    BY <1>1, <1>12
  <2>2. i = len \/ items[i].seq < items[len].seq
    BY <2>1 DEF Increasing
  <2> QED BY <1>2, <2>1, <2>2
<1>24. \A i \in DOMAIN told : \A x \in P : (last < x[1] => told[i] < x[2]) /\ (last = x[1] => told[i] <= x[2])
  <2> TAKE i \in DOMAIN told
  <2> TAKE x \in P
  <2>1. x[1] \in Nat /\ x[2] \in Nat /\ told[i] \in Nat
    BY <1>20 DEF Natural
  <2>2. CASE i \in DOMAIN r.up /\ told[i] = r.up[i]
    <3>1. (r.last < x[1] => told[i] < x[2]) /\ (r.last = x[1] => told[i] <= x[2])
      BY <2>2 DEF UpOrder
    <3>2. last = r.last \/ (last = items[len].seq /\ len \in DOMAIN items /\ r.last <= last)
      BY <1>12, <1>16, <2>2 DEF Reached
    <3>3. r.last \in Nat
      BY <1>6
    <3> QED BY <1>13, <2>1, <3>1, <3>2, <3>3
  <2>3. CASE \E j \in DOMAIN items : told[i] = items[j].packet
    <3>1. PICK j \in DOMAIN items : told[i] = items[j].packet
      BY <2>3
    <3>2. PICK y \in P : y[1] = items[j].seq /\ y[2] = items[j].packet
      BY <1>2
    <3>3. items[j].seq <= last /\ items[j].seq \in Nat
      BY <1>2, <1>23
    <3>4. y[1] < x[1] => y[2] < x[2]
      BY DEF Ranked
    <3>5. y[1] = x[1] => y[2] = x[2]
      BY DEF Once
    <3> QED BY <1>13, <2>1, <3>1, <3>2, <3>3, <3>4, <3>5
  <2> QED BY <1>19, <2>2, <2>3
<1>25. told # <<>> => last < SeqSpace
  <2>1. CASE len \in DOMAIN items /\ last = items[len].seq
    BY <1>2, <2>1
  <2>2. CASE len = 0 /\ last = r.last
    <3>1. k = 0
      <4>1. SUFFICES ASSUME 1 \in 1..k PROVE FALSE
        BY <1>8
      <4>2. e[1] \in DOMAIN items
        BY <1>14, <4>1
      <4> QED BY <1>1, <2>2, <4>2
    <3>2. told # <<>> => r.up # <<>>
      BY <1>6, <1>9, <3>1
    <3> QED BY <2>2, <3>2 DEF UpOrder
  <2> QED BY <1>12, <2>1, <2>2
<1>26. ToSet(told) \subseteq ToSet(r.up) \cup PacketsOf(items)
  <2> SUFFICES ASSUME NEW i \in DOMAIN told PROVE told[i] \in ToSet(r.up) \cup PacketsOf(items)
    BY DEF ToSet
  <2> QED BY <1>19 DEF ToSet, PacketsOf
<1>27. ASSUME Repeats(items, r.last), Climbing(r.up) PROVE Climbing(told)
  <2> SUFFICES ASSUME NEW i \in DOMAIN told, NEW j \in DOMAIN told, i < j PROVE told[i] < told[j]
    BY DEF Climbing
  <2>1. CASE i \in DOMAIN r.up /\ j \in DOMAIN r.up /\ told[i] = r.up[i] /\ told[j] = r.up[j]
    BY <1>27, <2>1 DEF Climbing
  <2>2. CASE i \in DOMAIN r.up /\ told[i] = r.up[i] /\ \E x \in DOMAIN items : x \in new /\ told[j] = items[x].packet
    <3>1. PICK x \in DOMAIN items : x \in new /\ told[j] = items[x].packet
      BY <2>2
    <3>2. items[x].seq # r.last
      <4>1. SUFFICES ASSUME items[x].seq = r.last PROVE FALSE
        OBVIOUS
      <4>2. items[x].retry
        BY <1>27, <4>1 DEF Repeats
      <4>3. x # 1
        BY <1>3, <3>1, <4>1, <4>2
      <4>4. 1 \in DOMAIN items /\ 1 < x
        BY <1>1, <4>3
      <4>5. items[1].seq < items[x].seq /\ items[1].seq \in Nat
        BY <1>2, <4>4 DEF Increasing
      <4>6. r.last <= items[1].seq
        BY <1>16, <2>2, <4>4 DEF Reached
      <4>7. r.last \in Nat
        BY <1>6
      <4> QED BY <4>1, <4>5, <4>6, <4>7
    <3> QED BY <1>17, <2>2, <3>1, <3>2
  <2> QED BY <1>21, <2>1, <2>2
<1>28. UpOrder(P, told, last)
  BY <1>22, <1>24, <1>25 DEF UpOrder
<1> QED BY <1>4, <1>10, <1>11, <1>13, <1>26, <1>27, <1>28

(* The buffer is sorted, and its numbers are early ones that come next.    *)
InOrder(b, last) ==
  /\ b \in Seq(Item) /\ \A i, j \in DOMAIN b : i < j => b[i].seq <= b[j].seq
  /\ \A i \in DOMAIN b : b[i].seq \in Early /\ Reached(last, b[i].seq)

(* q is r after the first n packets of the buffer were handed up. *)
Took(P, r, q, n) ==
  /\ q \in Recv /\ n \in 0..Len(r.rx.buffer)
  /\ q.rx.buffer = SubSeq(r.rx.buffer, n + 1, Len(r.rx.buffer))
  /\ q.last = IF n = 0 THEN r.last ELSE r.rx.buffer[n].seq
  /\ UpOrder(P, q.up, q.last)
  /\ ToSet(q.up) \subseteq ToSet(r.up) \cup PacketsOf(r.rx.buffer)
  /\ Repeats(r.rx.buffer, r.last) /\ Climbing(r.up) => Climbing(q.up)
  /\ q.rx.exists = r.rx.exists /\ q.rx.bitmap = r.rx.bitmap
  /\ q.rx.winStart = r.rx.winStart /\ q.rx.winEnd = r.rx.winEnd

Ready(P, r) ==
  /\ Once(P) /\ Ranked(P) /\ Natural(P) /\ r \in Recv /\ UpOrder(P, r.up, r.last)
  /\ InOrder(r.rx.buffer, r.last) /\ PairsOf(r.rx.buffer) \subseteq P /\ r.rx.start \in 0..Half

Within(items, b, n) == \A i \in DOMAIN items : \E x \in 1..n : items[i] = b[x]

(* A prefix of the buffer that is handed up, repetitions left out.         *)
LEMMA TookIs ==
  ASSUME NEW P, NEW r, Ready(P, r), NEW n, NEW s, Shortened(r, s, n),
         NEW items \in Seq(Item), Increasing(items),
         Within(items, r.rx.buffer, n),
         LastOf(items, r.last) = IF n = 0 THEN r.last ELSE r.rx.buffer[n].seq
  PROVE  Took(P, r, HandUpAll(s, items), n) /\ HandUpAll(s, items).rx.start = s.rx.start
<1>1. PICK b, q : b = r.rx.buffer /\ q = HandUpAll(s, items)
  OBVIOUS
<1>2. /\ r \in Recv /\ b \in Seq(Item) /\ PairsOf(b) \subseteq P /\ InOrder(b, r.last) /\ s \in Recv
      /\ n \in 0..Len(b) /\ s.up = r.up /\ s.last = r.last /\ UpOrder(P, s.up, s.last)
      /\ Once(P) /\ Ranked(P) /\ Natural(P)
  BY <1>1, RecvIs DEF Ready, Shortened
<1>3. \A i \in DOMAIN items : \E x \in DOMAIN b : items[i] = b[x]
  <2> TAKE i \in DOMAIN items
  <2>1. PICK x \in 1..n : items[i] = b[x]
    BY <1>1 DEF Within
  <2>2. x \in DOMAIN b
    BY <1>2, <2>1
  <2> QED BY <2>1, <2>2
<1>4. PairsOf(items) \subseteq P /\ PacketsOf(items) \subseteq PacketsOf(b)
  <2>1. Among(items, b)
    BY <1>3 DEF Among
  <2> QED BY <1>2, <2>1, PartItems
<1>5. \A i \in DOMAIN items : Reached(s.last, items[i].seq)
  BY <1>2, <1>3 DEF InOrder
<1>6. /\ q \in Recv /\ q.rx = s.rx /\ q.last = LastOf(items, s.last) /\ UpOrder(P, q.up, LastOf(items, s.last))
      /\ ToSet(q.up) \subseteq ToSet(s.up) \cup PacketsOf(items)
      /\ Repeats(items, s.last) /\ Climbing(s.up) => Climbing(q.up)
  BY <1>1, <1>2, <1>4, <1>5, HandUpOrder
<1>7. Repeats(b, r.last) => Repeats(items, s.last)
  BY <1>2, <1>3 DEF Repeats
<1>8. q.rx.buffer = SubSeq(b, n + 1, Len(b))
  BY <1>1, <1>6 DEF Shortened
<1> QED BY <1>1, <1>2, <1>4, <1>6, <1>7, <1>8 DEF Took, Shortened

(* Of what has a smaller number each number is taken once, in order.       *)
LEMMA FirstsOrder ==
  ASSUME NEW b, NEW last, InOrder(b, last), NEW n \in 0..Len(b), NEW firsts,
         firsts = {i \in 1..n : i = 1 \/ b[i].seq # b[i - 1].seq}, NEW items, items = Selected(b, firsts)
  PROVE  /\ items \in Seq(Item) /\ Increasing(items)
         /\ Within(items, b, n)
         /\ LastOf(items, last) = IF n = 0 THEN last ELSE b[n].seq
<1>1. PICK len \in Nat : len = Len(b) /\ DOMAIN b = 1..len /\ b \in Seq(Item)
  <2>1. b \in Seq(Item)
    BY DEF InOrder
  <2> QED BY <2>1
<1>2. n \in Nat /\ n <= len /\ 1..n \subseteq DOMAIN b /\ firsts \subseteq 1..n
  BY <1>1
<1>3. \A i, j \in 1..n : b[i].seq \in Nat /\ (i < j => b[i].seq <= b[j].seq) /\ (i <= j => b[i].seq <= b[j].seq)
  <2>1. \A i \in 1..n : b[i].seq \in Nat /\ i \in Nat
    BY <1>2, HalfIs DEF InOrder, Early
  <2>2. \A i, j \in 1..n : i < j => b[i].seq <= b[j].seq
    BY <1>2 DEF InOrder
  <2>3. \A i, j \in 1..n : i <= j => i = j \/ i < j
    BY <1>2
  <2>4. \A i \in 1..n : b[i].seq <= b[i].seq
    BY <2>1
  <2> QED BY <2>1, <2>2, <2>3, <2>4
<1>4. PICK k, e : Enumerates(e, k, firsts) /\ items = At(b, e, k)
  BY <1>2, SelectedIs
<1>5. /\ k \in Nat /\ DOMAIN items = 1..k /\ \A i \in 1..k : e[i] \in firsts /\ items[i] = b[e[i]]
      /\ \A i, j \in 1..k : i < j => e[i] < e[j]
      /\ \A x \in firsts : \E i \in 1..k : e[i] = x
  <2>1. /\ k \in Nat /\ e \in [1..k -> firsts] /\ \A i, j \in 1..k : i < j => e[i] < e[j]
        /\ \A x \in firsts : \E i \in 1..k : e[i] = x
    BY <1>4 DEF Enumerates
  <2>2. DOMAIN items = 1..k /\ \A i \in 1..k : items[i] = b[e[i]]
    BY <1>4 DEF At
  <2> QED BY <2>1, <2>2
<1>6. \A x, y \in firsts : x < y => b[x].seq < b[y].seq
  <2> SUFFICES ASSUME NEW x \in firsts, NEW y \in firsts, x < y PROVE b[x].seq < b[y].seq
    OBVIOUS
  <2>1. x \in 1..n /\ y \in 1..n /\ y # 1 /\ y - 1 \in 1..n /\ x <= y - 1 /\ y - 1 < y
    BY <1>2
  <2>2. b[y].seq # b[y - 1].seq
    BY <2>1
  <2>3. b[x].seq <= b[y - 1].seq /\ b[y - 1].seq <= b[y].seq
    BY <1>3, <2>1
  <2>4. b[x].seq \in Nat /\ b[y - 1].seq \in Nat /\ b[y].seq \in Nat
    BY <1>3, <2>1
  <2> QED BY <2>2, <2>3, <2>4, SMTT(30)
<1>7. items \in Seq(Item)
  <2>1. \A i \in 1..k : items[i] \in Item
    <3> TAKE i \in 1..k
    <3>1. e[i] \in DOMAIN b /\ items[i] = b[e[i]]
      BY <1>2, <1>5
    <3>2. \A x \in DOMAIN b : b[x] \in Item
      BY <1>1
    <3> QED BY <3>1, <3>2, Zenon
  <2>2. items = [i \in 1..k |-> items[i]]
    BY <1>4, <1>5 DEF At
  <2> QED BY <1>5, <2>1, <2>2, SeqDef
<1>8. Increasing(items)
  <2> SUFFICES ASSUME NEW i \in DOMAIN items, NEW j \in DOMAIN items, i < j PROVE items[i].seq < items[j].seq
    BY DEF Increasing
  <2>1. e[i] \in firsts /\ e[j] \in firsts /\ e[i] < e[j] /\ items[i] = b[e[i]] /\ items[j] = b[e[j]]
    BY <1>5
  <2> QED BY <1>6, <2>1
<1>9. LastOf(items, last) = IF n = 0 THEN last ELSE b[n].seq
  <2>1. CASE n = 0
    <3>1. items = <<>>
      <4>1. firsts = {}
        BY <1>2, <2>1
      <4>2. k = 0
        <5>1. SUFFICES ASSUME 1 \in 1..k PROVE FALSE
          BY <1>5
        <5> QED BY <1>5, <4>1, <5>1
      <4> QED BY <1>5, <1>7, <4>2
    <3> QED BY <2>1, <3>1 DEF LastOf
  <2>2. CASE n # 0
    <3>1. n \in 1..n
      BY <1>2, <2>2
    <3>2. PICK T : T = {i \in 1..n : b[i].seq = b[n].seq}
      OBVIOUS
    <3>3. PICK m : m \in T /\ \A i \in T : m <= i
      <4>1. T \subseteq Nat /\ T # {}
        BY <1>2, <3>1, <3>2
      <4> QED BY <4>1, Least
    <3>4. m \in 1..n /\ b[m].seq = b[n].seq /\ (m # 1 => m - 1 \in 1..n /\ ~(m <= m - 1))
      BY <1>2, <3>2, <3>3
    <3>5. m # 1 => b[m - 1].seq # b[m].seq
      BY <3>2, <3>3, <3>4
    <3>6. m \in firsts
      BY <3>4, <3>5
    <3>7. PICK j \in 1..k : e[j] = m
      BY <1>5, <3>6
    <3>8. items[j].seq = b[n].seq /\ j \in DOMAIN items
      BY <1>5, <3>4, <3>7
    <3>9. k \in DOMAIN items /\ (j = k \/ j < k) /\ items # <<>> /\ k = Len(items)
      BY <1>5, <1>7, <3>7
    <3>10. PICK x \in firsts : items[k] = b[x]
      <4>1. k \in 1..k
        BY <1>5, <3>9, Zenon
      <4> QED BY <1>5, <4>1, Zenon
    <3>11. items[k].seq <= b[n].seq /\ items[k].seq \in Nat /\ b[n].seq \in Nat
      <4>1. x \in 1..n /\ x <= n
        BY <1>2, <3>10
      <4> QED BY <1>3, <3>1, <3>10, <4>1
    <3>12. items[j].seq = items[k].seq \/ items[j].seq < items[k].seq
      BY <1>8, <3>8, <3>9 DEF Increasing
    <3>13. items[k].seq = b[n].seq
      BY <3>8, <3>11, <3>12
    <3> QED BY <2>2, <3>9, <3>13 DEF LastOf
  <2> QED BY <2>1, <2>2
<1>10. Within(items, b, n)
  BY <1>2, <1>5 DEF Within
<1> QED BY <1>7, <1>8, <1>9, <1>10

(* The packets before z, and no other, leave the buffer.                   *)
LEMMA SmallerOrder ==
  ASSUME NEW P, NEW r, Ready(P, r), NEW z \in Early \cup {r.rx.start}
  PROVE  \E n : /\ Took(P, r, RxCompleteSmaller(r, z), n) /\ RxCompleteSmaller(r, z).rx.start = r.rx.start
                /\ \A i \in 1..n : r.rx.buffer[i].seq < z
                /\ \A i \in DOMAIN r.rx.buffer : i > n => r.rx.buffer[i].seq >= z
<1>1. PICK b, len : /\ b = r.rx.buffer /\ len = Len(b) /\ b \in Seq(Item) /\ len \in Nat /\ DOMAIN b = 1..len
                    /\ InOrder(b, r.last) /\ r \in Recv
  <2>1. r.rx.buffer \in Seq(Item)
    BY RecvIs DEF Ready
  <2> QED BY <2>1 DEF Ready
<1>2. PICK n : n = PrefixLen(r.rx.buffer, LAMBDA q : MapSeqControl(q.seq, r.rx.start) >= MapSeqControl(z, r.rx.start))
  OBVIOUS
<1>3. PICK firsts, items, t :
        /\ firsts = {i \in 1..n : i = 1 \/ r.rx.buffer[i].seq # r.rx.buffer[i - 1].seq}
        /\ items = Selected(r.rx.buffer, firsts)
        /\ t = [r EXCEPT !.rx.buffer = SubSeq(@, n + 1, Len(@))]
  OBVIOUS
<1>4. RxCompleteSmaller(r, z) = HandUpAll(t, items)
  BY <1>2, <1>3 DEF RxCompleteSmaller
<1>5. PICK I : I = {i \in 1..Len(r.rx.buffer) : MapSeqControl(r.rx.buffer[i].seq, r.rx.start) >= MapSeqControl(z, r.rx.start)}
  OBVIOUS
<1>6. n \in 0..len /\ (\A i \in 1..n : i \notin I) /\ (n # len => n + 1 \in I)
  <2>1. n = PrefixOf(I, Len(r.rx.buffer))
    BY <1>2, <1>5 DEF PrefixLen, SelectInSeq, PrefixOf
  <2>2. I \subseteq 1..len
    BY <1>1, <1>5
  <2> QED BY <1>1, <2>1, <2>2, PrefixIs
<1>7. \A i \in 1..len : b[i].seq \in Nat /\ (i \in I <=> b[i].seq >= z)
  <2> TAKE i \in 1..len
  <2>1. b[i].seq \in Early /\ r.rx.start \in 0..Half
    BY <1>1 DEF InOrder, Ready
  <2>2. MapSeqControl(b[i].seq, r.rx.start) >= MapSeqControl(z, r.rx.start) <=> b[i].seq >= z
    BY <2>1, KeyOrder
  <2>3. b[i].seq \in Nat
    BY <2>1, HalfIs DEF Early
  <2> QED BY <1>1, <1>5, <2>2, <2>3
<1>8. z \in Nat
  BY HalfIs DEF Early, Ready
<1>9. \A i \in 1..n : b[i].seq < z
  <2> TAKE i \in 1..n
  <2>1. i \in 1..len /\ i \notin I
    BY <1>1, <1>6
  <2> QED BY <1>7, <1>8, <2>1
<1>10. \A i \in DOMAIN b : i > n => b[i].seq >= z
  <2> SUFFICES ASSUME NEW i \in DOMAIN b, i > n PROVE b[i].seq >= z
    OBVIOUS
  <2>1. n # len /\ n + 1 \in 1..len /\ i \in 1..len /\ (n + 1 = i \/ n + 1 < i)
    BY <1>1, <1>6
  <2>2. b[n + 1].seq >= z
    BY <1>6, <1>7, <2>1
  <2>3. n + 1 < i => b[n + 1].seq <= b[i].seq
    BY <1>1, <2>1 DEF InOrder
  <2>4. b[n + 1].seq \in Nat /\ b[i].seq \in Nat
    BY <1>7, <2>1
  <2> QED BY <1>8, <2>1, <2>2, <2>3, <2>4
<1>11. /\ items \in Seq(Item) /\ Increasing(items)
       /\ Within(items, b, n)
       /\ LastOf(items, r.last) = IF n = 0 THEN r.last ELSE b[n].seq
  <2>1. n \in 0..Len(b) /\ firsts = {i \in 1..n : i = 1 \/ b[i].seq # b[i - 1].seq} /\ items = Selected(b, firsts)
    BY <1>1, <1>3, <1>6
  <2>2. PICK last : last = r.last /\ InOrder(b, last)
    BY <1>1
  <2>3. items \in Seq(Item) /\ Increasing(items)
    BY <2>1, <2>2, FirstsOrder
  <2>4. Within(items, b, n)
    BY <2>1, <2>2, FirstsOrder
  <2>5. LastOf(items, last) = IF n = 0 THEN last ELSE b[n].seq
    BY <2>1, <2>2, FirstsOrder
  <2> QED BY <2>2, <2>3, <2>4, <2>5
<1>12. Shortened(r, t, n) /\ t.rx.start = r.rx.start
  <2>1. PICK rest : rest = SubSeq(b, n + 1, Len(b)) /\ rest \in Seq(Item)
    BY <1>1, <1>6, RestPart
  <2>2. /\ r \in Recv /\ r.rx \in Record /\ DOMAIN r = {"rx", "up", "last"} /\ DOMAIN r.rx = DOMAIN NoRecord
    BY <1>1, RecvIs
  <2>3. PICK u : u = [r.rx EXCEPT !.buffer = rest] /\ t = [r EXCEPT !.rx = u]
    BY <1>1, <1>3, <2>1
  <2>4. /\ u.buffer = rest /\ u.exists = r.rx.exists /\ u.bitmap = r.rx.bitmap /\ u.winStart = r.rx.winStart
        /\ u.winEnd = r.rx.winEnd /\ u.start = r.rx.start /\ u \in Record
    BY <2>1, <2>2, <2>3 DEF Record, NoRecord
  <2>5. t \in Recv /\ t.rx = u /\ t.up = r.up /\ t.last = r.last
    BY <2>2, <2>3, <2>4 DEF Recv
  <2> QED BY <1>1, <1>6, <2>1, <2>4, <2>5 DEF Shortened
<1>13. Took(P, r, HandUpAll(t, items), n) /\ HandUpAll(t, items).rx.start = t.rx.start
  BY <1>1, <1>11, <1>12, TookIs
<1> QED BY <1>1, <1>4, <1>9, <1>10, <1>12, <1>13

(* The packets from the start of the window on, up to a gap, leave it, and *)
(* the window begins at the gap.                                           *)
LEMMA UntilLostOrder ==
  ASSUME NEW P, NEW r, Ready(P, r)
  PROVE  \E n : /\ Took(P, r, RxCompleteUntilLost(r), n) /\ r.rx.start + n <= Half
                /\ RxCompleteUntilLost(r).rx.start = r.rx.start + n
                /\ \A i \in 1..n : r.rx.buffer[i].seq = r.rx.start + i - 1
                /\ n # Len(r.rx.buffer) => r.rx.buffer[n + 1].seq # r.rx.start + n
<1>1. PICK b, len : /\ b = r.rx.buffer /\ len = Len(b) /\ b \in Seq(Item) /\ len \in Nat /\ DOMAIN b = 1..len
                    /\ InOrder(b, r.last) /\ r \in Recv
  <2>1. r.rx.buffer \in Seq(Item)
    BY RecvIs DEF Ready
  <2> QED BY <2>1 DEF Ready
<1>2. PICK broken : broken = {i \in DOMAIN r.rx.buffer : r.rx.buffer[i].seq # Plus(r.rx.start, i - 1)}
  OBVIOUS
<1>3. PICK n : n = IF broken = {} THEN Len(r.rx.buffer) ELSE Min(broken) - 1
  OBVIOUS
<1>4. PICK items, t : /\ items = SubSeq(r.rx.buffer, 1, n)
                      /\ t = [r EXCEPT !.rx.buffer = SubSeq(@, n + 1, Len(@)), !.rx.start = Plus(@, n)]
  OBVIOUS
<1>5. RxCompleteUntilLost(r) = HandUpAll(t, items)
  BY <1>2, <1>3, <1>4 DEF RxCompleteUntilLost
<1>6. n \in 0..len /\ (\A i \in 1..n : i \notin broken) /\ (n # len => n + 1 \in broken)
  <2>1. CASE broken = {}
    BY <1>1, <1>3, <2>1
  <2>2. CASE broken # {}
    <3>1. broken \subseteq 1..len
      BY <1>1, <1>2
    <3>2. Min(broken) \in 1..len /\ Min(broken) \in broken /\ \A k \in broken : Min(broken) <= k
      BY <1>1, <2>2, <3>1, LeastPosition
    <3>3. PICK m : m = Min(broken)
      OBVIOUS
    <3>4. n = m - 1 /\ n + 1 = m /\ n \in 0..len
      BY <1>1, <1>3, <2>2, <3>2, <3>3
    <3>5. \A i \in 1..n : i \notin broken
      <4> SUFFICES ASSUME NEW i \in 1..n, i \in broken PROVE FALSE
        OBVIOUS
      <4>1. m <= i
        BY <3>2, <3>3
      <4> QED BY <1>1, <3>4, <4>1
    <3> QED BY <3>2, <3>3, <3>4, <3>5
  <2> QED BY <2>1, <2>2
<1>7. PICK start : start = r.rx.start /\ start \in 0..Half
  BY DEF Ready
<1>8. Half \in Nat /\ Half # 0 /\ 2 * Half <= SeqSpace /\ SeqSpace \in Nat
  BY HalfIs
<1>9. \A k \in 0..SeqSpace : Plus(start, k) = IF start + k < SeqSpace THEN start + k ELSE start + k - SeqSpace
  <2>1. start \in Seqs
    BY <1>7, <1>8 DEF Seqs
  <2> QED BY <2>1, PlusIs
<1>10. \A i \in 1..len : b[i].seq \in 0..(Half - 1)
  BY <1>1 DEF InOrder, Early
<1>11. \A i \in 1..n : b[i].seq = Plus(start, i - 1)
  BY <1>1, <1>2, <1>6, <1>7
<1>12. \A i \in 1..n : b[i].seq = start + i - 1 /\ start + i <= Half
  <2>1. PICK T : T = {i \in 1..n : ~(b[i].seq = start + i - 1 /\ start + i <= Half)}
    OBVIOUS
  <2>2. SUFFICES ASSUME T # {} PROVE FALSE
    BY <2>1
  <2>3. PICK m : m \in T /\ \A k \in T : m <= k
    <3>1. T \subseteq Nat
      BY <1>1, <1>6, <2>1
    <3> QED BY <2>2, <3>1, Least
  <2>4. m \in 1..n /\ ~(b[m].seq = start + m - 1 /\ start + m <= Half) /\ m \in Nat /\ m \in 1..len
    BY <1>1, <1>6, <2>1, <2>3
  <2>5. start + m - 1 <= Half /\ m - 1 \in Nat
    <3>1. CASE m = 1
      BY <1>7, <1>8, <3>1
    <3>2. CASE m # 1
      <4>1. m - 1 \in 1..n /\ ~(m <= m - 1)
        BY <1>1, <1>6, <2>4, <3>2
      <4>2. m - 1 \notin T
        BY <2>3, <4>1
      <4>3. start + (m - 1) <= Half
        BY <2>1, <4>1, <4>2
      <4> QED BY <1>7, <2>4, <3>2, <4>3
    <3> QED BY <3>1, <3>2
  <2>6. m - 1 \in 0..SeqSpace
    BY <1>7, <1>8, <2>4, <2>5
  <2>7. Plus(start, m - 1) = start + (m - 1)
    BY <1>7, <1>8, <1>9, <2>4, <2>5, <2>6
  <2>8. b[m].seq = start + (m - 1) /\ b[m].seq \in 0..(Half - 1)
    BY <1>10, <1>11, <2>4, <2>7
  <2> QED BY <1>7, <1>8, <2>4, <2>8
<1>13. start + n <= Half
  <2>1. CASE n = 0
    BY <1>7, <1>8, <2>1
  <2>2. CASE n # 0
    <3>1. n \in 1..n
      BY <1>1, <1>6, <2>2
    <3> QED BY <1>12, <3>1
  <2> QED BY <2>1, <2>2
<1>14. Plus(start, n) = start + n
  <2>1. n \in 0..SeqSpace
    BY <1>1, <1>6, <1>7, <1>8, <1>13
  <2> QED BY <1>6, <1>7, <1>8, <1>9, <1>13, <2>1
<1>15. n # len => b[n + 1].seq # start + n
  <2> SUFFICES ASSUME n # len PROVE b[n + 1].seq # start + n
    OBVIOUS
  <2>1. PICK k : k = n + 1 /\ k \in broken /\ k - 1 = n
    BY <1>1, <1>6
  <2>2. r.rx.buffer[k].seq # Plus(r.rx.start, k - 1)
    BY <1>2, <2>1
  <2>3. b[k].seq # Plus(start, n)
    BY <1>1, <1>7, <2>1, <2>2
  <2> QED BY <1>14, <2>1, <2>3
<1>16. items \in Seq(Item) /\ Len(items) = n /\ DOMAIN items = 1..n /\ \A i \in 1..n : items[i] = b[i]
  <2>1. \A i \in 1..n : i \in DOMAIN b /\ b[i] \in Item /\ 1 + i - 1 = i
    BY <1>1, <1>6
  <2>2. items = SubSeq(b, 1, n) /\ 1 \in Int /\ n \in Int
    BY <1>1, <1>4, <1>6
  <2>3. /\ items \in Seq(Item) /\ Len(items) = IF 1 <= n THEN n - 1 + 1 ELSE 0
        /\ \A i \in 1..(n - 1 + 1) : items[i] = b[1 + i - 1]
    BY <2>1, <2>2, SubSeqProperties
  <2>4. Len(items) = n /\ n - 1 + 1 = n
    BY <1>6, <2>3
  <2> QED BY <2>1, <2>3, <2>4
<1>17. Increasing(items)
  <2> SUFFICES ASSUME NEW i \in DOMAIN items, NEW j \in DOMAIN items, i < j PROVE items[i].seq < items[j].seq
    BY DEF Increasing
  <2>1. i \in 1..n /\ j \in 1..n /\ i \in Nat /\ j \in Nat
    BY <1>16
  <2>2. items[i].seq = start + i - 1 /\ items[j].seq = start + j - 1
    BY <1>12, <1>16, <2>1
  <2> QED BY <1>7, <2>1, <2>2
<1>18. LastOf(items, r.last) = IF n = 0 THEN r.last ELSE b[n].seq
  <2>1. CASE n = 0
    BY <1>16, <2>1 DEF LastOf
  <2>2. CASE n # 0
    <3>1. n \in 1..n /\ items # <<>>
      BY <1>1, <1>6, <1>16, <2>2
    <3> QED BY <1>16, <2>2, <3>1 DEF LastOf
  <2> QED BY <2>1, <2>2
<1>19. Shortened(r, t, n) /\ t.rx.start = start + n
  <2>1. PICK rest : rest = SubSeq(b, n + 1, Len(b)) /\ rest \in Seq(Item)
    BY <1>1, <1>6, RestPart
  <2>2. /\ r \in Recv /\ r.rx \in Record /\ DOMAIN r = {"rx", "up", "last"} /\ DOMAIN r.rx = DOMAIN NoRecord
    BY <1>1, RecvIs
  <2>3. PICK z : z = Plus(r.rx.start, n) /\ z \in Seqs /\ z = start + n
    <3>1. start \in Nat /\ n \in Nat
      BY <1>1, <1>6, <1>7
    <3> QED BY <1>7, <1>14, <3>1, SumType
  <2>4. PICK u : u = [r.rx EXCEPT !.buffer = rest, !.start = z] /\ t = [r EXCEPT !.rx = u]
    BY <1>1, <1>4, <2>1, <2>3
  <2>5. /\ u.buffer = rest /\ u.exists = r.rx.exists /\ u.bitmap = r.rx.bitmap /\ u.winStart = r.rx.winStart
        /\ u.winEnd = r.rx.winEnd /\ u.start = z /\ u \in Record
    BY <2>1, <2>2, <2>3, <2>4 DEF Record, NoRecord
  <2>6. t \in Recv /\ t.rx = u /\ t.up = r.up /\ t.last = r.last
    BY <2>2, <2>4, <2>5 DEF Recv
  <2> QED BY <1>1, <1>6, <2>1, <2>3, <2>5, <2>6 DEF Shortened
<1>20. Within(items, r.rx.buffer, n)
  BY <1>1, <1>16 DEF Within
<1>21. Took(P, r, HandUpAll(t, items), n) /\ HandUpAll(t, items).rx.start = t.rx.start
  BY <1>1, <1>16, <1>17, <1>18, <1>19, <1>20, TookIs
<1> QED BY <1>1, <1>5, <1>7, <1>12, <1>13, <1>15, <1>19, <1>21

(* t is b without its first m items.                                       *)
Left(t, b, m) ==
  /\ m \in 0..Len(b) /\ t \in Seq(Item) /\ DOMAIN t = 1..(Len(b) - m)
  /\ \A i \in DOMAIN t : t[i] = b[m + i] /\ m + i \in DOMAIN b

(* What q, the two handlers' result, is of r.                              *)
Handed(P, r, q, m) ==
  /\ q \in Recv /\ Left(q.rx.buffer, r.rx.buffer, m) /\ InOrder(q.rx.buffer, q.last)
  /\ q.last = IF m = 0 THEN r.last ELSE r.rx.buffer[m].seq
  /\ UpOrder(P, q.up, q.last)
  /\ ToSet(q.up) \subseteq ToSet(r.up) \cup PacketsOf(r.rx.buffer)
  /\ q.rx.exists = r.rx.exists /\ q.rx.bitmap = r.rx.bitmap
  /\ q.rx.winStart = r.rx.winStart /\ q.rx.winEnd = r.rx.winEnd

Advanced(b, start, next, z, m) ==
  /\ start <= next /\ next <= Half /\ m \in 0..Len(b)
  /\ \A i \in DOMAIN b : i > m => b[i].seq >= z
  /\ \A t \in Nat : start <= t /\ t < next => t \in SeqsOf(b)
  /\ start = next => m = 0 \/ b[m].seq < z
  /\ start # next => m # 0 /\ b[m].seq = next - 1 /\ z <= start
  /\ m # Len(b) => b[m + 1].seq # next

(* Afterwards the next handler may run.                                    *)
LEMMA TookLeft ==
  ASSUME NEW P, NEW r, Ready(P, r), NEW q, NEW n, Took(P, r, q, n), q.rx.start \in 0..Half
  PROVE  Handed(P, r, q, n) /\ Ready(P, q)
<1>1. PICK b, len : /\ b = r.rx.buffer /\ len = Len(b) /\ b \in Seq(Item) /\ len \in Nat /\ DOMAIN b = 1..len
                    /\ InOrder(b, r.last) /\ r \in Recv /\ n \in 0..len /\ n \in Nat
  <2>1. r.rx.buffer \in Seq(Item)
    BY RecvIs DEF Ready
  <2>2. n \in 0..Len(r.rx.buffer)
    BY DEF Took
  <2>3. n \in Nat /\ Len(r.rx.buffer) \in Nat /\ DOMAIN r.rx.buffer = 1..Len(r.rx.buffer)
    BY <2>1, <2>2
  <2> QED BY <2>1, <2>2, <2>3 DEF Ready
<1>2. PICK t : t = q.rx.buffer /\ t = SubSeq(b, n + 1, Len(b)) /\ q \in Recv
  BY <1>1 DEF Took
<1>3. t \in Seq(Item) /\ Part(t, b) /\ Len(t) = len - n /\ \A i \in 1..(len - n) : t[i] = b[n + i]
  BY <1>1, <1>2, RestPart
<1>4. DOMAIN t = 1..(len - n) /\ \A i \in 1..(len - n) : n + i \in 1..len /\ n + i > n
  BY <1>1, <1>3
<1>5. Left(t, b, n)
  BY <1>1, <1>3, <1>4 DEF Left
<1>6. \A i \in 1..len : b[i].seq \in Early /\ b[i].seq \in Nat
  BY <1>1, HalfIs DEF InOrder, Early
<1>7. \A i, j \in 1..len : i < j => b[i].seq <= b[j].seq
  BY <1>1 DEF InOrder
<1>8. q.last = IF n = 0 THEN r.last ELSE b[n].seq
  BY <1>1 DEF Took
<1>9. InOrder(t, q.last)
  <2>1. \A i, j \in DOMAIN t : i < j => t[i].seq <= t[j].seq
    <3> SUFFICES ASSUME NEW i \in DOMAIN t, NEW j \in DOMAIN t, i < j PROVE t[i].seq <= t[j].seq
      OBVIOUS
    <3>1. i \in 1..(len - n) /\ j \in 1..(len - n)
      BY <1>4
    <3>2. n + i < n + j
      BY <1>1, <3>1
    <3>3. n + i \in 1..len /\ n + j \in 1..len /\ t[i] = b[n + i] /\ t[j] = b[n + j]
      BY <1>3, <1>4, <3>1
    <3> QED BY <1>7, <3>2, <3>3
  <2>2. \A i \in DOMAIN t : t[i].seq \in Early /\ Reached(q.last, t[i].seq)
    <3> TAKE i \in DOMAIN t
    <3>1. n + i \in 1..len /\ n < n + i /\ t[i] = b[n + i]
      BY <1>1, <1>3, <1>4
    <3>2. Reached(r.last, b[n + i].seq)
      BY <1>1, <3>1 DEF InOrder
    <3>3. n # 0 => Reached(b[n].seq, b[n + i].seq)
      <4> SUFFICES ASSUME n # 0 PROVE Reached(b[n].seq, b[n + i].seq)
        OBVIOUS
      <4>1. n \in 1..len
        BY <1>1
      <4> QED BY <1>7, <3>1, <4>1 DEF Reached
    <3> QED BY <1>6, <1>8, <3>1, <3>2, <3>3
  <2> QED BY <1>3, <2>1, <2>2 DEF InOrder
<1>10. PairsOf(t) \subseteq P
  <2>1. Among(t, b)
    BY <1>5 DEF Left, Among
  <2> QED BY <1>1, <1>3, <2>1, PartItems DEF Ready
<1>11. Handed(P, r, q, n)
  BY <1>1, <1>2, <1>5, <1>9 DEF Handed, Took
<1> QED BY <1>2, <1>9, <1>10, <1>11 DEF Ready, Took

(* The two handlers one after the other.                                   *)
LEMMA CompletedOrder ==
  ASSUME NEW P, NEW r, Ready(P, r), NEW z \in Early \cup {r.rx.start},
         NEW q, q = RxCompleteUntilLost(RxCompleteSmaller(r, z))
  PROVE  \E m : /\ Handed(P, r, q, m) /\ Advanced(r.rx.buffer, r.rx.start, q.rx.start, z, m)
                /\ Repeats(r.rx.buffer, r.last) /\ Climbing(r.up) => Climbing(q.up)
<1>1. PICK s : s = RxCompleteSmaller(r, z)
  OBVIOUS
<1>2. PICK n : /\ Took(P, r, s, n) /\ s.rx.start = r.rx.start
               /\ \A i \in 1..n : r.rx.buffer[i].seq < z
               /\ \A i \in DOMAIN r.rx.buffer : i > n => r.rx.buffer[i].seq >= z
  BY <1>1, SmallerOrder
<1>3. Handed(P, r, s, n) /\ Ready(P, s)
  BY <1>2, TookLeft DEF Ready
<1>4. PICK k : /\ Took(P, s, q, k) /\ s.rx.start + k <= Half
               /\ q.rx.start = s.rx.start + k
               /\ \A i \in 1..k : s.rx.buffer[i].seq = s.rx.start + i - 1
               /\ k # Len(s.rx.buffer) => s.rx.buffer[k + 1].seq # s.rx.start + k
  BY <1>1, <1>3, UntilLostOrder
<1>5. PICK b, len, t, start : /\ b = r.rx.buffer /\ len = Len(b) /\ b \in Seq(Item) /\ len \in Nat /\ DOMAIN b = 1..len
                              /\ start = r.rx.start /\ start \in 0..Half /\ t = s.rx.buffer /\ InOrder(b, r.last)
  <2>1. r.rx.buffer \in Seq(Item)
    BY RecvIs DEF Ready
  <2>2. Len(r.rx.buffer) \in Nat /\ DOMAIN r.rx.buffer = 1..Len(r.rx.buffer)
    BY <2>1
  <2> QED BY <2>1, <2>2 DEF Ready
<1>6. n \in 0..len /\ n \in Nat /\ t \in Seq(Item) /\ DOMAIN t = 1..(len - n) /\ Len(t) = len - n
      /\ \A i \in 1..(len - n) : t[i] = b[n + i] /\ n + i \in 1..len
  <2>1. Left(t, b, n)
    BY <1>3, <1>5 DEF Handed
  <2>2. n \in 0..len /\ t \in Seq(Item) /\ DOMAIN t = 1..(len - n)
    BY <1>5, <2>1 DEF Left
  <2>3. n \in Nat /\ len - n \in Nat
    BY <1>5, <2>2
  <2>4. Len(t) = len - n
    BY <2>2, <2>3
  <2>5. \A i \in 1..(len - n) : t[i] = b[n + i] /\ n + i \in 1..len
    BY <1>5, <2>1, <2>2 DEF Left
  <2> QED BY <2>2, <2>3, <2>4, <2>5
<1>7. q.rx.start \in 0..Half /\ k \in 0..(len - n) /\ k \in Nat /\ q.rx.start = start + k
  <2>1. k \in 0..Len(t)
    BY <1>4, <1>5 DEF Took
  <2>2. k \in 0..(len - n) /\ k \in Nat
    BY <1>5, <1>6, <2>1
  <2> QED BY <1>2, <1>4, <1>5, <2>2, HalfIs, SMTT(30)
<1>8. Handed(P, s, q, k)
  BY <1>3, <1>4, <1>7, TookLeft
<1>9. PICK m : m = n + k /\ m \in 0..len /\ m \in Nat /\ len - m = (len - n) - k
  <2>1. PICK m : m = n + k
    OBVIOUS
  <2>2. n \in Nat /\ k \in Nat /\ len \in Nat /\ n <= len /\ k <= len - n
    BY <1>5, <1>6, <1>7
  <2>3. m \in 0..len /\ m \in Nat /\ len - m = (len - n) - k
    BY <2>1, <2>2
  <2> QED BY <2>1, <2>3
<1>10. PICK u : u = q.rx.buffer /\ u \in Seq(Item) /\ DOMAIN u = 1..(len - m)
                /\ \A i \in 1..(len - m) : u[i] = t[k + i] /\ k + i \in 1..(len - n)
  <2>1. PICK u : u = q.rx.buffer /\ Left(u, t, k)
    BY <1>5, <1>8 DEF Handed
  <2>2. u \in Seq(Item) /\ DOMAIN u = 1..(Len(t) - k) /\ \A i \in DOMAIN u : u[i] = t[k + i] /\ k + i \in DOMAIN t
    BY <2>1 DEF Left
  <2> QED BY <1>6, <1>9, <2>1, <2>2
<1>11. Left(u, b, m)
  <2>1. \A i \in 1..(len - m) : u[i] = b[m + i] /\ m + i \in 1..len
    <3> TAKE i \in 1..(len - m)
    <3>1. u[i] = t[k + i] /\ k + i \in 1..(len - n)
      BY <1>10
    <3>2. t[k + i] = b[n + (k + i)] /\ n + (k + i) \in 1..len
      BY <1>6, <3>1
    <3>3. n + (k + i) = m + i
      BY <1>6, <1>7, <1>9
    <3> QED BY <3>1, <3>2, <3>3
  <2> QED BY <1>5, <1>9, <1>10, <2>1 DEF Left
<1>12. q.last = IF m = 0 THEN r.last ELSE b[m].seq
  <2>1. q.last = IF k = 0 THEN s.last ELSE t[k].seq
    BY <1>5, <1>8 DEF Handed
  <2>2. s.last = IF n = 0 THEN r.last ELSE b[n].seq
    BY <1>3, <1>5 DEF Handed
  <2>3. CASE k = 0
    BY <1>6, <1>9, <2>1, <2>2, <2>3
  <2>4. CASE k # 0
    <3>1. k \in 1..(len - n) /\ m # 0
      BY <1>5, <1>6, <1>7, <1>9, <2>4
    <3>2. t[k] = b[m]
      BY <1>6, <1>9, <3>1
    <3> QED BY <2>1, <2>4, <3>1, <3>2
  <2> QED BY <2>3, <2>4
<1>13. ToSet(q.up) \subseteq ToSet(r.up) \cup PacketsOf(b)
  <2>1. PacketsOf(t) \subseteq PacketsOf(b)
    <3>1. Among(t, b)
      BY <1>5, <1>6 DEF Among
    <3> QED BY <1>5, <1>6, <3>1, PartItems
  <2>2. ToSet(q.up) \subseteq ToSet(s.up) \cup PacketsOf(t) /\ ToSet(s.up) \subseteq ToSet(r.up) \cup PacketsOf(b)
    BY <1>3, <1>5, <1>8 DEF Handed
  <2> QED BY <2>1, <2>2
<1>14. Handed(P, r, q, m)
  <2>1. q \in Recv /\ InOrder(u, q.last) /\ UpOrder(P, q.up, q.last)
    BY <1>8, <1>10 DEF Handed
  <2>2. /\ q.rx.exists = r.rx.exists /\ q.rx.bitmap = r.rx.bitmap
        /\ q.rx.winStart = r.rx.winStart /\ q.rx.winEnd = r.rx.winEnd
    BY <1>3, <1>8 DEF Handed
  <2> QED BY <1>5, <1>10, <1>11, <1>12, <1>13, <2>1, <2>2 DEF Handed
<1>15. \A i \in 1..len : b[i].seq \in Nat
  BY <1>5, HalfIs DEF InOrder, Early
<1>16. z \in Nat
  BY <1>5, HalfIs DEF Early
<1>17. \A i \in 1..k : b[n + i].seq = start + i - 1 /\ n + i \in 1..len
  <2> TAKE i \in 1..k
  <2>1. i \in 1..(len - n)
    BY <1>5, <1>6, <1>7
  <2>2. t[i].seq = start + i - 1
    BY <1>2, <1>4, <1>5
  <2> QED BY <1>6, <2>1, <2>2
<1>18. Advanced(b, start, q.rx.start, z, m)
  <2>1. \A i \in DOMAIN b : i > m => b[i].seq >= z
    <3> SUFFICES ASSUME NEW i \in 1..len, i > m PROVE b[i].seq >= z
      BY <1>5
    <3>1. i > n
      BY <1>5, <1>6, <1>7, <1>9
    <3> QED BY <1>2, <1>5, <3>1
  <2>2. \A x \in Nat : start <= x /\ x < start + k => x \in SeqsOf(b)
    <3> SUFFICES ASSUME NEW x \in Nat, start <= x, x < start + k PROVE x \in SeqsOf(b)
      OBVIOUS
    <3>1. PICK i : i = x - start + 1 /\ i \in 1..k /\ start + i - 1 = x
      BY <1>5, <1>7, SMTT(30)
    <3>2. b[n + i].seq = x /\ n + i \in DOMAIN b
      BY <1>5, <1>17, <3>1
    <3> QED BY <3>2 DEF SeqsOf
  <2>3. k = 0 => m = 0 \/ b[m].seq < z
    <3> SUFFICES ASSUME k = 0, m # 0 PROVE b[m].seq < z
      OBVIOUS
    <3>1. m \in 1..n
      BY <1>6, <1>9
    <3> QED BY <1>2, <1>5, <3>1
  <2>4. k # 0 => m # 0 /\ b[m].seq = start + k - 1 /\ z <= start
    <3> SUFFICES ASSUME k # 0 PROVE m # 0 /\ b[m].seq = start + k - 1 /\ z <= start
      OBVIOUS
    <3>1. k \in 1..k /\ 1 \in 1..k /\ m # 0
      BY <1>5, <1>6, <1>7, <1>9
    <3>2. b[m].seq = start + k - 1
      BY <1>9, <1>17, <3>1
    <3>3. b[n + 1].seq = start /\ n + 1 \in 1..len /\ n + 1 > n
      <4>1. start + 1 - 1 = start
        BY <1>5, HalfIs
      <4> QED BY <1>6, <1>17, <3>1, <4>1
    <3>4. start >= z
      BY <1>2, <1>5, <3>3
    <3> QED BY <1>5, <1>16, <3>1, <3>2, <3>4, HalfIs
  <2>5. m # len => b[m + 1].seq # start + k
    <3> SUFFICES ASSUME m # len PROVE b[m + 1].seq # start + k
      OBVIOUS
    <3>1. k # len - n /\ k + 1 \in 1..(len - n) /\ n + (k + 1) = m + 1
      <4>1. n \in Nat /\ k \in Nat /\ len \in Nat /\ n <= len /\ k <= len - n /\ m = n + k /\ m # len
        BY <1>5, <1>6, <1>7, <1>9
      <4>2. k # len - n /\ n + (k + 1) = m + 1
        BY <4>1
      <4>3. len - n \in Nat /\ k < len - n
        BY <4>1, <4>2
      <4> QED BY <4>1, <4>2, <4>3
    <3>2. t[k + 1].seq # start + k
      BY <1>2, <1>4, <1>5, <1>6, <3>1
    <3> QED BY <1>6, <3>1, <3>2
  <2>6. start <= start + k /\ start + k <= Half /\ (start = start + k <=> k = 0) /\ start + k \in Nat
    BY <1>2, <1>4, <1>5, <1>7, HalfIs, SMTT(30)
  <2> QED BY <1>5, <1>7, <1>9, <2>1, <2>2, <2>3, <2>4, <2>5, <2>6, SMTT(30) DEF Advanced
<1>19. ASSUME Repeats(b, r.last), Climbing(r.up) PROVE Climbing(q.up)
  <2>1. Climbing(s.up)
    BY <1>2, <1>5, <1>19 DEF Took
  <2>2. Repeats(t, s.last)
    <3>1. CASE n = 0
      <4>1. s.last = r.last /\ \A i \in 1..len : 0 + i = i
        BY <1>3, <1>5, <3>1 DEF Handed
      <4>2. \A i \in DOMAIN t : i \in DOMAIN b /\ t[i] = b[i]
        BY <1>5, <1>6, <3>1, <4>1
      <4> QED BY <1>19, <4>1, <4>2 DEF Repeats
    <3>2. CASE n # 0
      <4>1. n \in 1..n /\ n \in 1..len /\ s.last = b[n].seq /\ b[n].seq < z
        BY <1>2, <1>3, <1>5, <1>6, <3>2 DEF Handed
      <4>2. \A i \in DOMAIN t : t[i].seq >= z /\ t[i].seq \in Nat
        <5> TAKE i \in DOMAIN t
        <5>1. n + i \in 1..len /\ n + i > n /\ t[i] = b[n + i]
          BY <1>5, <1>6, SMTT(30)
        <5> QED BY <1>2, <1>5, <1>15, <5>1
      <4>3. \A i \in DOMAIN t : t[i].seq # s.last
        BY <1>15, <1>16, <4>1, <4>2
      <4> QED BY <4>3 DEF Repeats
    <3> QED BY <3>1, <3>2
  <2> QED BY <1>4, <1>5, <2>1, <2>2 DEF Took
<1> QED BY <1>5, <1>14, <1>18, <1>19

Twice(b, s) == \E i, j \in DOMAIN b : i < j /\ b[i].seq = s /\ b[j].seq = s

(* t is b with the item where its number belongs.                          *)
Entered(t, b, item) ==
  /\ t \in Seq(Item) /\ Joined(t, b, item)
  /\ \A i, j \in DOMAIN t : i < j => t[i].seq <= t[j].seq
  /\ \A s : Twice(t, s) => Twice(b, s) \/ (s = item.seq /\ s \in SeqsOf(b))

(* An item that is put between the smaller and the larger ones leaves the  *)
(* list sorted.                                                            *)
LEMMA InsertionOrder ==
  ASSUME NEW b \in Seq(Item), NEW item \in Item, NEW t \in Seq(Item), NEW n \in 1..(Len(b) + 1),
         \A i \in DOMAIN b : b[i].seq \in Nat, item.seq \in Nat,
         \A i, j \in DOMAIN b : i < j => b[i].seq <= b[j].seq,
         Insertion(t, b, n, item), Joined(t, b, item),
         \A i \in DOMAIN b : IF i < n THEN b[i].seq <= item.seq ELSE item.seq <= b[i].seq
  PROVE  Entered(t, b, item)
<1>1. PICK len \in Nat : len = Len(b) /\ DOMAIN b = 1..len /\ Len(t) = len + 1 /\ DOMAIN t = 1..(len + 1)
                         /\ n \in Nat /\ 1 <= n /\ n <= len + 1
  <2>1. Len(b) \in Nat /\ DOMAIN b = 1..Len(b) /\ Len(t) = Len(b) + 1
    BY DEF Insertion
  <2>2. DOMAIN t = 1..(Len(b) + 1)
    BY <2>1
  <2>3. n \in Nat /\ 1 <= n /\ n <= Len(b) + 1
    BY <2>1
  <2> QED BY <2>1, <2>2, <2>3, Zenon
<1>2. t[n] = item /\ (\A i \in 1..(n - 1) : t[i] = b[i]) /\ (\A i \in n..len : t[i + 1] = b[i])
  BY <1>1 DEF Insertion
<1>3. \A i \in 1..(len + 1) : \/ i < n /\ i \in 1..len /\ t[i] = b[i]
                              \/ i = n /\ t[i] = item
                              \/ n < i /\ i - 1 \in 1..len /\ n <= i - 1 /\ t[i] = b[i - 1]
  <2> TAKE i \in 1..(len + 1)
  <2>1. CASE i < n
    <3>1. i \in 1..(n - 1) /\ i \in 1..len
      BY <1>1, <2>1
    <3> QED BY <1>2, <2>1, <3>1
  <2>2. CASE i = n
    BY <1>2, <2>2
  <2>3. CASE n < i
    <3>1. i - 1 \in n..len /\ i - 1 \in 1..len /\ (i - 1) + 1 = i /\ n <= i - 1
      BY <1>1, <2>3
    <3> QED BY <1>2, <2>3, <3>1
  <2> QED BY <1>1, <2>1, <2>2, <2>3
<1>4. \A i, j \in 1..(len + 1) : i < j =>
        \/ \E k, l \in 1..len : k < l /\ t[i] = b[k] /\ t[j] = b[l]
        \/ i = n /\ t[i] = item /\ \E l \in 1..len : n <= l /\ t[j] = b[l]
        \/ j = n /\ t[j] = item /\ \E k \in 1..len : k < n /\ t[i] = b[k]
  <2> SUFFICES ASSUME NEW i \in 1..(len + 1), NEW j \in 1..(len + 1), i < j
               PROVE  \/ \E k, l \in 1..len : k < l /\ t[i] = b[k] /\ t[j] = b[l]
                      \/ i = n /\ t[i] = item /\ \E l \in 1..len : n <= l /\ t[j] = b[l]
                      \/ j = n /\ t[j] = item /\ \E k \in 1..len : k < n /\ t[i] = b[k]
    OBVIOUS
  <2>1. CASE i < n /\ i \in 1..len /\ t[i] = b[i]
    <3>1. CASE j < n /\ j \in 1..len /\ t[j] = b[j]
      BY <2>1, <3>1
    <3>2. CASE j = n /\ t[j] = item
      BY <2>1, <3>2
    <3>3. CASE n < j /\ j - 1 \in 1..len /\ n <= j - 1 /\ t[j] = b[j - 1]
      <4>1. i < j - 1
        BY <1>1, <2>1, <3>3
      <4> QED BY <2>1, <3>3, <4>1
    <3> QED BY <1>3, <3>1, <3>2, <3>3
  <2>2. CASE i = n /\ t[i] = item
    <3>1. j - 1 \in 1..len /\ n <= j - 1 /\ t[j] = b[j - 1]
      <4>1. ~(j < n) /\ j # n
        BY <1>1, <2>2
      <4> QED BY <1>3, <4>1
    <3> QED BY <2>2, <3>1
  <2>3. CASE n < i /\ i - 1 \in 1..len /\ n <= i - 1 /\ t[i] = b[i - 1]
    <3>1. j - 1 \in 1..len /\ t[j] = b[j - 1]
      <4>1. ~(j < n) /\ j # n
        BY <1>1, <2>3
      <4> QED BY <1>3, <4>1
    <3>2. i - 1 < j - 1
      BY <1>1
    <3> QED BY <2>3, <3>1, <3>2
  <2> QED BY <1>3, <2>1, <2>2, <2>3
<1>5. \A i, j \in DOMAIN t : i < j => t[i].seq <= t[j].seq
  <2> SUFFICES ASSUME NEW i \in 1..(len + 1), NEW j \in 1..(len + 1), i < j PROVE t[i].seq <= t[j].seq
    BY <1>1
  <2>1. CASE \E k, l \in 1..len : k < l /\ t[i] = b[k] /\ t[j] = b[l]
    BY <1>1, <2>1
  <2>2. CASE i = n /\ t[i] = item /\ \E l \in 1..len : n <= l /\ t[j] = b[l]
    <3>1. PICK l \in 1..len : n <= l /\ t[j] = b[l] /\ ~(l < n)
      BY <1>1, <2>2
    <3> QED BY <1>1, <2>2, <3>1
  <2>3. CASE j = n /\ t[j] = item /\ \E k \in 1..len : k < n /\ t[i] = b[k]
    BY <1>1, <2>3
  <2> QED BY <1>4, <2>1, <2>2, <2>3
<1>6. \A s : Twice(t, s) => Twice(b, s) \/ (s = item.seq /\ s \in SeqsOf(b))
  <2> SUFFICES ASSUME NEW i \in 1..(len + 1), NEW j \in 1..(len + 1), i < j, t[i].seq = t[j].seq
               PROVE  Twice(b, t[i].seq) \/ (t[i].seq = item.seq /\ t[i].seq \in SeqsOf(b))
    BY <1>1 DEF Twice
  <2>1. CASE \E k, l \in 1..len : k < l /\ t[i] = b[k] /\ t[j] = b[l]
    BY <1>1, <2>1 DEF Twice
  <2>2. CASE i = n /\ t[i] = item /\ \E l \in 1..len : n <= l /\ t[j] = b[l]
    BY <1>1, <2>2 DEF SeqsOf
  <2>3. CASE j = n /\ t[j] = item /\ \E k \in 1..len : k < n /\ t[i] = b[k]
    BY <1>1, <2>3 DEF SeqsOf
  <2> QED BY <1>4, <2>1, <2>2, <2>3
<1> QED BY <1>5, <1>6 DEF Entered

(* Appending is inserting at the end.                                      *)
LEMMA AppendedIs ==
  ASSUME NEW b \in Seq(Item), NEW item \in Item
  PROVE  Insertion(Append(b, item), b, Len(b) + 1, item)
<1>1. PICK t, len : t = Append(b, item) /\ len = Len(b) /\ len \in Nat /\ Len(t) = len + 1
  <2>1. PICK t : t = Append(b, item)
    OBVIOUS
  <2>2. PICK len : len = Len(b)
    OBVIOUS
  <2>3. len \in Nat /\ Len(t) = len + 1
    BY <2>1, <2>2
  <2> QED BY <2>1, <2>2, <2>3
<1>2. t[len + 1] = item /\ \A i \in 1..len : t[i] = b[i]
  BY <1>1
<1>3. \A i \in (len + 1)..len : FALSE
  BY <1>1
<1>4. (len + 1) - 1 = len
  BY <1>1
<1> QED BY <1>1, <1>2, <1>3, <1>4 DEF Insertion

(* StoreMpdu keeps the buffer sorted.                                      *)
LEMMA StoreMpduOrder ==
  ASSUME NEW r \in Recv, InOrder(r.rx.buffer, r.last), r.rx.start \in 0..Half,
         NEW item \in Item, item.seq \in Early
  PROVE  \E b : Entered(b, r.rx.buffer, item) /\ StoreMpdu(r, item) = [r EXCEPT !.rx.buffer = b]
<1>1. PICK buffer, len : /\ buffer = r.rx.buffer /\ buffer \in Seq(Item) /\ len \in Nat /\ len = Len(buffer) /\ DOMAIN buffer = 1..len
                         /\ InOrder(buffer, r.last)
  <2>1. r.rx.buffer \in Seq(Item)
    BY RecvIs
  <2> QED BY <2>1
<1>2. PICK I : I = {i \in 1..Len(r.rx.buffer) :
                      MapSeqControl(r.rx.buffer[i].seq * FragMod, r.rx.start) >= MapSeqControl(item.seq * FragMod, r.rx.start)}
  OBVIOUS
<1>3. PICK b : /\ StoreMpdu(r, item) = [r EXCEPT !.rx.buffer = b]
               /\ b = IF I = {} THEN Append(r.rx.buffer, item) ELSE IF Min(I) = 0 THEN Append(r.rx.buffer, item) ELSE InsertAt(r.rx.buffer, Min(I), item)
  BY <1>2 DEF StoreMpdu, InsertBefore, SelectInSeq
<1>4. \A i \in 1..len : buffer[i].seq \in Nat /\ (i \in I <=> buffer[i].seq >= item.seq)
  <2> TAKE i \in 1..len
  <2>1. buffer[i].seq \in Early
    BY <1>1 DEF InOrder
  <2>2. MapSeqControl(buffer[i].seq * FragMod, r.rx.start) >= MapSeqControl(item.seq * FragMod, r.rx.start) <=> buffer[i].seq >= item.seq
    BY <2>1, KeyOrder
  <2>3. buffer[i].seq \in Nat
    BY <2>1, HalfIs DEF Early
  <2> QED BY <1>1, <1>2, <2>2, <2>3
<1>5. item.seq \in Nat
  BY HalfIs DEF Early
<1>6. \A i, j \in 1..len : i < j => buffer[i].seq <= buffer[j].seq
  BY <1>1 DEF InOrder
<1>7. CASE I = {}
  <2>1. b = Append(buffer, item)
    BY <1>1, <1>3, <1>7
  <2>2. b \in Seq(Item) /\ Joined(b, buffer, item)
    BY <1>1, <2>1, AppendJoined
  <2>3. Insertion(b, buffer, len + 1, item)
    BY <1>1, <2>1, AppendedIs
  <2>4. \A i \in 1..len : IF i < len + 1 THEN buffer[i].seq <= item.seq ELSE item.seq <= buffer[i].seq
    BY <1>1, <1>4, <1>5, <1>7
  <2>5. Entered(b, buffer, item)
    <3>1. len + 1 \in 1..(Len(buffer) + 1)
      BY <1>1
    <3> QED BY <1>1, <1>4, <1>5, <1>6, <2>2, <2>3, <2>4, <3>1, InsertionOrder
  <2> QED BY <1>1, <1>3, <2>5
<1>8. CASE I # {}
  <2>1. I \subseteq 1..len
    BY <1>1, <1>2
  <2>2. PICK m : m = Min(I) /\ m \in I /\ m \in 1..len /\ (\A k \in I : m <= k) /\ m # 0
    <3>1. Min(I) \in I /\ Min(I) \in 1..len /\ \A k \in I : Min(I) <= k
      BY <1>1, <1>8, <2>1, LeastPosition
    <3>2. Min(I) # 0
      BY <1>1, <3>1
    <3> QED BY <3>1, <3>2
  <2>3. b = InsertAt(buffer, m, item)
    BY <1>1, <1>3, <1>8, <2>2
  <2>4. b \in Seq(Item) /\ Insertion(b, buffer, m, item)
    BY <1>1, <2>2, <2>3, InsertedIs
  <2>5. Joined(b, buffer, item)
    BY <1>1, <2>2, <2>3, InsertJoined
  <2>6. \A i \in 1..len : IF i < m THEN buffer[i].seq <= item.seq ELSE item.seq <= buffer[i].seq
    <3> TAKE i \in 1..len
    <3>1. CASE i < m
      <4>1. i \notin I
        BY <1>1, <2>2, <3>1
      <4> QED BY <1>4, <1>5, <3>1, <4>1
    <3>2. CASE ~(i < m)
      <4>1. m = i \/ m < i
        BY <1>1, <2>2, <3>2
      <4>2. buffer[m].seq >= item.seq /\ buffer[m].seq \in Nat /\ buffer[i].seq \in Nat
        BY <1>4, <2>2
      <4>3. buffer[m].seq <= buffer[i].seq
        BY <1>6, <2>2, <4>1, <4>2
      <4> QED BY <1>5, <3>2, <4>2, <4>3
    <3> QED BY <3>1, <3>2
  <2>7. Entered(b, buffer, item)
    <3>1. m \in 1..(Len(buffer) + 1)
      BY <1>1, <2>2
    <3> QED BY <1>1, <1>4, <1>5, <1>6, <2>4, <2>5, <2>6, <3>1, InsertionOrder
  <2> QED BY <1>1, <1>3, <2>7
<1> QED BY <1>7, <1>8

(* No bit of BlockAckCache is behind the end of its window.                *)
Covered(c) == c.winStart \in 0..Half /\ \A x \in c.bitmap : x <= c.winEnd

(* The end of the window of BlockAckCache, without the wrap around.        *)
LEMMA WindowEnd ==
  ASSUME NEW c \in Record, Whole(c), c.winStart \in 0..Half
  PROVE  /\ c.winEnd = c.winStart + Window - 1 /\ c.winStart \in Nat /\ c.winStart <= Half
         /\ c.winStart + Window <= SeqSpace /\ c.winStart \in Seqs /\ c.bitmap \in SUBSET Seqs
         /\ DOMAIN c = DOMAIN NoRecord
<1>1. /\ c.winStart \in Seqs /\ c.winEnd \in Seqs /\ c.bitmap \in SUBSET Seqs /\ DOMAIN c = DOMAIN NoRecord
  BY DEF Record, NoRecord
<1>2. PICK a, e : a = c.winStart /\ e = c.winEnd /\ a \in 0..Half /\ e \in Seqs /\ a \in Seqs
  BY <1>1
<1>3. Window - 1 = IF e < a THEN e + SeqSpace - a ELSE e - a
  BY <1>2, DistIs DEF Whole
<1>4. e \in Nat /\ a \in Nat /\ SeqSpace \in Nat /\ Window \in Nat \ {0} /\ Window <= Half /\ 2 * Half <= SeqSpace /\ Half \in Nat
  BY <1>2, HalfIs DEF Seqs
<1>5. e = a + Window - 1 /\ a + Window <= SeqSpace
  BY <1>2, <1>3, <1>4
<1> QED BY <1>1, <1>2, <1>4, <1>5

(* A packet of the first half moves the window so that it ends at the      *)
(* packet, and clears no bit that is set.                                  *)
LEMMA CacheMpduOrder ==
  ASSUME NEW c \in Record, Whole(c), Covered(c), NEW s \in Early, NEW d, d = CacheMpdu(c, s)
  PROVE  /\ d.winStart = c.winStart \/ (c.winStart <= s /\ d.winStart = s - Window + 1)
         /\ \A x \in d.bitmap : x <= d.winEnd
         /\ c.winStart <= s => d.bitmap = c.bitmap \cup {s}
<1>1. PICK a, e : /\ a = c.winStart /\ e = c.winEnd /\ a \in Nat /\ e \in Nat /\ a <= Half /\ e = a + Window - 1
                  /\ a \in Seqs /\ e \in Seqs /\ a + Window <= SeqSpace /\ a \in 0..Half
  <2>1. c.winEnd \in Seqs
    BY DEF Record
  <2>2. c.winEnd \in Nat
    BY <2>1, HalfIs DEF Seqs
  <2> QED BY <2>1, <2>2, WindowEnd DEF Covered
<1>2. DOMAIN c = DOMAIN NoRecord /\ c.bitmap \in SUBSET Seqs /\ \A x \in c.bitmap : x <= e
  BY <1>1, WindowEnd DEF Covered
<1>3. /\ Half \in Nat /\ 2 * Half <= SeqSpace /\ SeqSpace \in Nat /\ s \in Nat /\ s < Half /\ s \in Seqs
      /\ Window \in Nat \ {0} /\ Window <= Half
  BY HalfIs, EarlyOld DEF Early
<1>4. (IsOld(a, s) <=> s < a) /\ (a <= s => Dist(s, a) = s - a)
  BY <1>1, EarlyOld
<1>5. CASE s < a
  <2>1. d = c
    BY <1>1, <1>4, <1>5 DEF CacheMpdu
  <2>2. d.winStart = a /\ d.winEnd = e /\ d.bitmap = c.bitmap
    BY <1>1, <2>1
  <2>3. ~(c.winStart <= s)
    BY <1>1, <1>3, <1>5
  <2>4. \A x \in d.bitmap : x <= d.winEnd
    BY <1>2, <2>2
  <2>5. d.winStart = c.winStart
    BY <1>1, <2>2
  <2> QED BY <2>3, <2>4, <2>5
<1>6. CASE a <= s /\ s < a + Window
  <2>1. IsInWindow(s, a) /\ ~IsOld(a, s)
    BY <1>1, <1>3, <1>4, <1>6 DEF IsInWindow
  <2>2. d = [c EXCEPT !.bitmap = c.bitmap \cup {s}]
    BY <1>1, <2>1 DEF CacheMpdu
  <2>3. d.winStart = a /\ d.winEnd = e /\ d.bitmap = c.bitmap \cup {s}
    BY <1>1, <1>2, <2>2 DEF NoRecord
  <2>4. s <= e
    BY <1>1, <1>3, <1>6
  <2> QED BY <1>1, <1>2, <2>3, <2>4
<1>7. CASE a + Window <= s
  <2>1. ~IsInWindow(s, a) /\ ~IsOld(a, s) /\ e < s
    BY <1>1, <1>3, <1>4, <1>7 DEF IsInWindow
  <2>2. PICK delta : delta = Dist(s, e) /\ delta = s - e
    <3>1. Dist(s, e) = IF s < e THEN s + SeqSpace - e ELSE s - e
      BY <1>1, <1>3, DistIs
    <3> QED BY <1>1, <1>3, <2>1, <3>1
  <2>3. PICK reset : reset = IF delta > 1 THEN Between(Plus(e, 1), Plus(s, SeqSpace - 1)) ELSE {}
    OBVIOUS
  <2>4. d = [c EXCEPT !.bitmap = (c.bitmap \ reset) \cup {s}, !.winStart = Plus(a, delta), !.winEnd = s]
    BY <1>1, <2>1, <2>2, <2>3 DEF CacheMpdu
  <2>5. d.winStart = Plus(a, delta) /\ d.winEnd = s /\ d.bitmap = (c.bitmap \ reset) \cup {s}
    BY <1>2, <2>4 DEF NoRecord
  <2>6. Plus(a, delta) = s - Window + 1
    <3>1. delta \in 0..SeqSpace
      BY <1>1, <1>3, <2>1, <2>2
    <3>2. Plus(a, delta) = IF a + delta < SeqSpace THEN a + delta ELSE a + delta - SeqSpace
      BY <1>1, <3>1, PlusIs
    <3>3. a + delta < SeqSpace /\ a + delta = s - Window + 1
      BY <1>1, <1>3, <1>7, <2>2
    <3> QED BY <3>2, <3>3
  <2>7. \A x \in c.bitmap : x \notin reset
    <3> SUFFICES ASSUME NEW x \in c.bitmap, x \in reset PROVE FALSE
      OBVIOUS
    <3>1. x \in Seqs /\ x <= e /\ x \in Nat /\ x < SeqSpace
      BY <1>2, <1>3 DEF Seqs
    <3>2. delta > 1 /\ x \in Between(Plus(e, 1), Plus(s, SeqSpace - 1))
      BY <2>3
    <3>3. Plus(e, 1) = e + 1 /\ e + 1 \in Seqs
      <4>1. 1 \in 0..SeqSpace /\ e + 1 < SeqSpace
        BY <1>1, <1>3, <2>1
      <4>2. Plus(e, 1) = IF e + 1 < SeqSpace THEN e + 1 ELSE e + 1 - SeqSpace
        BY <1>1, <4>1, PlusIs
      <4> QED BY <1>1, <1>3, <4>1, <4>2 DEF Seqs
    <3>4. Plus(s, SeqSpace - 1) = s - 1 /\ s - 1 \in Seqs
      <4>1. SeqSpace - 1 \in 0..SeqSpace /\ s > 0
        BY <1>1, <1>3, <2>1
      <4>2. Plus(s, SeqSpace - 1) = IF s + (SeqSpace - 1) < SeqSpace THEN s + (SeqSpace - 1) ELSE s + (SeqSpace - 1) - SeqSpace
        BY <1>3, <4>1, PlusIs
      <4> QED BY <1>1, <1>3, <4>1, <4>2 DEF Seqs
    <3>5. Dist(x, e + 1) <= Dist(s - 1, e + 1)
      BY <3>2, <3>3, <3>4 DEF Between
    <3>6. PICK f : f = e + 1 /\ f \in Seqs /\ f \in Nat
      BY <1>1, <3>3
    <3>7. Dist(x, f) = IF x < f THEN x + SeqSpace - f ELSE x - f
      BY <3>1, <3>6, DistIs
    <3>8. PICK y : y = s - 1 /\ y \in Seqs
      BY <3>4
    <3>9. Dist(y, f) = IF y < f THEN y + SeqSpace - f ELSE y - f
      BY <3>6, <3>8, DistIs
    <3>10. x < f /\ ~(y < f)
      BY <1>1, <1>3, <2>2, <3>1, <3>2, <3>6, <3>8
    <3>11. x + SeqSpace - f <= y - f
      BY <3>5, <3>6, <3>7, <3>8, <3>9, <3>10
    <3> QED BY <1>1, <1>3, <3>1, <3>6, <3>8, <3>11
  <2>8. d.bitmap = c.bitmap \cup {s}
    BY <2>5, <2>7
  <2>9. \A x \in d.bitmap : x <= d.winEnd
    <3> TAKE x \in d.bitmap
    <3>1. CASE x = s
      BY <1>3, <2>5, <3>1
    <3>2. CASE x \in c.bitmap
      <4>1. x <= e /\ x \in Nat
        BY <1>2, <1>3, <3>2 DEF Seqs
      <4> QED BY <1>1, <1>3, <2>1, <2>5, <4>1
    <3> QED BY <2>8, <3>1, <3>2
  <2>10. c.winStart <= s
    BY <1>1, <1>3, <1>7
  <2> QED BY <1>1, <2>5, <2>6, <2>8, <2>9, <2>10
<1> QED BY <1>1, <1>3, <1>5, <1>6, <1>7

(* A request moves the window to its number, and clears no bit that is set.*)
LEMMA CacheReqOrder ==
  ASSUME NEW c \in Record, Whole(c), Covered(c), NEW z \in Early, NEW d, d = CacheBlockAckReq(c, z)
  PROVE  /\ d.winStart = c.winStart \/ d.winStart = z
         /\ \A x \in d.bitmap : x <= d.winEnd
         /\ d.bitmap = c.bitmap
<1>1. PICK a, e : /\ a = c.winStart /\ e = c.winEnd /\ a \in Nat /\ e \in Nat /\ a <= Half /\ e = a + Window - 1
                  /\ a \in Seqs /\ e \in Seqs /\ a + Window <= SeqSpace /\ a \in 0..Half
  <2>1. c.winEnd \in Seqs
    BY DEF Record
  <2>2. c.winEnd \in Nat
    BY <2>1, HalfIs DEF Seqs
  <2> QED BY <2>1, <2>2, WindowEnd DEF Covered
<1>2. DOMAIN c = DOMAIN NoRecord /\ c.bitmap \in SUBSET Seqs /\ \A x \in c.bitmap : x <= e
  BY <1>1, WindowEnd DEF Covered
<1>3. /\ Half \in Nat /\ 2 * Half <= SeqSpace /\ SeqSpace \in Nat /\ z \in Nat /\ z < Half /\ z \in Seqs
      /\ Window \in Nat \ {0} /\ Window <= Half
  BY HalfIs, EarlyOld DEF Early
<1>4. (IsOld(a, z) <=> z < a) /\ (a <= z => Dist(z, a) = z - a)
  BY <1>1, EarlyOld
<1>5. CASE z <= a
  <2>1. d = c
    BY <1>1, <1>3, <1>4, <1>5 DEF CacheBlockAckReq
  <2> QED BY <1>1, <1>2, <2>1
<1>6. CASE a < z
  <2>1. ~IsOld(a, z) /\ z # a /\ (IsInWindow(z, a) <=> z < a + Window)
    BY <1>1, <1>3, <1>4, <1>6 DEF IsInWindow
  <2>2. PICK end : end = Plus(z, Window - 1) /\ end = z + Window - 1 /\ end \in Seqs
    <3>1. Window - 1 \in 0..SeqSpace
      BY <1>3
    <3>2. Plus(z, Window - 1) = IF z + (Window - 1) < SeqSpace THEN z + (Window - 1) ELSE z + (Window - 1) - SeqSpace
      BY <1>3, <3>1, PlusIs
    <3>3. z + (Window - 1) < SeqSpace
      BY <1>3
    <3> QED BY <1>3, <3>2, <3>3 DEF Seqs
  <2>3. PICK first : first = IF z < a + Window THEN Plus(e, 1) ELSE z
    OBVIOUS
  <2>4. d = [c EXCEPT !.winStart = z, !.winEnd = end, !.bitmap = c.bitmap \ Between(first, end)]
    BY <1>1, <2>1, <2>2, <2>3 DEF CacheBlockAckReq
  <2>5. d.winStart = z /\ d.winEnd = end /\ d.bitmap = c.bitmap \ Between(first, end)
    BY <1>2, <2>4 DEF NoRecord
  <2>6. first \in Seqs /\ e < first /\ first <= end
    <3>1. CASE z < a + Window
      <4>1. 1 \in 0..SeqSpace /\ e + 1 < SeqSpace
        BY <1>1, <1>3, <1>6
      <4>2. Plus(e, 1) = IF e + 1 < SeqSpace THEN e + 1 ELSE e + 1 - SeqSpace
        BY <1>1, <4>1, PlusIs
      <4>3. first = e + 1
        BY <2>3, <3>1, <4>1, <4>2
      <4> QED BY <1>1, <1>3, <1>6, <2>2, <4>1, <4>3 DEF Seqs
    <3>2. CASE ~(z < a + Window)
      BY <1>1, <1>3, <2>2, <2>3, <3>2
    <3> QED BY <3>1, <3>2
  <2>7. \A x \in c.bitmap : x \notin Between(first, end)
    <3> SUFFICES ASSUME NEW x \in c.bitmap, x \in Between(first, end) PROVE FALSE
      OBVIOUS
    <3>1. x \in Seqs /\ x <= e /\ x \in Nat /\ first \in Nat /\ end \in Nat /\ end < SeqSpace
      BY <1>2, <1>3, <2>2, <2>6 DEF Seqs
    <3>2. Dist(x, first) <= Dist(end, first)
      BY DEF Between
    <3>3. Dist(x, first) = IF x < first THEN x + SeqSpace - first ELSE x - first
      BY <2>6, <3>1, DistIs
    <3>4. Dist(end, first) = IF end < first THEN end + SeqSpace - first ELSE end - first
      BY <2>2, <2>6, DistIs
    <3>5. x + SeqSpace - first <= end - first
      BY <1>1, <1>3, <2>6, <3>1, <3>2, <3>3, <3>4
    <3> QED BY <1>3, <3>1, <3>5
  <2>8. d.bitmap = c.bitmap
    BY <2>5, <2>7
  <2>9. \A x \in d.bitmap : x <= d.winEnd
    <3> TAKE x \in d.bitmap
    <3>1. x <= e /\ x \in Nat
      BY <1>2, <1>3, <2>8 DEF Seqs
    <3> QED BY <1>1, <1>3, <1>6, <2>2, <2>5, <3>1
  <2> QED BY <2>5, <2>8, <2>9
<1> QED BY <1>1, <1>3, <1>5, <1>6

(* What a block ack covers, of a window that begins in the first half.     *)
LEMMA FillIs ==
  ASSUME NEW c \in Record, NEW z \in Early, NEW s \in Nat, s \in c.bitmap, z <= s, s < z + Window
  PROVE  s \in FillBlockAckBitmap(c, z)
<1>1. s \in Seqs /\ z \in Seqs /\ z \in Nat /\ Window \in Nat
  BY HalfIs, EarlyOld DEF Record, Early
<1>2. Dist(s, z) = IF s < z THEN s + SeqSpace - z ELSE s - z
  BY <1>1, DistIs
<1> QED BY <1>1, <1>2 DEF FillBlockAckBitmap, IsInWindow

(* q is r with the item in its buffer and its number in the bitmap.        *)
Put(r, q, item) ==
  /\ q \in Recv /\ q.up = r.up /\ q.last = r.last
  /\ Entered(q.rx.buffer, r.rx.buffer, item)
  /\ q.rx.start = r.rx.start /\ q.rx.exists = r.rx.exists
  /\ \/ q.rx.winStart = r.rx.winStart
     \/ r.rx.winStart <= item.seq /\ q.rx.winStart = item.seq - Window + 1
  /\ \A x \in q.rx.bitmap : x <= q.rx.winEnd
  /\ r.rx.winStart <= item.seq => q.rx.bitmap = r.rx.bitmap \cup {item.seq}

(* The whole handler of a packet: the buffer, then BlockAckCache.          *)
LEMMA StoredOrder ==
  ASSUME Recipient \in Recv, Whole(rx), Covered(rx), InOrder(rx.buffer, lastSeq), rx.start \in 0..Half,
         NEW item \in Item, item.seq \in Early
  PROVE  Put(Recipient, Stored(item), item)
<1>1. PICK r : r = Recipient
  OBVIOUS
<1>2. PICK a : a = rx
  OBVIOUS
<1>3. /\ r.rx = a /\ r.up = up /\ r.last = lastSeq /\ a \in Record /\ DOMAIN r = {"rx", "up", "last"}
      /\ DOMAIN a = DOMAIN NoRecord /\ Whole(a) /\ Covered(a) /\ r \in Recv
  <2>1. r.rx = a /\ r.up = up /\ r.last = lastSeq /\ r \in Recv /\ Whole(a) /\ Covered(a)
    BY <1>1, <1>2, RecipientIs
  <2> QED BY <2>1, RecvIs
<1>4. PICK b : Entered(b, a.buffer, item) /\ StoreMpdu(r, item) = [r EXCEPT !.rx.buffer = b]
  <2>1. InOrder(r.rx.buffer, r.last) /\ r.rx.start \in 0..Half
    BY <1>2, <1>3
  <2>2. \E b : Entered(b, r.rx.buffer, item) /\ StoreMpdu(r, item) = [r EXCEPT !.rx.buffer = b]
    BY <1>3, <2>1, StoreMpduOrder
  <2> QED BY <1>3, <2>2
<1>5. item.seq \in Seqs /\ b \in Seq(Item)
  BY <1>4 DEF Item, Entered
<1>6. PICK c : c = [a EXCEPT !.buffer = b]
  OBVIOUS
<1>7. c \in Record /\ Whole(c) /\ Covered(c) /\ c.buffer = b /\ c.exists = a.exists /\ c.bitmap = a.bitmap /\ c.start = a.start
      /\ c.winStart = a.winStart
  <2>1. c \in Record
    BY <1>3, <1>5, <1>6 DEF Record
  <2>2. /\ c.buffer = b /\ c.exists = a.exists /\ c.bitmap = a.bitmap /\ c.start = a.start
        /\ c.winStart = a.winStart /\ c.winEnd = a.winEnd
    BY <1>3, <1>6 DEF NoRecord
  <2>3. Whole(c)
    BY <1>3, <2>2 DEF Whole
  <2>4. Covered(c)
    BY <1>3, <2>2 DEF Covered
  <2> QED BY <2>1, <2>2, <2>3, <2>4
<1>8. PICK d : d = CacheMpdu(c, item.seq)
  OBVIOUS
<1>9. Cached(c, d, {item.seq})
  BY <1>5, <1>7, <1>8, CacheMpduIs
<1>10. /\ d.winStart = c.winStart \/ (c.winStart <= item.seq /\ d.winStart = item.seq - Window + 1)
       /\ \A x \in d.bitmap : x <= d.winEnd
       /\ c.winStart <= item.seq => d.bitmap = c.bitmap \cup {item.seq}
  BY <1>7, <1>8, CacheMpduOrder
<1>11. PICK q : q = [r EXCEPT !.rx = d]
  OBVIOUS
<1>12. Stored(item) = q
  <2>1. PICK m : m = StoreMpdu(r, item) /\ m = [r EXCEPT !.rx = c]
    BY <1>3, <1>4, <1>6
  <2>2. Stored(item) = [m EXCEPT !.rx = CacheMpdu(@, item.seq)]
    BY <1>1, <2>1 DEF Stored
  <2>3. m.rx = c /\ DOMAIN m = DOMAIN r
    BY <1>3, <2>1
  <2>4. Stored(item) = [m EXCEPT !.rx = d]
    BY <1>8, <2>2, <2>3
  <2> QED BY <1>3, <1>11, <2>1, <2>4
<1>13. q.rx = d /\ q.up = r.up /\ q.last = r.last /\ q \in Recv
  BY <1>3, <1>9, <1>11 DEF Cached, Recv
<1>14. d.buffer = b /\ d.start = a.start /\ d.exists = a.exists
  BY <1>7, <1>9 DEF Cached
<1>15. Entered(q.rx.buffer, r.rx.buffer, item) /\ q.rx.start = r.rx.start /\ q.rx.exists = r.rx.exists
  BY <1>3, <1>4, <1>13, <1>14
<1>16. \/ q.rx.winStart = r.rx.winStart
       \/ r.rx.winStart <= item.seq /\ q.rx.winStart = item.seq - Window + 1
  BY <1>3, <1>7, <1>10, <1>13
<1>17. \A x \in q.rx.bitmap : x <= q.rx.winEnd
  BY <1>10, <1>13
<1>18. r.rx.winStart <= item.seq => q.rx.bitmap = r.rx.bitmap \cup {item.seq}
  BY <1>3, <1>7, <1>10, <1>13
<1> QED BY <1>1, <1>12, <1>13, <1>15, <1>16, <1>17, <1>18 DEF Put

(* q is r with the window of BlockAckCache moved by a request for z.       *)
Reopened(r, q, z) ==
  /\ q \in Recv /\ q.up = r.up /\ q.last = r.last /\ q.rx.buffer = r.rx.buffer
  /\ q.rx.start = r.rx.start /\ q.rx.exists = r.rx.exists
  /\ q.rx.winStart \in {r.rx.winStart, z}
  /\ q.rx.bitmap = r.rx.bitmap /\ \A x \in q.rx.bitmap : x <= q.rx.winEnd

(* The first half of the handler of a request.                             *)
LEMMA CachedOrder ==
  ASSUME Recipient \in Recv, Whole(rx), Covered(rx), NEW z \in Early,
         NEW q, q = [Recipient EXCEPT !.rx = CacheBlockAckReq(@, z)]
  PROVE  Reopened(Recipient, q, z)
<1>1. PICK r : r = Recipient
  OBVIOUS
<1>2. PICK a : a = rx
  OBVIOUS
<1>3. /\ r.rx = a /\ a \in Record /\ DOMAIN r = {"rx", "up", "last"} /\ Whole(a) /\ Covered(a) /\ r \in Recv
      /\ z \in Seqs
  <2>1. r.rx = a /\ r \in Recv /\ Whole(a) /\ Covered(a)
    BY <1>1, <1>2, RecipientIs
  <2>2. z \in Seqs
    BY HalfIs, EarlyOld DEF Early
  <2> QED BY <2>1, <2>2, RecvIs
<1>4. PICK d : d = CacheBlockAckReq(a, z)
  OBVIOUS
<1>5. Cached(a, d, {})
  BY <1>3, <1>4, CacheBlockAckReqIs
<1>6. /\ d.winStart = a.winStart \/ d.winStart = z
      /\ \A x \in d.bitmap : x <= d.winEnd
      /\ d.bitmap = a.bitmap
  BY <1>3, <1>4, CacheReqOrder
<1>7. q = [r EXCEPT !.rx = d]
  BY <1>1, <1>3, <1>4
<1>8. q.rx = d /\ q.up = r.up /\ q.last = r.last /\ q \in Recv
  BY <1>3, <1>5, <1>7 DEF Cached, Recv
<1>9. d.buffer = a.buffer /\ d.start = a.start /\ d.exists = a.exists
  BY <1>5 DEF Cached
<1> QED BY <1>1, <1>3, <1>6, <1>8, <1>9 DEF Reopened

-----------------------------------------------------------------------------
(* The inductive invariant.                                                *)

(* The numbers of what the originator keeps for the block ack, of those    *)
(* not too old to be sent again, of the packet in the air, of what waits   *)
(* to be sent again, and of the requests that are due or in service.       *)
Sent == SeqsOf(ba.sent)
Young == Fresh(ba.sent)
Flying == IF IsBlock(air) THEN {air.item.seq} ELSE {}
Live == Young \cup Flying
Waiting == ToSet(ba.retry)
Again == (Waiting \cap Young) \cup Flying
Asks == ToSet(ba.bars) \cup (IF cur.kind = "bar" THEN {cur.start} ELSE {})
Newest(s) == s + 1 = nextSeq
Buffered == SeqsOf(rx.buffer)
Told == ToSet(up) \cup {x[2] : x \in Way}

(* Packets get their numbers in the order of the queue.                    *)
QueueOrder ==
  /\ expired <= offered
  /\ \A i, j \in DOMAIN queue : i < j => queue[i] < queue[j]
  /\ \A i \in DOMAIN queue : queue[i] <= offered /\ expired < queue[i]
ToldOrder == \A p \in Told : p <= offered /\ \A i \in DOMAIN queue : p < queue[i]
PacketOrder == QueueOrder /\ ToldOrder /\ Ranked(Way)

(* What was handed up comes before what is on its way and was not; the     *)
(* buffer is sorted and comes next.                                        *)
BufferOrder == InOrder(rx.buffer, lastSeq)
RecordBounds == rx.start <= nextSeq /\ rx.winStart <= nextSeq /\ \A s \in rx.bitmap : s <= rx.winEnd
RecipientOrder == UpOrder(Way, up, lastSeq) /\ BufferOrder /\ RecordBounds

(* A packet under normal acknowledgement is the newest and goes without an *)
(* agreement; a new agreement begins with the next number.                 *)
Fits(f, state, sent, next) ==
  /\ IsNormal(f) => state = "none" /\ f.item.seq + 1 = next
  /\ f.kind = "addba" => sent = <<>> /\ f.start = next
Serves ==
  /\ low \in {"ack", "noack"} => cur.kind # "bar"
  /\ IsBlock(cur) => low = "noack"
  /\ ba.state = "pending" => blocked
InService == Serves /\ Fits(cur, ba.state, ba.sent, nextSeq) /\ Fits(air, ba.state, ba.sent, nextSeq)

(* The window of the originator begins before what it keeps, a request     *)
(* asks for all of it, and while packets wait to be sent again the last of *)
(* them is no older than any other.                                        *)
WindowOrder ==
  /\ ba.start <= nextSeq /\ \A s \in Sent : ba.start <= s
  /\ \A z \in Asks : z < nextSeq /\ \A s \in Sent : z <= s
  /\ \A s \in Waiting : s \notin Flying
  /\ Waiting # {} => Asks = {} /\ \A s \in Sent : \E t \in Waiting : s <= t

(* What may still arrive fits into one window; only the newest packet,     *)
(* alone, may be beyond the one a request asks for.                        *)
Narrow ==
  /\ \A s, t \in Live : s < t + Window
  /\ Asks = {} /\ Waiting = {} => \A t \in Young : nextSeq < t + Window
  /\ \A z \in Asks : \A s \in Young : s < z + Window \/ (Newest(s) /\ Young = {s})
Sending == OrderInv /\ PacketOrder /\ WindowOrder /\ Narrow

(* What may still arrive and has no bit is neither handed up nor in the    *)
(* buffer, nor passed over; what has one is covered by the block ack, but  *)
(* for the newest.                                                         *)
Missing(s) == s \notin rx.bitmap => Past(lastSeq, s) /\ rx.start <= s /\ s \notin Buffered
LinkOrder ==
  rx.exists =>
    /\ \A s \in Live : Missing(s) /\ rx.winStart <= s
    /\ \A s \in Again : s \in rx.bitmap => Newest(s)
    /\ air.kind = "ba" => \A s \in Young : s \in rx.bitmap => s \in air.acked \/ Newest(s)

(* Copies of a number meet in the duplicate filter one right after the    *)
(* other, the second a retry: two in the buffer leave it together, one in  *)
(* front of the window is a copy of the packet just before it, and no      *)
(* request that may still come falls between them.                         *)
Behind(s) == s <= ba.start /\ \A z \in Asks : s <= z
Lone(s) == Newest(s) /\ Young = {s} /\ (s \in Buffered => rx.start # s)
Copies ==
  /\ Repeats(rx.buffer, lastSeq)
  /\ \A s \in Buffered : Twice(rx.buffer, s) => rx.start # s /\ Behind(s)
  /\ \A s \in Buffered : s < rx.start => rx.start = s + 1 /\ Behind(s)

(* Only the newest packet is sent once more after its bit was set.         *)
Echoes ==
  /\ \A s \in Waiting \cap Young : s \in rx.bitmap => Lone(s)
  /\ \A s \in Flying : s \in rx.bitmap =>
        Newest(s) /\ air.item.retry /\ Behind(s) /\ (s \in Buffered => rx.start # s)
  /\ air.kind = "ba" => \A s \in Young : s \in rx.bitmap => s \in air.acked \/ Lone(s)
Normals ==
  /\ IsNormal(air) => air.item.retry \/ Past(lastSeq, air.item.seq)
  /\ IsNormal(cur) => cur.item.retry \/ low = "ack"
  /\ rx.exists \/ "addba" \in {cur.kind, air.kind} => ba.state # "none"

Chain == NeverTornDown => Climbing(up) /\ Copies /\ Echoes
Link == RecipientOrder /\ LinkOrder /\ Chain
InOrderInv == Sending /\ InService /\ Link /\ (NeverTornDown => Normals)

-----------------------------------------------------------------------------
(* In the first half the numbers count up with the packets.                *)
Low(S, n) == \A s \in S : s \in Nat /\ s < n /\ s \in Early /\ s \in Seqs /\ FirstSeq <= s

LEMMA NumbersAre ==
  ASSUME FirstHalf, OrderInv
  PROVE  /\ nextSeq \in 0..Half /\ nextSeq \in Nat /\ Draw(nextSeq) \in Nat /\ nextSeq = FirstSeq + Draw(nextSeq)
         /\ \A s : Drawn(Draw(nextSeq), s) => s \in Nat /\ s < nextSeq /\ s \in Early /\ s \in Seqs /\ FirstSeq <= s
         /\ \A s : Drawn(Draw(nextSeq), s) => s = FirstSeq + Draw(s)
<1>1. nextSeq \in Seqs /\ Draw(nextSeq) \in Nat /\ Draw(nextSeq) <= Cardinality(Packet)
  <2>1. Numbered
    BY DEF OrderInv, WindowInv
  <2>2. nextSeq \in Seqs /\ Draw(nextSeq) \in 0..Cardinality(Packet)
    BY <2>1, NumberedIs DEF Numbered
  <2> QED BY <2>2, HalfIs
<1>2. nextSeq \in 0..Half /\ nextSeq = FirstSeq + Draw(nextSeq) /\ nextSeq \in Nat
  BY <1>1, DrawnIs, EarlyIs
<1>3. \A s : Drawn(Draw(nextSeq), s) => s \in Nat /\ s < nextSeq /\ s \in Early /\ s \in Seqs /\ FirstSeq <= s
  BY <1>1, DrawnIs
<1>4. ASSUME NEW s, Drawn(Draw(nextSeq), s) PROVE s = FirstSeq + Draw(s)
  <2>1. s \in Seqs /\ Draw(s) < Draw(nextSeq)
    BY <1>4 DEF Drawn
  <2>2. Draw(s) \in Nat
    BY <2>1, SpaceType, DrawIs
  <2>3. Draw(s) <= Cardinality(Packet)
    BY <1>1, <2>1, <2>2, HalfIs
  <2> QED BY <2>1, <2>3, EarlyIs
<1> QED BY <1>1, <1>2, <1>3, <1>4

(* Every number on its way, in the buffer, in the bitmap or awaiting a     *)
(* retry was drawn.                                                        *)
LEMMA PairsLow ==
  ASSUME FirstHalf, OrderInv
  PROVE  /\ \A x \in Way : x[1] \in Nat /\ x[1] < nextSeq /\ x[1] \in Early /\ x[1] \in Seqs /\ FirstSeq <= x[1]
         /\ Low(Sent, nextSeq) /\ Low(Young, nextSeq) /\ Low(Waiting, nextSeq) /\ Low(Flying, nextSeq)
         /\ Low(Buffered, nextSeq) /\ Low(rx.bitmap, nextSeq)
         /\ (lastSeq = SeqSpace \/ (lastSeq \in Nat /\ lastSeq < nextSeq /\ lastSeq \in Early))
<1>1. RecInv(Way, Recipient, Bits, Draw(nextSeq))
  BY DEF OrderInv, RecipientInv
<1>2. \A x \in Way : x[1] \in Nat /\ x[1] < nextSeq /\ x[1] \in Early /\ x[1] \in Seqs /\ FirstSeq <= x[1]
  BY <1>1, NumbersAre DEF RecInv
<1>3. ASSUME NEW items, PairsOf(items) \subseteq Way PROVE Low(SeqsOf(items), nextSeq)
  <2> SUFFICES ASSUME NEW i \in DOMAIN items PROVE LET s == items[i].seq IN s \in Nat /\ s < nextSeq /\ s \in Early /\ s \in Seqs /\ FirstSeq <= s
    BY DEF Low, SeqsOf
  <2>1. PICK x : x = <<items[i].seq, items[i].packet>>
    OBVIOUS
  <2>2. x \in Way /\ x[1] = items[i].seq
    BY <1>3, <2>1 DEF PairsOf
  <2> QED BY <1>2, <2>2
<1>4. Low(Sent, nextSeq)
  BY <1>3 DEF Sent, Way
<1>5. Low(Buffered, nextSeq)
  BY <1>3 DEF Buffered, Way
<1>6. Low(Flying, nextSeq)
  <2> SUFFICES ASSUME IsBlock(air) PROVE LET s == air.item.seq IN s \in Nat /\ s < nextSeq /\ s \in Early /\ s \in Seqs /\ FirstSeq <= s
    BY DEF Low, Flying
  <2>1. PICK x : x = <<air.item.seq, air.item.packet>>
    OBVIOUS
  <2>2. x \in Way /\ x[1] = air.item.seq
    BY <2>1 DEF IsBlock, Way, FramePairs
  <2> QED BY <1>2, <2>2
<1>7. Low(Young, nextSeq)
  BY <1>4 DEF Low, Young, Fresh, Sent, SeqsOf
<1>8. Low(Waiting, nextSeq)
  <2>1. Ordered(ba, Draw(nextSeq))
    BY DEF OrderInv, WindowInv
  <2>2. \A i \in DOMAIN ba.retry : Drawn(Draw(nextSeq), ba.retry[i])
    BY <2>1 DEF Ordered, RisingSeqs, Drawn
  <2>3. \A s \in Waiting : Drawn(Draw(nextSeq), s)
    BY <2>2 DEF Waiting, ToSet
  <2> QED BY <2>3, NumbersAre DEF Low
<1>9. Low(rx.bitmap, nextSeq)
  BY <1>1, NumbersAre DEF RecInv, Bits, Low
<1>10. lastSeq = SeqSpace \/ (lastSeq \in Nat /\ lastSeq < nextSeq /\ lastSeq \in Early)
  BY <1>1, NumbersAre, RecipientIs DEF RecInv
<1> QED BY <1>2, <1>4, <1>5, <1>6, <1>7, <1>8, <1>9, <1>10

(* Both lists of the originator go up.                                     *)
LEMMA SentRises ==
  ASSUME FirstHalf, OrderInv, NEW a, Ordered(a, Draw(nextSeq))
  PROVE  /\ \A i, j \in DOMAIN a.sent : i < j => a.sent[i].seq < a.sent[j].seq
         /\ \A i, j \in DOMAIN a.retry : i < j => a.retry[i] < a.retry[j]
         /\ Low(SeqsOf(a.sent), nextSeq) /\ Low(ToSet(a.retry), nextSeq) /\ ToSet(a.retry) \subseteq SeqsOf(a.sent)
         /\ a.sent \in Seq(Item) /\ a.retry \in Seq(Seqs) /\ a.start \in Nat /\ a.start \in Seqs
<1>1. a \in Agreement /\ Rising(a.sent, Draw(nextSeq)) /\ RisingSeqs(a.retry, Draw(nextSeq))
  BY DEF Ordered
<1>2. a.sent \in Seq(Item) /\ a.retry \in Seq(Seqs) /\ a.start \in Seqs
  BY <1>1, AgreementIs
<1>3. \A i \in DOMAIN a.sent : Drawn(Draw(nextSeq), a.sent[i].seq)
  <2> TAKE i \in DOMAIN a.sent
  <2>1. a.sent[i] \in Item
    BY <1>2
  <2> QED BY <1>1, <2>1 DEF Rising, Drawn, Item
<1>4. \A i \in DOMAIN a.retry : Drawn(Draw(nextSeq), a.retry[i])
  BY <1>1 DEF RisingSeqs, Drawn
<1>5. FirstSeq \in Nat
  BY HalfIs
<1>6. \A i, j \in DOMAIN a.sent : i < j => a.sent[i].seq < a.sent[j].seq
  <2> SUFFICES ASSUME NEW i \in DOMAIN a.sent, NEW j \in DOMAIN a.sent, i < j PROVE a.sent[i].seq < a.sent[j].seq
    OBVIOUS
  <2>1. PICK s : s = a.sent[i].seq
    OBVIOUS
  <2>2. PICK t : t = a.sent[j].seq
    OBVIOUS
  <2>3. Drawn(Draw(nextSeq), s) /\ Drawn(Draw(nextSeq), t) /\ Draw(s) < Draw(t)
    BY <1>1, <1>3, <2>1, <2>2 DEF Rising
  <2>4. s = FirstSeq + Draw(s) /\ t = FirstSeq + Draw(t) /\ Draw(s) \in Nat /\ Draw(t) \in Nat
    <3>1. s \in Seqs /\ t \in Seqs
      BY <2>3 DEF Drawn
    <3> QED BY <2>3, <3>1, NumbersAre, DrawIs, SpaceType
  <2> QED BY <1>5, <2>1, <2>2, <2>3, <2>4
<1>7. \A i, j \in DOMAIN a.retry : i < j => a.retry[i] < a.retry[j]
  <2> SUFFICES ASSUME NEW i \in DOMAIN a.retry, NEW j \in DOMAIN a.retry, i < j PROVE a.retry[i] < a.retry[j]
    OBVIOUS
  <2>1. PICK s : s = a.retry[i]
    OBVIOUS
  <2>2. PICK t : t = a.retry[j]
    OBVIOUS
  <2>3. Drawn(Draw(nextSeq), s) /\ Drawn(Draw(nextSeq), t) /\ Draw(s) < Draw(t)
    BY <1>1, <1>4, <2>1, <2>2 DEF RisingSeqs
  <2>4. s = FirstSeq + Draw(s) /\ t = FirstSeq + Draw(t) /\ Draw(s) \in Nat /\ Draw(t) \in Nat
    <3>1. s \in Seqs /\ t \in Seqs
      BY <2>3 DEF Drawn
    <3> QED BY <2>3, <3>1, NumbersAre, DrawIs, SpaceType
  <2> QED BY <1>5, <2>1, <2>2, <2>3, <2>4
<1>8. Low(SeqsOf(a.sent), nextSeq) /\ Low(ToSet(a.retry), nextSeq)
  BY <1>3, <1>4, NumbersAre DEF Low, SeqsOf, ToSet
<1>9. ToSet(a.retry) \subseteq SeqsOf(a.sent)
  BY DEF Ordered, InSent, ToSet, SeqsOf
<1>10. a.start \in Nat
  BY <1>2, SpaceType DEF Seqs
<1> QED BY <1>2, <1>6, <1>7, <1>8, <1>9, <1>10

(* Pairs of a number and a packet, both naturals.                          *)
LEMMA NaturalWay ==
  ASSUME FirstHalf, OrderInv
  PROVE  Natural(Way) /\ \A x \in Way : x[2] \in Packet
<1>1. Packet \subseteq Nat
  BY SpaceType
<1>2. ASSUME NEW items \in Seq(Item), NEW x \in PairsOf(items) PROVE x[2] \in Packet
  <2>1. PICK i \in DOMAIN items : x = <<items[i].seq, items[i].packet>>
    BY <1>2 DEF PairsOf
  <2>2. items[i] \in Item
    BY <1>2
  <2> QED BY <2>1, <2>2 DEF Item
<1>3. ba.sent \in Seq(Item) /\ rx.buffer \in Seq(Item)
  <2>1. ba.sent \in Seq(Item)
    BY SentRises DEF OrderInv, WindowInv
  <2>2. Recipient \in Recv
    BY DEF OrderInv, RecipientInv, RecInv, Known
  <2> QED BY <2>1, <2>2, RecvIs, RecipientIs
<1>4. ASSUME NEW f \in {cur, air}, NEW x \in FramePairs(f) PROVE x[2] \in Packet
  <2>1. f \in Frame
    BY DEF OrderInv, FrameInv
  <2>2. f.kind = "data" /\ x = <<f.item.seq, f.item.packet>>
    BY <1>4 DEF FramePairs
  <2> QED BY <2>1, <2>2, FrameHas DEF Item
<1>5. \A x \in Way : x[2] \in Packet
  BY <1>2, <1>3, <1>4 DEF Way
<1> QED BY <1>1, <1>5, PairsLow DEF Natural

(* Of packets in order, what comes after a young one is young.             *)
LEMMA FreshUp ==
  ASSUME FirstHalf, OrderInv, Ranked(Way), NEW items, PairsOf(items) \subseteq Way,
         NEW s \in Fresh(items), NEW t \in SeqsOf(items), s <= t
  PROVE  t \in Fresh(items)
<1>1. PICK i \in DOMAIN items : s = items[i].seq /\ items[i].packet > expired
  BY DEF Fresh
<1>2. PICK j \in DOMAIN items : t = items[j].seq
  BY DEF SeqsOf
<1>3. PICK x : x = <<items[i].seq, items[i].packet>>
  OBVIOUS
<1>4. PICK y : y = <<items[j].seq, items[j].packet>>
  OBVIOUS
<1>5. x \in Way /\ y \in Way /\ x[1] = s /\ y[1] = t /\ x[2] = items[i].packet /\ y[2] = items[j].packet
  BY <1>1, <1>2, <1>3, <1>4 DEF PairsOf
<1>6. x[2] \in Nat /\ y[2] \in Nat /\ s \in Nat /\ t \in Nat /\ expired \in Nat
  <2>1. expired \in Nat
    BY DEF OrderInv, WindowInv, Numbered
  <2> QED BY <1>5, <2>1, NaturalWay DEF Natural
<1>7. CASE s = t
  BY <1>7
<1>8. CASE s < t
  <2>1. x[2] < y[2]
    BY <1>5, <1>8 DEF Ranked
  <2>2. items[j].packet > expired
    BY <1>1, <1>5, <1>6, <2>1
  <2> QED BY <1>2, <2>2 DEF Fresh
<1> QED BY <1>6, <1>7, <1>8

(* c is ba without what is too old to be sent again.                       *)
Tidy(c) ==
  /\ c.state = ba.state /\ c.bars = ba.bars /\ Fresh(c.sent) = Young
  /\ SeqsOf(c.sent) \subseteq Sent /\ PairsOf(c.sent) \subseteq PairsOf(ba.sent)
  /\ ToSet(c.retry) = Waiting \cap Young
  /\ Young # {} => SeqsOf(c.sent) = Young /\ c.start \in Young
  /\ c.start \in Nat /\ ba.start <= c.start /\ c.start <= nextSeq /\ \A s \in SeqsOf(c.sent) : c.start <= s
  /\ ba.sent = <<>> => c = ba

(* Items of a list have numbers and packets of that list.                  *)
LEMMA AmongItems ==
  ASSUME NEW s, NEW t, Among(t, s)
  PROVE  PairsOf(t) \subseteq PairsOf(s) /\ SeqsOf(t) \subseteq SeqsOf(s) /\ Fresh(t) \subseteq Fresh(s)
<1>1. PairsOf(t) \subseteq PairsOf(s)
  BY DEF PairsOf, Among
<1>2. SeqsOf(t) \subseteq SeqsOf(s)
  BY DEF SeqsOf, Among
<1>3. Fresh(t) \subseteq Fresh(s)
  <2> SUFFICES ASSUME NEW i \in DOMAIN t, t[i].packet > expired PROVE t[i].seq \in Fresh(s)
    BY DEF Fresh
  <2>1. PICK j \in DOMAIN s : t[i] = s[j]
    BY DEF Among
  <2> QED BY <2>1 DEF Fresh
<1> QED BY <1>1, <1>2, <1>3

(* What CleanupBuffers leaves, from what the other proofs know of it.      *)
LEMMA TidyIs ==
  ASSUME FirstHalf, OrderInv, Ranked(Way), ba.start <= nextSeq, \A s \in Sent : ba.start <= s,
         NEW c, Ordered(c, Draw(nextSeq)), Less(c, ba), Tidied(ba, c)
  PROVE  Tidy(c)
<1>1. c.state = ba.state /\ c.bars = ba.bars /\ Among(c.sent, ba.sent) /\ Among(c.retry, ba.retry)
  BY DEF Less
<1>2. /\ PairsOf(c.sent) \subseteq PairsOf(ba.sent) /\ SeqsOf(c.sent) \subseteq Sent /\ Fresh(c.sent) = Young
  BY <1>1, AmongItems DEF Tidied, Young, Sent
<1>3. /\ Low(SeqsOf(c.sent), nextSeq) /\ ToSet(c.retry) \subseteq SeqsOf(c.sent) /\ c.start \in Nat
      /\ Low(Sent, nextSeq) /\ Waiting \subseteq Sent /\ ba.start \in Nat /\ nextSeq \in Nat /\ FirstSeq \in Nat
  <2>1. Ordered(ba, Draw(nextSeq))
    BY DEF OrderInv, WindowInv
  <2> QED BY <2>1, SentRises, NumbersAre, HalfIs DEF Sent, Waiting
<1>4. PairsOf(c.sent) \subseteq Way
  BY <1>2 DEF Way
<1>5. CASE ba.sent = <<>>
  <2>1. c = ba /\ Sent = {} /\ Young = {} /\ Waiting = {}
    BY <1>3, <1>5 DEF Tidied, Sent, SeqsOf, Young, Fresh
  <2> QED BY <1>1, <1>2, <1>3, <2>1 DEF Tidy, Waiting
<1>6. CASE ba.sent # <<>>
  <2>1. c.start \in SeqsOf(c.sent) /\ \A j \in DOMAIN c.sent : Draw(c.start) <= Draw(c.sent[j].seq)
    BY <1>6 DEF Tidied
  <2>2. \A s \in SeqsOf(c.sent) : s = FirstSeq + Draw(s) /\ Draw(s) \in Nat
    <3> TAKE s \in SeqsOf(c.sent)
    <3>1. PICK i \in DOMAIN c.sent : s = c.sent[i].seq
      BY DEF SeqsOf
    <3>2. s \in Seqs /\ Draw(s) < Draw(nextSeq)
      BY <1>3, <3>1 DEF Ordered, Rising, Low
    <3> QED BY <3>2, NumbersAre, DrawIs, SpaceType DEF Drawn
  <2>3. \A s \in SeqsOf(c.sent) : c.start <= s
    <3> TAKE s \in SeqsOf(c.sent)
    <3>1. Draw(c.start) <= Draw(s)
      BY <2>1 DEF SeqsOf
    <3>2. PICK d : d = Draw(c.start)
      OBVIOUS
    <3>3. PICK e : e = Draw(s)
      OBVIOUS
    <3>4. PICK k : k = c.start
      OBVIOUS
    <3>5. k = FirstSeq + d /\ s = FirstSeq + e /\ d \in Nat /\ e \in Nat /\ d <= e
      BY <2>1, <2>2, <3>1, <3>2, <3>3, <3>4
    <3> QED BY <1>3, <3>4, <3>5
  <2>4. ba.start <= c.start /\ c.start <= nextSeq
    <3>1. c.start \in Sent /\ c.start < nextSeq
      BY <1>2, <1>3, <2>1 DEF Low
    <3>2. ba.start <= c.start
      BY <3>1
    <3> QED BY <1>3, <3>1, <3>2
  <2>5. Young # {} \/ c.retry # <<>> => c.start \in Young
    BY <1>2, <1>6 DEF Tidied, Young
  <2>6. c.start \in Young => SeqsOf(c.sent) \subseteq Young
    BY <1>2, <1>4, <2>3, FreshUp
  <2>7. Young \subseteq SeqsOf(c.sent)
    BY <1>2 DEF Fresh, SeqsOf
  <2>8. ToSet(c.retry) \subseteq Waiting \cap Young
    <3> SUFFICES ASSUME NEW s \in ToSet(c.retry) PROVE s \in Waiting /\ s \in Young
      OBVIOUS
    <3>1. c.retry # <<>>
      BY DEF ToSet
    <3>2. s \in Waiting
      BY <1>1 DEF Among, ToSet, Waiting
    <3> QED BY <1>3, <2>5, <2>6, <3>1, <3>2
  <2>9. Waiting \cap Young \subseteq ToSet(c.retry)
    BY DEF Tidied, Waiting, Young, ToSet
  <2>10. ToSet(c.retry) = Waiting \cap Young
    BY <2>8, <2>9
  <2>11. Young # {} => SeqsOf(c.sent) = Young /\ c.start \in Young
    BY <2>5, <2>6, <2>7
  <2> QED BY <1>1, <1>2, <1>3, <1>6, <2>3, <2>4, <2>10, <2>11 DEF Tidy
<1> QED BY <1>5, <1>6

(* GetNextPacket leaves a tidy agreement: its retries are not old.         *)
LEMMA PreparedTidy ==
  ASSUME FirstHalf, OrderInv, PacketOrder, WindowOrder
  PROVE  Tidy(Prepared) /\ Ordered(Prepared, Draw(nextSeq))
<1>1. HalfTheNumbers /\ WindowInv
  BY HalfSuffices DEF OrderInv
<1>2. Ordered(Prepared, Draw(nextSeq)) /\ Less(Prepared, ba) /\ Tidied(ba, Prepared)
  BY <1>1, PreparedWindow
<1> QED BY <1>2, TidyIs DEF PacketOrder, WindowOrder

(* So does CleanupBuffers alone.                                           *)
LEMMA CleanupTidy ==
  ASSUME FirstHalf, OrderInv, PacketOrder, WindowOrder
  PROVE  Tidy(Cleanup(ba)) /\ Ordered(Cleanup(ba), Draw(nextSeq))
<1>1. Ordered(ba, Draw(nextSeq)) /\ expired \in Nat /\ Draw(nextSeq) \in Nat
  BY NumbersAre DEF OrderInv, WindowInv, Numbered
<1>2. Ordered(Cleanup(ba), Draw(nextSeq)) /\ Less(Cleanup(ba), ba) /\ Tidied(ba, Cleanup(ba))
  BY <1>1, CleanupOrdered
<1> QED BY <1>2, TidyIs DEF PacketOrder, WindowOrder

(* What is said by NotifyMpduTransmission, which changes nothing else.     *)
LEMMA TransmissionIs ==
  ASSUME NEW a \in Agreement, a.bars = <<>>, NEW next, NEW rest, NEW b, b = NotifyMpduTransmission(a, next, rest)
  PROVE  /\ b.start = a.start /\ b.sent = a.sent /\ b.retry = a.retry /\ b.state = a.state
         /\ LET s == IF a.retry # <<>> THEN a.retry[1] ELSE next IN
            IF Dist(s, a.start) >= Window \/ (a.retry = <<>> /\ rest = <<>>) THEN b.bars = <<a.start>> ELSE b.bars = <<>>
<1>1. PICK s : s = IF a.retry # <<>> THEN a.retry[1] ELSE next
  OBVIOUS
<1>2. DOMAIN a = DOMAIN NoAgreement /\ a.needBar = FALSE
  BY AgreementIs
<1>3. CASE Dist(s, a.start) >= Window \/ (a.retry = <<>> /\ rest = <<>>)
  <2>1. b = [a EXCEPT !.needBar = FALSE, !.bars = Append(@, a.start)]
    BY <1>1, <1>2, <1>3 DEF NotifyMpduTransmission
  <2>2. Append(<<>>, a.start) = <<a.start>>
    OBVIOUS
  <2> QED BY <1>1, <1>2, <1>3, <2>1, <2>2 DEF NoAgreement
<1>4. CASE ~(Dist(s, a.start) >= Window \/ (a.retry = <<>> /\ rest = <<>>))
  <2>1. b = [a EXCEPT !.needBar = (a.needBar \/ Dist(s, a.start) >= Window)]
    BY <1>1, <1>2, <1>4 DEF NotifyMpduTransmission
  <2> QED BY <1>1, <1>2, <1>4, <2>1 DEF NoAgreement
<1> QED BY <1>3, <1>4

(* What the numbers of both sides are, in any state.                       *)
Typed ==
  /\ nextSeq \in 0..Half /\ nextSeq \in Nat /\ Half \in Nat /\ SeqSpace \in Nat /\ Half <= SeqSpace
  /\ Window \in Nat /\ Window >= 1 /\ Window <= Half /\ 2 * Half <= SeqSpace
  /\ Low(Sent, nextSeq) /\ Low(Young, nextSeq) /\ Low(Waiting, nextSeq) /\ Low(Flying, nextSeq)
  /\ Low(Buffered, nextSeq) /\ Low(rx.bitmap, nextSeq)
  /\ (lastSeq = SeqSpace \/ (lastSeq \in Nat /\ lastSeq < nextSeq /\ lastSeq \in Early))
  /\ Young \subseteq Sent /\ Waiting \subseteq Sent
  /\ ba.start \in Nat /\ rx.start \in Nat /\ rx.winStart \in Nat /\ Asks \subseteq Nat
  /\ Natural(Way) /\ up \in Seq(Packet) /\ queue \in Seq(Packet) /\ expired \in Nat /\ offered \in Nat

(* They follow from the invariant of the records.                          *)
LEMMA TypedIs == FirstHalf /\ OrderInv => Typed
<1> SUFFICES ASSUME FirstHalf, OrderInv PROVE Typed
  OBVIOUS
<1>1. /\ nextSeq \in 0..Half /\ nextSeq \in Nat /\ Half \in Nat /\ SeqSpace \in Nat /\ Half <= SeqSpace
      /\ Window \in Nat /\ Window >= 1 /\ Window <= Half /\ 2 * Half <= SeqSpace
  BY NumbersAre, HalfIs
<1>2. /\ Low(Sent, nextSeq) /\ Low(Young, nextSeq) /\ Low(Waiting, nextSeq) /\ Low(Flying, nextSeq)
      /\ Low(Buffered, nextSeq) /\ Low(rx.bitmap, nextSeq)
      /\ (lastSeq = SeqSpace \/ (lastSeq \in Nat /\ lastSeq < nextSeq /\ lastSeq \in Early))
  BY PairsLow
<1>3. Ordered(ba, Draw(nextSeq)) /\ FrameInv /\ RecInv(Way, Recipient, Bits, Draw(nextSeq)) /\ Numbered
  BY DEF OrderInv, WindowInv, RecipientInv
<1>4. Young \subseteq Sent /\ Waiting \subseteq Sent /\ ba.start \in Nat
  BY <1>3, SentRises DEF Young, Fresh, Sent, SeqsOf, Waiting
<1>5. Recipient \in Recv
  BY <1>3 DEF RecInv, Known
<1>6. rx.start \in Seqs /\ rx.winStart \in Seqs /\ up \in Seq(Packet)
  BY <1>5, RecvIs, RecipientIs
<1>7. rx.start \in Nat /\ rx.winStart \in Nat
  BY <1>6, SpaceType DEF Seqs
<1>8. Asks \subseteq Nat
  <2>1. ba.bars \in Seq(Seqs) /\ cur \in Frame
    BY <1>3, AgreementIs DEF Ordered, FrameInv
  <2>2. Seqs \subseteq Nat
    BY SpaceType DEF Seqs
  <2>3. cur.kind = "bar" => cur.start \in Seqs
    BY <2>1, FrameHas
  <2>4. ToSet(ba.bars) \subseteq Seqs
    BY <2>1 DEF ToSet
  <2> QED BY <2>2, <2>3, <2>4 DEF Asks
<1>9. queue \in Seq(Packet) /\ expired \in Nat /\ offered \in Nat
  BY <1>3, SpaceType DEF Numbered
<1> QED BY <1>1, <1>2, <1>4, <1>6, <1>7, <1>8, <1>9, NaturalWay DEF Typed

-----------------------------------------------------------------------------
(* Steps of the originator, steps that lose, and steps that only answer.   *)
Alone ==
  \/ Queue \/ Expire \/ Lose
  \/ Resend \/ SendBlockAckRequest \/ SendRetry \/ SendDelba \/ SetupBlockAck \/ SendNothing \/ EndTxNoAck
  \/ SendReply \/ ReceiveAddBaResponse \/ GotDelBaFrame \/ GotBlockAck \/ GotAck
  \/ (ReplyGotAck /\ rcur.kind # "delba")
  \/ MissedAck \/ ReplyMissedAck \/ MissedBlockAck
  \/ \E side \in {"originator", "recipient"} : InactivityTimeout(side)

(* Such a step leaves the recipient alone and puts nothing on the way.     *)
LEMMA AloneIs ==
  ASSUME FirstHalf, OrderInv, Next, ~SendFirst, Alone
  PROVE  UNCHANGED <<rx, up, lastSeq, nextSeq>> /\ Way' \subseteq Way
<1>1. UNCHANGED <<rx, up, lastSeq>>
  BY DEF Alone, Queue, Expire, Lose, Resend, SendBlockAckRequest, SendRetry, SendDelba,
         SetupBlockAck, SendNothing, EndTxNoAck, SendReply, ReceiveAddBaResponse, GotDelBaFrame, GotBlockAck,
         GotAck, ReplyGotAck, MissedAck, ReplyMissedAck, MissedBlockAck, InactivityTimeout,
         NothingElseSent, receiver
<1>2. HalfTheNumbers
  BY HalfSuffices
<1>3. nextSeq' = nextSeq
  BY <1>2, QuietSteps DEF OrderInv, Quiet
<1>4. Way' \subseteq Way
  BY <1>2, AloneSteps DEF OrderInv, Alone
<1> QED BY <1>1, <1>3, <1>4, SMTT(30)

(* A packet that leaves the queue gets the next number, below the half.    *)
LEMMA FirstIs ==
  ASSUME FirstHalf, OrderInv, SendFirst
  PROVE  /\ UNCHANGED <<rx, up, lastSeq>> /\ Way' \subseteq Way \cup {<<nextSeq, Head(queue)>>}
         /\ nextSeq' = nextSeq + 1 /\ nextSeq < Half /\ nextSeq' \in Seqs /\ Plus(nextSeq, 1) = nextSeq + 1
         /\ Draw(nextSeq) < Cardinality(Packet)
<1>1. HalfTheNumbers
  BY HalfSuffices
<1>2. UNCHANGED <<rx, up, lastSeq>> /\ nextSeq' = Plus(nextSeq, 1) /\ queue # <<>>
  BY DEF SendFirst, NothingElseSent, receiver, HasData
<1>3. Way' \subseteq Way \cup {<<nextSeq, Head(queue)>>}
  BY <1>1, FirstWay DEF OrderInv
<1>4. Numbered /\ nextSeq = FirstSeq + Draw(nextSeq) /\ Draw(nextSeq) \in Nat /\ nextSeq \in Seqs
  BY NumbersAre DEF OrderInv, WindowInv, Numbered
<1>5. Draw(nextSeq) < Cardinality(Packet)
  BY <1>2, <1>4, NumberedIs
<1>6. nextSeq < Half /\ nextSeq \in Nat /\ Half \in Nat /\ 2 * Half <= SeqSpace /\ SeqSpace \in Nat
  BY <1>4, <1>5, HalfIs DEF FirstHalf
<1>7. Plus(nextSeq, 1) = nextSeq + 1 /\ nextSeq + 1 \in Seqs
  <2>1. 1 \in 0..SeqSpace /\ nextSeq + 1 < SeqSpace
    BY <1>6
  <2>2. Plus(nextSeq, 1) = IF nextSeq + 1 < SeqSpace THEN nextSeq + 1 ELSE nextSeq + 1 - SeqSpace
    BY <1>4, <2>1, PlusIs
  <2> QED BY <1>6, <2>1, <2>2 DEF Seqs
<1> QED BY <1>2, <1>3, <1>5, <1>6, <1>7

-----------------------------------------------------------------------------
(* Packets.                                                                *)

(* Packets stay in order when nothing enters the queue or the way.         *)
LEMMA SamePackets ==
  ASSUME PacketOrder, UNCHANGED <<queue, offered, expired>>, Way' \subseteq Way, Told' \subseteq Told
  PROVE  PacketOrder'
<1>1. QueueOrder'
  BY DEF PacketOrder, QueueOrder
<1>2. ToldOrder'
  BY DEF PacketOrder, ToldOrder
<1>3. Ranked(Way)'
  BY DEF PacketOrder, Ranked
<1> QED BY <1>1, <1>2, <1>3 DEF PacketOrder

(* Nor does what was told grow then.                                       *)
LEMMA LessTold ==
  ASSUME Way' \subseteq Way, up' = up
  PROVE  Told' \subseteq Told
  BY DEF Told

(* Packets stay in order in a step that leaves the recipient alone.        *)
LEMMA AlonePackets ==
  ASSUME FirstHalf, OrderInv, PacketOrder, Next, ~SendFirst, Alone
  PROVE  PacketOrder'
<1>1. UNCHANGED <<rx, up, lastSeq, nextSeq>> /\ Way' \subseteq Way /\ Told' \subseteq Told
  BY AloneIs, LessTold
<1>2. /\ queue \in Seq(Packet) /\ expired \in Nat /\ offered \in Nat /\ Packet \subseteq Nat /\ Natural(Way)
      /\ up \in Seq(Packet)
  BY TypedIs, SpaceType, SMTT(30) DEF Typed
<1>3. Told \subseteq Nat
  <2>1. ToSet(up) \subseteq Packet
    BY <1>2 DEF ToSet
  <2> QED BY <1>2, <2>1 DEF Told, Natural
<1>4. \A i \in DOMAIN queue : queue[i] \in Nat /\ i \in Nat /\ i >= 1
  <2>1. PICK q : q = queue /\ q \in Seq(Packet)
    BY <1>2
  <2>2. \A i \in DOMAIN q : q[i] \in Packet /\ i \in Nat /\ i >= 1
    BY <2>1
  <2> QED BY <1>2, <2>1, <2>2
<1>5. Ranked(Way)'
  BY <1>1 DEF PacketOrder, Ranked
<1>6. CASE Queue
  <2>1. offered' = offered + 1 /\ queue' = Append(queue, offered + 1) /\ expired' = expired /\ offered < Cardinality(Packet)
    BY <1>6 DEF Queue
  <2>2. DOMAIN queue' = 1..(Len(queue) + 1) /\ queue'[Len(queue) + 1] = offered + 1 /\ Len(queue) \in Nat
        /\ (\A i \in DOMAIN queue : queue'[i] = queue[i] /\ queue[i] \in Nat) /\ DOMAIN queue = 1..Len(queue)
    <3>1. PICK q : q = queue /\ q \in Seq(Packet)
      BY <1>2
    <3>2. PICK x : x = offered + 1
      OBVIOUS
    <3>3. PICK u : u = Append(q, x)
      OBVIOUS
    <3>4. DOMAIN u = 1..(Len(q) + 1) /\ u[Len(q) + 1] = x /\ Len(q) \in Nat /\ DOMAIN q = 1..Len(q)
          /\ \A i \in 1..Len(q) : u[i] = q[i]
      BY <3>1, <3>3
    <3> QED BY <1>4, <2>1, <3>1, <3>2, <3>3, <3>4
  <2>3. \A i \in DOMAIN queue' : (i \in DOMAIN queue /\ queue'[i] = queue[i]) \/ (i = Len(queue) + 1 /\ queue'[i] = offered + 1)
    BY <2>2
  <2>4. QueueOrder
    BY DEF PacketOrder
  <2>5. \A i \in DOMAIN queue : queue[i] <= offered /\ expired < queue[i] /\ queue[i] \in Nat
    BY <2>2, <2>4 DEF QueueOrder
  <2>6. \A i \in DOMAIN queue' : queue'[i] <= offered' /\ expired' < queue'[i]
    <3> TAKE i \in DOMAIN queue'
    <3>1. CASE i \in DOMAIN queue /\ queue'[i] = queue[i]
      BY <1>2, <2>1, <2>5, <3>1
    <3>2. CASE queue'[i] = offered + 1
      BY <1>2, <2>1, <2>4, <3>2 DEF QueueOrder
    <3> QED BY <2>3, <3>1, <3>2
  <2>7. ASSUME NEW i \in DOMAIN queue', NEW j \in DOMAIN queue', i < j PROVE queue'[i] < queue'[j]
    <3>1. i \in DOMAIN queue /\ queue'[i] = queue[i]
      BY <2>2, <2>7
    <3>2. CASE j \in DOMAIN queue
      BY <2>2, <2>4, <2>7, <3>1, <3>2 DEF QueueOrder
    <3>3. CASE queue'[j] = offered + 1
      BY <1>2, <2>5, <3>1, <3>3
    <3> QED BY <2>3, <3>2, <3>3
  <2>8. expired' <= offered'
    BY <1>2, <2>1, <2>4 DEF QueueOrder
  <2>9. QueueOrder'
    BY <2>6, <2>7, <2>8 DEF QueueOrder
  <2>10. ToldOrder'
    <3> SUFFICES ASSUME NEW p \in Told' PROVE p <= offered' /\ \A i \in DOMAIN queue' : p < queue'[i]
      BY DEF ToldOrder
    <3>1. p \in Told /\ p \in Nat /\ p <= offered /\ \A i \in DOMAIN queue : p < queue[i]
      BY <1>1, <1>3 DEF PacketOrder, ToldOrder
    <3>2. \A i \in DOMAIN queue' : p < queue'[i]
      BY <1>2, <2>3, <3>1
    <3> QED BY <1>2, <2>1, <3>1, <3>2
  <2> QED BY <1>5, <2>9, <2>10 DEF PacketOrder
<1>7. CASE Expire
  <2>1. expired' = expired + 1 /\ offered' = offered /\ expired < offered
        /\ IF queue # <<>> /\ Head(queue) = expired + 1 THEN queue' = Tail(queue) ELSE queue' = queue
    BY <1>7 DEF Expire
  <2>2. QueueOrder /\ ToldOrder
    BY DEF PacketOrder
  <2>3. \A i \in DOMAIN queue' : \E j \in DOMAIN queue : queue'[i] = queue[j] /\ expired' < queue[j]
    <3> TAKE i \in DOMAIN queue'
    <3>1. CASE queue # <<>> /\ Head(queue) = expired + 1
      <4>1. i + 1 \in DOMAIN queue /\ queue'[i] = queue[i + 1] /\ 1 \in DOMAIN queue /\ queue[1] = expired + 1 /\ i \in Nat /\ i >= 1
        <5>1. PICK q : q = queue /\ q \in Seq(Packet) /\ q # <<>>
          BY <1>2, <3>1
        <5>2. /\ \A k \in DOMAIN Tail(q) : k + 1 \in DOMAIN q /\ Tail(q)[k] = q[k + 1]
              /\ 1 \in DOMAIN q /\ Head(q) = q[1] /\ Tail(q) \in Seq(Packet)
          BY <5>1, Rest
        <5>3. PICK t : t = Tail(q) /\ t \in Seq(Packet) /\ queue' = t
          BY <2>1, <3>1, <5>1, <5>2
        <5>4. i \in Nat /\ i >= 1
          BY <5>3
        <5> QED BY <3>1, <5>1, <5>2, <5>3, <5>4
      <4>2. queue[1] < queue[i + 1]
        BY <2>2, <4>1 DEF QueueOrder
      <4> QED BY <1>2, <2>1, <4>1, <4>2
    <3>2. CASE ~(queue # <<>> /\ Head(queue) = expired + 1)
      <4>1. i \in DOMAIN queue /\ queue'[i] = queue[i] /\ queue # <<>> /\ expired < queue[i] /\ queue[i] \in Nat
        <5>1. i \in DOMAIN queue /\ queue' = queue
          BY <2>1, <3>2
        <5>2. queue # <<>>
          BY <5>1
        <5> QED BY <1>4, <2>2, <5>1, <5>2 DEF QueueOrder
      <4>2. 1 \in DOMAIN queue /\ queue[1] # expired + 1 /\ expired < queue[1] /\ queue[1] \in Nat
        <5>1. PICK q : q = queue /\ q \in Seq(Packet) /\ q # <<>>
          BY <1>2, <4>1
        <5>2. 1 \in DOMAIN q /\ Head(q) = q[1]
          BY <5>1, Rest
        <5>3. 1 \in DOMAIN queue /\ queue[1] # expired + 1
          BY <3>2, <4>1, <5>1, <5>2
        <5> QED BY <1>4, <2>2, <5>3 DEF QueueOrder
      <4>3. i = 1 \/ queue[1] < queue[i]
        <5>1. i \in Nat /\ i >= 1
          BY <1>4, <4>1
        <5>2. i = 1 \/ 1 < i
          BY <5>1
        <5> QED BY <2>2, <4>1, <4>2, <5>2 DEF QueueOrder
      <4> QED BY <1>2, <2>1, <4>1, <4>2, <4>3
    <3> QED BY <3>1, <3>2
  <2>4. ASSUME NEW i \in DOMAIN queue', NEW j \in DOMAIN queue', i < j PROVE queue'[i] < queue'[j]
    <3>1. CASE queue' = queue
      BY <2>2, <2>4, <3>1 DEF QueueOrder
    <3>2. CASE queue # <<>> /\ queue' = Tail(queue)
      <4>1. PICK q : q = queue /\ q \in Seq(Packet) /\ q # <<>>
        BY <1>2, <3>2
      <4>2. \A k \in DOMAIN Tail(q) : k + 1 \in DOMAIN q /\ Tail(q)[k] = q[k + 1]
        BY <4>1, Rest
      <4>3. i + 1 \in DOMAIN queue /\ j + 1 \in DOMAIN queue /\ queue'[i] = queue[i + 1] /\ queue'[j] = queue[j + 1]
        BY <3>2, <4>1, <4>2
      <4>4. Tail(q) \in Seq(Packet)
        BY <4>1, Rest
      <4>5. i \in Nat /\ j \in Nat
        <5>1. PICK t : t = Tail(q) /\ t \in Seq(Packet)
          BY <4>4
        <5>2. i \in DOMAIN t /\ j \in DOMAIN t
          BY <3>2, <4>1, <5>1
        <5> QED BY <5>1, <5>2
      <4>6. i + 1 < j + 1
        BY <2>4, <4>5
      <4> QED BY <2>2, <4>3, <4>6 DEF QueueOrder
    <3> QED BY <2>1, <3>1, <3>2
  <2>5. QueueOrder'
    <3>1. \A i \in DOMAIN queue' : queue'[i] <= offered' /\ expired' < queue'[i]
      BY <2>1, <2>2, <2>3 DEF QueueOrder
    <3>2. expired' <= offered'
      BY <1>2, <2>1
    <3> QED BY <2>4, <3>1, <3>2 DEF QueueOrder
  <2>6. ToldOrder'
    BY <1>1, <2>1, <2>2, <2>3, SMTT(30) DEF ToldOrder
  <2> QED BY <1>5, <2>5, <2>6 DEF PacketOrder
<1>8. CASE ~Queue /\ ~Expire
  <2>1. UNCHANGED <<queue, offered, expired>>
    BY <1>8 DEF Alone, Lose, Resend, SendBlockAckRequest, SendRetry, SendDelba,
         SetupBlockAck, SendNothing, EndTxNoAck, SendReply, ReceiveAddBaResponse, GotDelBaFrame, GotBlockAck,
         GotAck, ReplyGotAck, MissedAck, ReplyMissedAck, MissedBlockAck, InactivityTimeout,
         NothingElseSent, NothingElseTold, sender
  <2> QED BY <1>1, <2>1, SamePackets
<1> QED BY <1>6, <1>7, <1>8

(* The head of the queue comes after all packets that have a number.       *)
LEMMA FirstPackets ==
  ASSUME FirstHalf, OrderInv, PacketOrder, SendFirst
  PROVE  PacketOrder'
<1>1. queue' = Tail(queue) /\ queue # <<>> /\ UNCHANGED <<offered, expired>>
  BY DEF SendFirst, HasData, NothingElseSent
<1>2. PICK h : h = Head(queue)
  OBVIOUS
<1>3. up' = up /\ Way' \subseteq Way \cup {<<nextSeq, h>>}
  BY <1>2, FirstIs
<1>4. queue \in Seq(Packet) /\ Natural(Way) /\ nextSeq \in Nat /\ Packet \subseteq Nat
  BY TypedIs, SpaceType, SMTT(30) DEF Typed
<1>5. PICK q : q = queue /\ q \in Seq(Packet) /\ q # <<>>
  BY <1>1, <1>4
<1>6. PICK t : t = Tail(q) /\ t \in Seq(Packet)
  BY <1>5, Rest
<1>7. \A i \in DOMAIN t : i + 1 \in DOMAIN q /\ t[i] = q[i + 1] /\ i \in Nat /\ i >= 1
  <2>1. \A i \in DOMAIN t : i + 1 \in DOMAIN q /\ t[i] = q[i + 1]
    BY <1>5, <1>6, Rest
  <2> QED BY <1>6, <2>1
<1>8. 1 \in DOMAIN q /\ h = q[1]
  BY <1>2, <1>5, Rest
<1>9. QueueOrder /\ ToldOrder /\ Ranked(Way) /\ \A x \in Way : x[1] < nextSeq /\ x[1] \in Nat
  BY PairsLow DEF PacketOrder
<1>10. QueueOrder'
  <2>1. ASSUME NEW i \in DOMAIN t, NEW j \in DOMAIN t, i < j PROVE t[i] < t[j]
    <3>1. i + 1 < j + 1
      BY <1>7, <2>1
    <3> QED BY <1>5, <1>7, <1>9, <3>1 DEF QueueOrder
  <2>2. \A i \in DOMAIN t : t[i] <= offered /\ expired < t[i]
    BY <1>5, <1>7, <1>9 DEF QueueOrder
  <2> QED BY <1>1, <1>5, <1>6, <1>9, <2>1, <2>2 DEF QueueOrder
<1>11. h <= offered /\ \A i \in DOMAIN t : h < t[i]
  <2>1. h <= offered
    BY <1>5, <1>8, <1>9 DEF QueueOrder
  <2>2. ASSUME NEW i \in DOMAIN t PROVE h < t[i]
    <3>1. 1 < i + 1
      BY <1>7
    <3> QED BY <1>5, <1>7, <1>8, <1>9, <3>1 DEF QueueOrder
  <2> QED BY <2>1, <2>2
<1>12. ToldOrder'
  <2>1. \A p \in Told' : p \in Told \/ p = h
    BY <1>3 DEF Told
  <2>2. \A p \in Told : p <= offered /\ \A i \in DOMAIN t : p < t[i]
    BY <1>5, <1>7, <1>9 DEF ToldOrder
  <2> QED BY <1>1, <1>5, <1>6, <1>11, <2>1, <2>2 DEF ToldOrder
<1>13. Ranked(Way)'
  <2> SUFFICES ASSUME NEW x \in Way', NEW y \in Way', x[1] < y[1] PROVE x[2] < y[2]
    BY DEF Ranked
  <2>1. PICK z : z = <<nextSeq, h>>
    OBVIOUS
  <2>2. z[1] = nextSeq /\ z[2] = h /\ (x \in Way \/ x = z) /\ (y \in Way \/ y = z)
    BY <1>3, <2>1
  <2>3. CASE x \in Way /\ y \in Way
    BY <1>9, <2>3 DEF Ranked
  <2>4. CASE x \in Way /\ y = z
    <3>1. x[2] \in Told
      BY <2>4 DEF Told
    <3> QED BY <1>5, <1>8, <1>9, <2>2, <2>4, <3>1 DEF ToldOrder
  <2>5. CASE x = z
    <3>1. ~(x[1] < y[1])
      <4>1. y \in Way => y[1] \in Nat /\ y[1] < nextSeq
        BY <1>9
      <4> QED BY <1>4, <2>2, <2>5, <4>1
    <3> QED BY <3>1
  <2> QED BY <2>2, <2>3, <2>4, <2>5
<1> QED BY <1>10, <1>12, <1>13 DEF PacketOrder

(* Frames that carry neither a packet under normal acknowledgement nor a   *)
(* request for an agreement need nothing.                                  *)
LEMMA OtherFits ==
  ASSUME NEW f, NEW state, NEW sent, NEW next, f.kind \notin {"data", "addba"} \/ IsBlock(f)
  PROVE  Fits(f, state, sent, next)
  BY DEF Fits, IsNormal, IsBlock

Torn == GotDelBaFrame \/ (GotAck /\ cur.kind = "delba")

(* An agreement is made by SetupBlockAck and ends in a teardown only.      *)
LEMMA NoneState ==
  ASSUME HalfTheNumbers, WindowInv, Next, ~SendFirst, ~SetupBlockAck
  PROVE  /\ ba.state = "none" => ba'.state = "none"
         /\ ba'.state = "none" => ba.state = "none" \/ Torn
<1>1. DOMAIN ba = DOMAIN NoAgreement /\ NoAgreement.state = "none"
  BY AgreementIs, NoAgreementIs DEF WindowInv, Ordered
<1>2. CASE ba'.state = ba.state \/ (ba' = NoAgreement /\ Torn)
  BY <1>1, <1>2
<1>3. CASE SendBlockAckRequest \/ ReceiveAddBaResponse
  <2>1. ba' = ba \/ ba' = [ba EXCEPT !.bars = Tail(@)] \/ (ba.state = "pending" /\ ba' = [ba EXCEPT !.state = "established"])
    BY <1>3 DEF SendBlockAckRequest, ReceiveAddBaResponse, Established
  <2>2. ba'.state = ba.state \/ (ba.state = "pending" /\ ba'.state = "established")
    BY <1>1, <2>1 DEF NoAgreement
  <2> QED BY <2>2
<1>4. CASE SendDelba \/ SendNothing \/ MissedBlockAck
  <2>1. ba' = Prepared \/ ba' = Cleanup(ba)
    BY <1>4 DEF SendDelba, SendNothing, MissedBlockAck
  <2>2. Prepared.state = ba.state
    BY PreparedWindow DEF Less
  <2> QED BY <1>1, <1>2, <2>1, <2>2, CleanupState
<1>5. CASE SendRetry
  <2>1. PICK b : b = Prepared
    OBVIOUS
  <2>2. PICK s : s = Head(b.retry)
    OBVIOUS
  <2>3. PICK c : c = [b EXCEPT !.retry = Tail(@), !.start = IF s > Plus(@, Window - 1) THEN s ELSE @]
    OBVIOUS
  <2>4. ba' = NotifyMpduTransmission(c, nextSeq, queue)
    BY <1>5, <2>1, <2>2, <2>3 DEF SendRetry
  <2>5. Ordered(b, Draw(nextSeq)) /\ b.state = ba.state
    BY <2>1, PreparedWindow DEF Less
  <2>6. DOMAIN b = DOMAIN NoAgreement
    BY <2>5, AgreementIs DEF Ordered
  <2>7. DOMAIN c = DOMAIN NoAgreement /\ c.state = ba.state
    BY <2>3, <2>5, <2>6 DEF NoAgreement
  <2>8. ba'.state = ba.state
    BY <2>4, <2>7, TransmissionState
  <2> QED BY <2>8
<1>6. CASE GotBlockAck
  <2>1. ba' = ba \/ (ba.state = "established" /\ ba' = NotifyGotBlockAck(ba, air.acked))
    BY <1>6 DEF GotBlockAck
  <2>2. ba'.state = ba.state
    BY <1>1, <2>1, BlockAckState
  <2> QED BY <2>2
<1>7. CASE \/ Queue \/ Expire \/ Lose \/ Resend \/ EndTxNoAck \/ SendReply
           \/ ReceiveUnderBlockAck \/ ReceiveUnderNormalAck \/ ReceiveBlockAckReq
           \/ ReceiveAddBaRequest \/ ReceiveDelBa \/ GotDelBaFrame \/ GotAck \/ ReplyGotAck
           \/ MissedAck \/ ReplyMissedAck \/ \E side \in {"originator", "recipient"} : InactivityTimeout(side)
  <2>1. ba' = ba \/ (ba' = NoAgreement /\ Torn)
    BY <1>7 DEF Queue, Expire, Lose, Resend, EndTxNoAck, SendReply, ReceiveUnderBlockAck, ReceiveUnderNormalAck,
         ReceiveBlockAckReq, ReceiveAddBaRequest, ReceiveDelBa, GotDelBaFrame, GotAck, TearDownBlockAck, ReplyGotAck,
         MissedAck, ReplyMissedAck, InactivityTimeout, NothingElseReceived, sender, Torn
  <2> QED BY <1>2, <2>1
<1> QED BY <1>3, <1>4, <1>5, <1>6, <1>7 DEF Next, Originate, Receive, Timeout

(* What is in service, and what is in the air, after a step.               *)
LEMMA NextFrames ==
  ASSUME HalfTheNumbers, WindowInv, FrameInv, Next, ~SendFirst, ~SetupBlockAck
  PROVE  /\ \/ cur' = cur \/ IsBlock(cur') \/ cur'.kind \notin {"data", "addba"}
            \/ cur.kind = "data" /\ cur' = [cur EXCEPT !.item.retry = TRUE]
         /\ air' = air \/ air' = cur' \/ air'.kind \notin {"data", "addba"}
<1>1. CASE SendRetry
  <2>1. IsBlock(cur') /\ air' = cur'
    BY <1>1, Kinds, SMTT(30) DEF SendRetry, Transmit, IsBlock
  <2> QED BY <2>1
<1>2. CASE ~SendRetry
  <2>1. \/ cur' = cur \/ cur' = NoFrame \/ cur' = Management("delba") \/ (\E s : cur' = BarFrame(s))
        \/ cur.kind = "data" /\ cur' = [cur EXCEPT !.item.retry = TRUE]
    BY <1>2 DEF Next, Originate, Receive, Timeout, Queue, Expire, Lose, Resend, SendBlockAckRequest, SendDelba,
           SendNothing, EndTxNoAck, SendReply, ReceiveUnderBlockAck, ReceiveUnderNormalAck,
           ReceiveBlockAckReq, ReceiveAddBaRequest, ReceiveDelBa, ReceiveAddBaResponse, GotDelBaFrame, GotBlockAck,
           GotAck, ReplyGotAck, MissedAck, ReplyMissedAck, MissedBlockAck, InactivityTimeout,
           NothingElseSent, NothingElseReceived, NothingElseTold, Transmit, sender
  <2>2. \/ cur' = cur \/ cur'.kind \notin {"data", "addba"}
        \/ cur.kind = "data" /\ cur' = [cur EXCEPT !.item.retry = TRUE]
    BY <2>1, Kinds
  <2>3. \/ air' = air \/ air' = cur' \/ air' = NoFrame \/ air' = Management("ack") \/ (SendReply /\ air' = rcur')
        \/ \E s, acked : air' = BaFrame(s, acked)
    BY <1>2 DEF Next, Originate, Receive, Timeout, Queue, Expire, Lose, Resend, SendBlockAckRequest, SendDelba,
           SetupBlockAck, SendNothing, EndTxNoAck, SendReply, ReceiveUnderBlockAck, ReceiveUnderNormalAck,
           ReceiveBlockAckReq, ReceiveAddBaRequest, ReceiveDelBa, ReceiveAddBaResponse, GotDelBaFrame, GotBlockAck,
           GotAck, ReplyGotAck, MissedAck, ReplyMissedAck, MissedBlockAck, InactivityTimeout,
           Answered, TimedOut, Transmit, medium, BaFrame
  <2>4. SendReply => rcur'.kind \notin {"data", "addba"}
    <3>1. SUFFICES ASSUME SendReply PROVE rcur'.kind \notin {"data", "addba"}
      OBVIOUS
    <3>2. rcur' = rcur \/ (replies # <<>> /\ rcur' = Management(Head(replies)))
      BY <3>1 DEF SendReply
    <3>3. replies # <<>> => Head(replies) \in {"resp", "delba"}
      <4>1. replies \in Seq({"resp", "delba"})
        BY DEF WindowInv, PacketInv, Serving
      <4> QED BY <4>1, Rest
    <3> QED BY <3>2, <3>3, Kinds DEF FrameInv
  <2>5. \A s, acked : BaFrame(s, acked).kind = "ba"
    BY DEF BaFrame
  <2>6. air' = air \/ air' = cur' \/ air'.kind \notin {"data", "addba"}
    BY <2>3, <2>4, <2>5, Kinds
  <2> QED BY <2>2, <2>6
<1> QED BY <1>1, <1>2

(* What a frame in service needs stays true while it is in service.        *)
LEMMA FitsStep ==
  ASSUME HalfTheNumbers, WindowInv, FrameInv, Next, ~SendFirst, ~SetupBlockAck,
         Fits(cur, ba.state, ba.sent, nextSeq), Fits(air, ba.state, ba.sent, nextSeq)
  PROVE  Fits(cur, ba.state, ba.sent, nextSeq)' /\ Fits(air, ba.state, ba.sent, nextSeq)'
<1>1. nextSeq' = nextSeq /\ (ba.state = "none" => ba'.state = "none")
  BY QuietSteps, NoneState DEF Quiet
<1>2. ba.sent = <<>> => ba'.sent = <<>>
  <2>1. SUFFICES ASSUME ba.sent = <<>> PROVE ba'.sent = <<>>
    OBVIOUS
  <2>2. PairsOf(ba'.sent) = {}
    BY <2>1, SentShrinks DEF PairsOf
  <2>3. ba'.sent \in Seq(Item)
    <3>1. WindowInv'
      BY WindowStep
    <3> QED BY <3>1, AgreementIs DEF WindowInv, Ordered
  <2>4. PICK t : t = ba'.sent /\ t \in Seq(Item)
    BY <2>3
  <2>5. ASSUME t # <<>> PROVE FALSE
    <3>1. 1 \in DOMAIN t
      BY <2>4, <2>5, Rest
    <3>2. <<t[1].seq, t[1].packet>> \in PairsOf(t)
      BY <3>1 DEF PairsOf
    <3> QED BY <2>2, <2>4, <3>2
  <2> QED BY <2>4, <2>5
<1>3. ASSUME NEW f, Fits(f, ba.state, ba.sent, nextSeq) PROVE Fits(f, ba'.state, ba'.sent, nextSeq')
  BY <1>1, <1>2, <1>3 DEF Fits
<1>4. Fits(cur', ba'.state, ba'.sent, nextSeq')
  <2>1. CASE cur.kind = "data" /\ cur' = [cur EXCEPT !.item.retry = TRUE]
    <3>1. cur \in Frame
      BY DEF FrameInv
    <3>2. cur = DataFrame(cur.item, cur.policy) /\ cur.item \in Item
      BY <2>1, <3>1, FrameHas
    <3>3. cur'.policy = cur.policy /\ cur'.kind = "data" /\ cur'.item.seq = cur.item.seq
      BY <2>1, <3>2 DEF DataFrame, Item
    <3> QED BY <1>1, <2>1, <3>3 DEF Fits, IsNormal
  <2> QED BY <1>3, <2>1, NextFrames, OtherFits
<1>5. Fits(air', ba'.state, ba'.sent, nextSeq')
  BY <1>3, <1>4, NextFrames, OtherFits
<1> QED BY <1>4, <1>5

(* MacLow waits for what the frame in service calls for.                   *)
LEMMA ServesStep ==
  ASSUME HalfTheNumbers, WindowInv, FrameInv, Next, Serves
  PROVE  Serves'
<1>1. DOMAIN ba = DOMAIN NoAgreement /\ NoAgreement.state = "none" /\ Framed(cur) /\ (low = "blockack" => cur.kind = "bar")
  BY AgreementIs, NoAgreementIs DEF WindowInv, Ordered, PacketInv, AgreementInv, Records, Serving
<1>2. (low' \in {"ack", "noack"} => cur'.kind # "bar") /\ (IsBlock(cur)' => low' = "noack")
  <2>1. CASE Resend
    BY <2>1 DEF Resend, Transmit, MediumIdle, Serves, IsBlock
  <2>2. CASE SendBlockAckRequest \/ SendRetry \/ SendDelba \/ SetupBlockAck \/ SendFirst
    BY <2>2, Kinds DEF SendBlockAckRequest, SendRetry, SendDelba, SetupBlockAck, SendFirst, Transmit, IsBlock
  <2>3. CASE EndTxNoAck \/ GotBlockAck \/ GotAck
    <3>1. cur' = NoFrame
      BY <2>3 DEF EndTxNoAck, GotBlockAck, GotAck
    <3> QED BY <3>1, Kinds DEF IsBlock
  <2>4. CASE SendReply \/ ReplyGotAck \/ ReplyMissedAck
    <3>1. cur' = cur /\ low # "noack" /\ low' \in {"rack", "idle"}
      BY <2>4 DEF SendReply, MediumIdle, ReplyGotAck, ReplyMissedAck, Answered, TimedOut, sender
    <3> QED BY <3>1 DEF Serves, IsBlock
  <2>5. CASE MissedAck \/ MissedBlockAck
    <3>1. low # "noack" /\ low' = "idle"
          /\ (cur' = cur \/ cur' = NoFrame \/ (cur.kind = "data" /\ cur' = [cur EXCEPT !.item.retry = TRUE]))
      BY <2>5 DEF MissedAck, MissedBlockAck, TimedOut
    <3>2. ~IsBlock(cur)
      BY <3>1 DEF Serves
    <3>3. ~IsBlock(cur')
      <4>1. CASE cur.kind = "data" /\ cur' = [cur EXCEPT !.item.retry = TRUE]
        <5>1. cur = DataFrame(cur.item, cur.policy)
          BY <4>1, FrameHas DEF FrameInv
        <5> QED BY <3>2, <4>1, <5>1 DEF IsBlock, DataFrame
      <4> QED BY <3>1, <3>2, <4>1, Kinds DEF IsBlock
    <3> QED BY <3>1, <3>3 DEF IsBlock
  <2>6. CASE \/ Queue \/ Expire \/ Lose \/ SendNothing
             \/ ReceiveUnderBlockAck \/ ReceiveUnderNormalAck \/ ReceiveBlockAckReq
             \/ ReceiveAddBaRequest \/ ReceiveDelBa \/ ReceiveAddBaResponse \/ GotDelBaFrame
             \/ \E side \in {"originator", "recipient"} : InactivityTimeout(side)
    <3>1. cur' = cur /\ low' = low
      BY <2>6 DEF Queue, Expire, Lose, SendNothing, ReceiveUnderBlockAck, ReceiveUnderNormalAck, ReceiveBlockAckReq,
             ReceiveAddBaRequest, ReceiveDelBa, ReceiveAddBaResponse, GotDelBaFrame, InactivityTimeout,
             NothingElseReceived, medium, sender
    <3> QED BY <3>1 DEF Serves, IsBlock
  <2> QED BY <2>1, <2>2, <2>3, <2>4, <2>5, <2>6 DEF Next, Originate, Receive, Timeout
<1>3. ba'.state = "pending" => blocked'
  <2>1. CASE SetupBlockAck
    BY <2>1 DEF SetupBlockAck
  <2>2. CASE ReceiveAddBaResponse
    <3>1. UNCHANGED <<ba, blocked>> \/ ba' = [ba EXCEPT !.state = "established"]
      BY <2>2 DEF ReceiveAddBaResponse, Established
    <3>2. CASE ba' = [ba EXCEPT !.state = "established"]
      BY <1>1, <3>2 DEF NoAgreement
    <3> QED BY <3>1, <3>2 DEF Serves
  <2>3. CASE ~SetupBlockAck /\ ~ReceiveAddBaResponse
    <3>1. blocked' = blocked
      BY <2>3 DEF Next, Originate, Receive, Timeout, Queue, Expire, Lose, Resend, SendBlockAckRequest, SendRetry, SendDelba,
         SendFirst, SendNothing, EndTxNoAck, SendReply, ReceiveUnderBlockAck, ReceiveUnderNormalAck,
         ReceiveBlockAckReq, ReceiveAddBaRequest, ReceiveDelBa, GotDelBaFrame, GotBlockAck,
         GotAck, ReplyGotAck, MissedAck, ReplyMissedAck, MissedBlockAck, InactivityTimeout,
         NothingElseReceived, sender
    <3>2. ba'.state = ba.state \/ ba'.state \in {"none", "established"}
      <4>1. CASE GotBlockAck
        <5>1. PICK S : S = air.acked
          OBVIOUS
        <5>2. ba' = ba \/ (ba.state = "established" /\ ba' = NotifyGotBlockAck(ba, S))
          BY <4>1, <5>1 DEF GotBlockAck
        <5> QED BY <1>1, <5>2, BlockAckState
      <4>2. CASE SendFirst
        <5>1. PICK item : item = [packet |-> Head(queue), seq |-> nextSeq, retry |-> FALSE]
          OBVIOUS
        <5>2. PICK b : b = StorePacket(Prepared, item)
          OBVIOUS
        <5>3. ba' = Prepared \/ ba' = NotifyMpduTransmission(b, Plus(nextSeq, 1), Tail(queue))
          BY <4>2, <5>1, <5>2 DEF SendFirst
        <5>4. Prepared.state = ba.state /\ DOMAIN Prepared = DOMAIN NoAgreement
          BY <1>1, PreparedState
        <5>5. b.state = ba.state /\ DOMAIN b = DOMAIN NoAgreement
          BY <5>2, <5>4 DEF StorePacket, NoAgreement
        <5> QED BY <5>3, <5>4, <5>5, TransmissionState
      <4>3. CASE SendRetry
        <5>1. PICK b : b = Prepared
          OBVIOUS
        <5>2. PICK s : s = Head(b.retry)
          OBVIOUS
        <5>3. PICK c : c = [b EXCEPT !.retry = Tail(@), !.start = IF s > Plus(@, Window - 1) THEN s ELSE @]
          OBVIOUS
        <5>4. ba' = NotifyMpduTransmission(c, nextSeq, queue)
          BY <4>3, <5>1, <5>2, <5>3 DEF SendRetry
        <5>5. b.state = ba.state /\ DOMAIN b = DOMAIN NoAgreement
          BY <1>1, <5>1, PreparedState
        <5>6. DOMAIN c = DOMAIN NoAgreement /\ c.state = ba.state
          BY <5>3, <5>5 DEF NoAgreement
        <5> QED BY <5>4, <5>6, TransmissionState
      <4>4. CASE SendBlockAckRequest
        <5>1. ba' = [ba EXCEPT !.bars = Tail(@)]
          BY <4>4 DEF SendBlockAckRequest
        <5> QED BY <1>1, <5>1 DEF NoAgreement
      <4>5. CASE SendDelba \/ SendNothing \/ MissedBlockAck
        <5>1. ba' = Prepared \/ ba' = Cleanup(ba)
          BY <4>5 DEF SendDelba, SendNothing, MissedBlockAck
        <5> QED BY <1>1, <5>1, CleanupState, PreparedState
      <4>6. CASE \/ Queue \/ Expire \/ Lose \/ Resend \/ EndTxNoAck \/ SendReply
                 \/ ReceiveUnderBlockAck \/ ReceiveUnderNormalAck \/ ReceiveBlockAckReq
                 \/ ReceiveAddBaRequest \/ ReceiveDelBa \/ GotDelBaFrame \/ GotAck \/ ReplyGotAck
                 \/ MissedAck \/ ReplyMissedAck \/ \E side \in {"originator", "recipient"} : InactivityTimeout(side)
        <5>1. ba' = ba \/ ba' = NoAgreement
          BY <4>6 DEF Queue, Expire, Lose, Resend, EndTxNoAck, SendReply, ReceiveUnderBlockAck, ReceiveUnderNormalAck,
             ReceiveBlockAckReq, ReceiveAddBaRequest, ReceiveDelBa, GotDelBaFrame, GotAck, TearDownBlockAck, ReplyGotAck,
             MissedAck, ReplyMissedAck, InactivityTimeout, NothingElseReceived, sender
        <5> QED BY <1>1, <5>1
      <4> QED BY <2>3, <4>1, <4>2, <4>3, <4>4, <4>5, <4>6 DEF Next, Originate, Receive, Timeout
    <3> QED BY <3>1, <3>2, SMTT(30) DEF Serves
  <2> QED BY <2>1, <2>2, <2>3
<1> QED BY <1>2, <1>3 DEF Serves

(* Together, for any step.                                                 *)
LEMMA InServiceStep ==
  ASSUME FirstHalf, OrderInv, InService, Next
  PROVE  InService'
<1>1. HalfTheNumbers /\ WindowInv /\ FrameInv /\ RecipientInv
  BY HalfSuffices DEF OrderInv
<1>2. Serves'
  BY <1>1, ServesStep DEF InService
<1>3. CASE ~SendFirst /\ ~SetupBlockAck
  BY <1>1, <1>2, <1>3, FitsStep DEF InService
<1>4. CASE SetupBlockAck
  <2>1. cur' = AddBa(nextSeq) /\ air' = cur' /\ ba' = [NoAgreement EXCEPT !.state = "pending", !.start = nextSeq] /\ nextSeq' = nextSeq
    BY <1>4 DEF SetupBlockAck, Transmit
  <2>2. ba'.sent = <<>> /\ cur'.start = nextSeq /\ cur'.kind = "addba"
    BY <2>1 DEF NoAgreement, AddBa
  <2> QED BY <1>2, <2>1, <2>2 DEF InService, Fits, IsNormal
<1>5. CASE SendFirst
  <2>1. PICK item : item = [packet |-> Head(queue), seq |-> nextSeq, retry |-> FALSE]
    OBVIOUS
  <2>2. /\ air' = cur' /\ ~blocked
        /\ \/ cur' = DataFrame(item, "block")
           \/ cur' = DataFrame(item, "normal") /\ ba.state # "established" /\ ba' = Prepared
    BY <1>5, <2>1 DEF SendFirst, Transmit, HasData
  <2>3. nextSeq' = nextSeq + 1
    BY <1>5, FirstIs
  <2>4. CASE cur' = DataFrame(item, "block")
    BY <1>2, <2>2, <2>4, Kinds, OtherFits DEF InService, IsBlock
  <2>5. CASE cur' = DataFrame(item, "normal") /\ ba.state # "established" /\ ba' = Prepared
    <3>1. ba'.state = ba.state
      BY <1>1, <2>5, PreparedWindow DEF Less
    <3>2. ba.state \in {"none", "pending", "established"}
      BY <1>1, AgreementIs DEF WindowInv, Ordered
    <3>3. ba.state = "none"
      BY <2>2, <2>5, <3>2 DEF InService, Serves
    <3>4. cur'.kind = "data" /\ cur'.item.seq = nextSeq
      BY <2>1, <2>5 DEF DataFrame
    <3> QED BY <1>2, <2>2, <2>3, <3>1, <3>3, <3>4 DEF InService, Fits
  <2> QED BY <2>2, <2>4, <2>5
<1> QED BY <1>3, <1>4, <1>5

(* The window of the originator stands still.                              *)
Calm ==
  /\ nextSeq' = nextSeq /\ ba'.start = ba.start
  /\ Sent' = Sent /\ Waiting' = Waiting /\ Asks' = Asks
  /\ Young' \subseteq Young /\ Flying' \subseteq Flying

(* The window of the originator stays as it should be when nothing moves.  *)
LEMMA CalmOrder ==
  ASSUME WindowOrder, Narrow, Calm
  PROVE  WindowOrder' /\ Narrow'
<1>1. WindowOrder'
  BY DEF WindowOrder, Calm
<1>2. Live' \subseteq Live
  BY DEF Live, Calm
<1>3. \A s, t \in Live' : s < t + Window
  BY <1>2 DEF Narrow
<1>4. Asks' = {} /\ Waiting' = {} => \A t \in Young' : nextSeq' < t + Window
  BY DEF Narrow, Calm
<1>5. \A z \in Asks' : \A s \in Young' : s < z + Window \/ (s + 1 = nextSeq' /\ Young' = {s})
  BY DEF Narrow, Calm, Newest
<1> QED BY <1>1, <1>3, <1>4, <1>5 DEF Narrow, Newest

(* Nothing is left of an agreement.                                        *)
LEMMA EmptyOrder ==
  ASSUME Sent' = {}, Young' = {}, Waiting' = {}, Flying' = {}, ba'.start <= nextSeq',
         \A z \in Asks' : z < nextSeq'
  PROVE  WindowOrder' /\ Narrow'
<1>1. Live' = {}
  BY DEF Live
<1> QED BY <1>1 DEF WindowOrder, Narrow

(* Packets grow old and none grows young.                                  *)
LEMMA YoungLess ==
  ASSUME ba'.sent = ba.sent, ba.sent \in Seq(Item), expired \in Nat, expired' \in {expired, expired + 1}
  PROVE  Young' \subseteq Young /\ Sent' = Sent
<1>1. Sent' = Sent
  BY DEF Sent
<1>2. ASSUME NEW i \in DOMAIN ba.sent, ba.sent[i].packet > expired' PROVE ba.sent[i].packet > expired
  <2>1. ba.sent[i] \in Item
    OBVIOUS
  <2>2. ba.sent[i].packet \in Packet
    BY <2>1 DEF Item
  <2>3. ba.sent[i].packet \in Nat
    BY <2>2, SpaceType
  <2> QED BY <1>2, <2>3
<1>3. Young' \subseteq Young
  BY <1>2 DEF Young, Fresh
<1> QED BY <1>1, <1>3

(* No block ack data enters the air when the frame in it stays or is       *)
(* another one.                                                            *)
LEMMA FlyingNext ==
  ASSUME air' = air \/ ~IsBlock(air')
  PROVE  Flying' \subseteq Flying
  BY DEF Flying, IsBlock

(* The steps in which the window stands still.                             *)
LEMMA CalmSteps ==
  ASSUME FirstHalf, OrderInv, InService, Next,
         \/ Queue \/ Expire \/ Lose \/ Resend \/ SendBlockAckRequest \/ EndTxNoAck \/ SendReply
         \/ ReceiveUnderBlockAck \/ ReceiveUnderNormalAck \/ ReceiveBlockAckReq
         \/ ReceiveAddBaRequest \/ ReceiveDelBa \/ ReceiveAddBaResponse
         \/ (GotAck /\ cur.kind # "delba") \/ ReplyGotAck
         \/ MissedAck \/ ReplyMissedAck \/ \E side \in {"originator", "recipient"} : InactivityTimeout(side)
  PROVE  Calm /\ (air' = air \/ ~IsBlock(air')) /\ (air'.kind = "ba" => air' = air \/ ReceiveBlockAckReq)
<1>1. /\ DOMAIN ba = DOMAIN NoAgreement /\ ba.sent \in Seq(Item) /\ expired \in Nat
      /\ ba.bars \in Seq(Seqs) /\ Asked(ba) /\ Serving /\ FrameInv /\ cur.kind # "ba"
  BY AgreementIs DEF OrderInv, WindowInv, Ordered, Numbered, PacketInv, Serving
<1>2. nextSeq' = nextSeq
  BY DEF Queue, Expire, Lose, Resend, SendBlockAckRequest, EndTxNoAck, SendReply, ReceiveUnderBlockAck, ReceiveUnderNormalAck,
         ReceiveBlockAckReq, ReceiveAddBaRequest, ReceiveDelBa, ReceiveAddBaResponse, GotAck, ReplyGotAck,
         MissedAck, ReplyMissedAck, InactivityTimeout, NothingElseReceived, NothingElseTold, sender
<1>3. ba'.start = ba.start /\ ba'.sent = ba.sent /\ ba'.retry = ba.retry
  <2>1. \/ ba' = ba \/ ba' = [ba EXCEPT !.state = "established"]
        \/ ba' = [ba EXCEPT !.bars = Tail(@)]
    BY DEF Queue, Expire, Lose, Resend, SendBlockAckRequest, EndTxNoAck, SendReply, ReceiveUnderBlockAck, ReceiveUnderNormalAck,
         ReceiveBlockAckReq, ReceiveAddBaRequest, ReceiveDelBa, ReceiveAddBaResponse, Established, GotAck, ReplyGotAck,
         MissedAck, ReplyMissedAck, InactivityTimeout, NothingElseReceived, NothingElseTold, sender
  <2> QED BY <1>1, <2>1 DEF NoAgreement
<1>4. expired' \in {expired, expired + 1}
  BY DEF Queue, Expire, Lose, Resend, SendBlockAckRequest, EndTxNoAck, SendReply, ReceiveUnderBlockAck, ReceiveUnderNormalAck,
         ReceiveBlockAckReq, ReceiveAddBaRequest, ReceiveDelBa, ReceiveAddBaResponse, GotAck, ReplyGotAck,
         MissedAck, ReplyMissedAck, InactivityTimeout, NothingElseReceived, NothingElseTold, NothingElseSent, sender
<1>5. Young' \subseteq Young /\ Sent' = Sent
  BY <1>1, <1>3, <1>4, YoungLess
<1>6. Waiting' = Waiting
  BY <1>3 DEF Waiting
<1>7. (air' = air \/ ~IsBlock(air')) /\ (air'.kind = "ba" => air' = air \/ ReceiveBlockAckReq)
  <2>1. CASE Resend
    <3>1. air' = cur /\ low = "idle"
      BY <2>1 DEF Resend, Transmit, MediumIdle
    <3> QED BY <1>1, <3>1 DEF InService, Serves
  <2>2. CASE SendReply
    <3>1. rcur' = rcur \/ (replies # <<>> /\ rcur' = Management(Head(replies)))
      BY <2>2 DEF SendReply
    <3>2. replies # <<>> => Head(replies) \in {"resp", "delba"}
      <4>1. replies \in Seq({"resp", "delba"})
        BY <1>1 DEF Serving
      <4> QED BY <4>1, Rest
    <3>3. rcur'.kind \notin {"data", "ba"} /\ air' = rcur'
      BY <1>1, <2>2, <3>1, <3>2, Kinds DEF SendReply, FrameInv
    <3> QED BY <3>3 DEF IsBlock
  <2>3. CASE SendBlockAckRequest
    BY <2>3, Kinds DEF SendBlockAckRequest, Transmit, IsBlock
  <2>4. CASE ReceiveBlockAckReq
    <3>1. air'.kind # "data"
      BY <2>4, Kinds, SMTT(30) DEF ReceiveBlockAckReq
    <3> QED BY <2>4, <3>1 DEF IsBlock
  <2>5. CASE \/ Queue \/ Expire \/ Lose \/ EndTxNoAck \/ ReceiveUnderBlockAck \/ ReceiveUnderNormalAck
             \/ ReceiveAddBaRequest \/ ReceiveDelBa \/ ReceiveAddBaResponse \/ GotAck \/ ReplyGotAck
             \/ MissedAck \/ ReplyMissedAck \/ \E side \in {"originator", "recipient"} : InactivityTimeout(side)
    <3>1. air' = air \/ air' = NoFrame \/ air' = Management("ack")
      BY <2>5 DEF Queue, Expire, Lose, EndTxNoAck, ReceiveUnderBlockAck, ReceiveUnderNormalAck,
             ReceiveAddBaRequest, ReceiveDelBa, ReceiveAddBaResponse, GotAck, ReplyGotAck, MissedAck, ReplyMissedAck,
             InactivityTimeout, Answered, TimedOut, medium
    <3> QED BY <3>1, Kinds DEF IsBlock
  <2> QED BY <2>1, <2>2, <2>3, <2>4, <2>5
<1>8. Asks' = Asks
  <2>1. CASE SendBlockAckRequest
    <3>1. ba.bars # <<>> /\ cur = NoFrame /\ cur' = BarFrame(Head(ba.bars)) /\ ba' = [ba EXCEPT !.bars = Tail(@)]
      BY <2>1 DEF SendBlockAckRequest, Transmit
    <3>2. PICK z \in Seqs : ba.bars = <<z>>
      BY <1>1, <3>1 DEF Asked
    <3>3. ba'.bars = <<>> /\ cur' = BarFrame(z)
      <4>1. Head(<<z>>) = z /\ Tail(<<z>>) = <<>>
        OBVIOUS
      <4> QED BY <1>1, <3>1, <3>2, <4>1 DEF NoAgreement
    <3>4. ToSet(ba.bars) = {z} /\ ToSet(ba'.bars) = {}
      BY <3>2, <3>3 DEF ToSet
    <3>5. cur'.kind = "bar" /\ cur'.start = z /\ cur.kind # "bar"
      BY <3>1, <3>3, Kinds DEF BarFrame
    <3> QED BY <3>4, <3>5 DEF Asks
  <2>2. CASE EndTxNoAck \/ (GotAck /\ cur.kind # "delba")
    <3>1. ba' = ba /\ cur' = NoFrame /\ low \in {"ack", "noack"}
      BY <2>2 DEF EndTxNoAck, GotAck
    <3>2. cur.kind # "bar" /\ cur'.kind # "bar"
      BY <3>1, Kinds DEF InService, Serves
    <3> QED BY <3>1, <3>2 DEF Asks
  <2>3. CASE MissedAck
    <3>1. ba' = ba /\ low = "ack"
          /\ (cur' = cur \/ cur' = NoFrame \/ (cur.kind = "data" /\ cur' = [cur EXCEPT !.item.retry = TRUE]))
      BY <2>3 DEF MissedAck, TimedOut
    <3>2. cur.kind # "bar"
      BY <3>1 DEF InService, Serves
    <3>3. cur'.kind # "bar"
      <4>1. CASE cur.kind = "data" /\ cur' = [cur EXCEPT !.item.retry = TRUE]
        <5>1. cur = DataFrame(cur.item, cur.policy)
          BY <1>1, <4>1, FrameHas DEF FrameInv
        <5> QED BY <4>1, <5>1 DEF DataFrame
      <4> QED BY <3>1, <3>2, <4>1, Kinds
    <3> QED BY <3>1, <3>2, <3>3 DEF Asks
  <2>4. CASE \/ Queue \/ Expire \/ Lose \/ Resend \/ SendReply
             \/ ReceiveUnderBlockAck \/ ReceiveUnderNormalAck \/ ReceiveBlockAckReq
             \/ ReceiveAddBaRequest \/ ReceiveDelBa \/ ReceiveAddBaResponse \/ ReplyGotAck
             \/ ReplyMissedAck \/ \E side \in {"originator", "recipient"} : InactivityTimeout(side)
    <3>1. cur' = cur /\ (ba' = ba \/ ba' = [ba EXCEPT !.state = "established"])
      BY <2>4 DEF Queue, Expire, Lose, Resend, Transmit, SendReply, ReceiveUnderBlockAck, ReceiveUnderNormalAck,
         ReceiveBlockAckReq, ReceiveAddBaRequest, ReceiveDelBa, ReceiveAddBaResponse, Established, ReplyGotAck,
         ReplyMissedAck, InactivityTimeout, NothingElseReceived, NothingElseTold, sender
    <3>2. ba'.bars = ba.bars
      BY <1>1, <3>1 DEF NoAgreement
    <3> QED BY <3>1, <3>2, SMTT(30) DEF Asks
  <2> QED BY <2>1, <2>2, <2>3, <2>4
<1>9. Flying' \subseteq Flying
  BY <1>7, FlyingNext
<1> QED BY <1>2, <1>3, <1>5, <1>6, <1>7, <1>8, <1>9 DEF Calm

(* Without packets there is nothing that may still arrive.                 *)
LEMMA NothingSent ==
  ASSUME ba'.sent = <<>>, ba'.retry = <<>>, ~IsBlock(air')
  PROVE  Sent' = {} /\ Young' = {} /\ Waiting' = {} /\ Flying' = {}
<1>1. DOMAIN <<>> = {}
  OBVIOUS
<1>2. Sent' = {}
  BY <1>1 DEF Sent, SeqsOf
<1>3. Young' = {}
  BY <1>1 DEF Young, Fresh
<1>4. Waiting' = {}
  BY <1>1 DEF Waiting, ToSet
<1>5. Flying' = {}
  BY DEF Flying, IsBlock
<1> QED BY <1>2, <1>3, <1>4, <1>5

(* The agreement is new, gone, or was not there when a block ack came.     *)
LEMMA EmptySteps ==
  ASSUME FirstHalf, OrderInv, WindowOrder,
         \/ SetupBlockAck \/ (GotDelBaFrame /\ ba' # ba) \/ (GotAck /\ cur.kind = "delba")
         \/ (GotBlockAck /\ ba.state # "established")
  PROVE  WindowOrder' /\ Narrow' /\ nextSeq' = nextSeq /\ Young' = {} /\ Sent' = {} /\ Waiting' = {} /\ Flying' = {}
         /\ air'.kind # "ba"
<1>1. /\ nextSeq \in Nat /\ ba.start \in Nat /\ nextSeq' = nextSeq
      /\ (ba.state # "established" => ba.sent = <<>> /\ ba.retry = <<>>)
      /\ (cur.kind = "bar" => ba.bars = <<>>)
      /\ \A z \in Asks : z < nextSeq
      /\ ba.start <= nextSeq
  BY TypedIs DEF Typed, OrderInv, WindowInv, PacketInv, Containers, WindowOrder, Requested,
     SetupBlockAck, GotDelBaFrame, GotAck, GotBlockAck, NothingElseTold
<1>2. CASE SetupBlockAck
  <2>1. cur' = AddBa(nextSeq) /\ air' = cur' /\ ba' = [NoAgreement EXCEPT !.state = "pending", !.start = nextSeq]
    BY <1>2 DEF SetupBlockAck, Transmit
  <2>2. ba'.sent = <<>> /\ ba'.retry = <<>> /\ ba'.bars = <<>> /\ ba'.start = nextSeq
    BY <2>1 DEF NoAgreement
  <2>3. air'.kind = "addba" /\ cur'.kind = "addba"
    BY <2>1, Kinds
  <2>4. Asks' = {}
    BY <2>2, <2>3 DEF Asks, ToSet
  <2>5. ~IsBlock(air')
    BY <2>3 DEF IsBlock
  <2> QED BY <1>1, <2>2, <2>3, <2>4, <2>5, NothingSent, EmptyOrder
<1>3. CASE (GotDelBaFrame /\ ba' # ba) \/ (GotAck /\ cur.kind = "delba")
  <2>1. ba' = NoAgreement /\ (cur' = cur \/ cur' = NoFrame) /\ (air' = NoFrame \/ air' = Management("ack"))
    BY <1>3 DEF GotDelBaFrame, GotAck, TearDownBlockAck, Answered
  <2>2. ba'.sent = <<>> /\ ba'.retry = <<>> /\ ba'.bars = <<>> /\ ba'.start = 0
    BY <2>1 DEF NoAgreement
  <2>3. air'.kind \notin {"ba", "data"}
    BY <2>1, Kinds
  <2>4. Asks' \subseteq Asks
    BY <2>1, <2>2, Kinds DEF Asks, ToSet
  <2>5. ~IsBlock(air')
    BY <2>3 DEF IsBlock
  <2>6. ba'.start <= nextSeq' /\ \A z \in Asks' : z < nextSeq'
    BY <1>1, <2>2, <2>4
  <2> QED BY <1>1, <2>2, <2>3, <2>5, <2>6, NothingSent, EmptyOrder
<1>4. CASE GotBlockAck /\ ba.state # "established"
  <2>1. ba' = ba /\ cur' = NoFrame /\ air' = NoFrame
    BY <1>4 DEF GotBlockAck, Answered
  <2>2. ba'.sent = <<>> /\ ba'.retry = <<>> /\ ba'.start <= nextSeq' /\ air'.kind = "none" /\ cur'.kind = "none"
    BY <1>1, <1>4, <2>1, Kinds
  <2>3. Asks' \subseteq Asks
    BY <2>1, <2>2 DEF Asks
  <2>4. ~IsBlock(air') /\ \A z \in Asks' : z < nextSeq'
    BY <1>1, <2>2, <2>3 DEF IsBlock
  <2> QED BY <1>1, <2>2, <2>4, NothingSent, EmptyOrder
<1> QED BY <1>2, <1>3, <1>4

(* What the steps of the originator start from.                            *)
(* After a young packet come young ones.                                   *)
LEMMA SentUp ==
  ASSUME FirstHalf, Sending, NEW s \in Young, NEW t \in Sent, s <= t
  PROVE  t \in Young
<1>1. Ranked(Way) /\ OrderInv /\ PairsOf(ba.sent) \subseteq Way
  BY DEF Sending, PacketOrder, Way
<1>2. s \in Fresh(ba.sent) /\ t \in SeqsOf(ba.sent)
  BY DEF Young, Sent
<1>3. t \in Fresh(ba.sent)
  BY <1>1, <1>2, FreshUp
<1> QED BY <1>3 DEF Young

(* When nothing awaits a retry or an answer, the next number is in the     *)
(* window of every packet.                                                 *)
LEMMA NothingWaits ==
  ASSUME FirstHalf, Sending, Waiting \cap Young = {}, Asks = {}
  PROVE  \A t \in Young : nextSeq < t + Window
<1>1. CASE Waiting = {}
  BY <1>1 DEF Sending, Narrow
<1>2. CASE Waiting # {}
  <2>1. \A s \in Young : \E t \in Waiting : s <= t /\ t \in Sent
    <3>1. Young \subseteq Sent /\ Waiting \subseteq Sent
      BY TypedIs DEF Typed, Sending
    <3> QED BY <1>2, <3>1 DEF Sending, WindowOrder
  <2>2. Young = {}
    BY <2>1, SentUp
  <2> QED BY <2>2
<1> QED BY <1>1, <1>2

(* The agreement when GetNextPacket has run.                               *)
LEMMA PreparedHas ==
  ASSUME FirstHalf, Sending
  PROVE  /\ Tidy(Prepared) /\ Ordered(Prepared, Draw(nextSeq)) /\ Prepared \in Agreement
         /\ (Prepared.retry = <<>> => Waiting \cap Young = {})
<1>1. Tidy(Prepared) /\ Ordered(Prepared, Draw(nextSeq)) /\ Prepared \in Agreement
  BY PreparedTidy DEF Sending, Ordered
<1>2. ASSUME Prepared.retry = <<>> PROVE Waiting \cap Young = {}
  <2>1. ToSet(Prepared.retry) = {}
    BY <1>2 DEF ToSet
  <2> QED BY <1>1, <2>1 DEF Tidy
<1> QED BY <1>1, <1>2

(* No request is due and none is in service.                               *)
LEMMA NoBarAsks ==
  ASSUME ba.bars = <<>>, cur.kind # "bar"
  PROVE  Asks = {}
  BY DEF Asks, ToSet

(* An agreement that was prepared and not used for anything.               *)
RestEffect ==
  /\ Asks = {} /\ Asks' = {} /\ Waiting \cap Young = {} /\ Waiting' = {} /\ Flying' = {}
  /\ Young' = Young /\ Sent' \subseteq Sent
  /\ ba'.start \in Nat /\ ba.start <= ba'.start /\ ba'.start <= nextSeq /\ (\A s \in Sent' : ba'.start <= s)
  /\ nextSeq' = nextSeq \/ (nextSeq' = nextSeq + 1 /\ Young = {})
  /\ air'.kind # "ba"

(* The steps that prepare the agreement and send another frame, or none.   *)
LEMMA RestSteps ==
  ASSUME FirstHalf, Sending, SendDelba \/ SendNothing \/ (SendFirst /\ ba.state # "established")
  PROVE  RestEffect
<1>1. /\ cur = NoFrame /\ air = NoFrame /\ ba.bars = <<>> /\ Prepared.retry = <<>> /\ ba' = Prepared /\ expired' = expired
      /\ (air' = air /\ cur' = cur) \/ (air' = cur' /\ (cur'.kind = "delba" \/ IsNormal(cur')))
  BY Kinds DEF SendDelba, SendNothing, SendFirst, HasData, HasNoRetry, HasNoBar, MediumIdle, Transmit, NothingElseSent, medium, IsNormal
<1>2. PICK c : c = Prepared /\ Tidy(c) /\ ba' = c /\ c.retry = <<>> /\ Waiting \cap Young = {}
  BY <1>1, PreparedHas
<1>3. cur.kind = "none" /\ air'.kind \notin {"ba", "bar"} /\ cur'.kind # "bar" /\ ~IsBlock(air')
  BY <1>1, Kinds DEF IsNormal, IsBlock
<1>4. Asks = {} /\ ba'.bars = <<>>
  BY <1>1, <1>2, <1>3, NoBarAsks DEF Tidy
<1>5. Asks' = {} /\ Waiting' = {} /\ Flying' = {}
  BY <1>2, <1>3, <1>4 DEF Asks, Waiting, Flying, ToSet
<1>6. Young' = Young /\ Sent' \subseteq Sent
  <2>1. Young' = Fresh(c.sent) /\ Sent' = SeqsOf(c.sent)
    BY <1>1, <1>2 DEF Young, Sent, Fresh, SeqsOf
  <2> QED BY <1>2, <2>1 DEF Tidy
<1>7. ba'.start \in Nat /\ ba.start <= ba'.start /\ ba'.start <= nextSeq /\ \A s \in Sent' : ba'.start <= s
  BY <1>2 DEF Tidy, Sent
<1>8. nextSeq' = nextSeq \/ (nextSeq' = nextSeq + 1 /\ Young = {})
  <2>1. CASE SendFirst /\ ba.state # "established"
    <3>1. ba.sent = <<>>
      BY <2>1 DEF Sending, OrderInv, WindowInv, PacketInv, Containers
    <3>2. Young = {}
      BY <3>1 DEF Young, Fresh
    <3> QED BY <2>1, <3>2, FirstIs DEF Sending
  <2>2. CASE SendDelba \/ SendNothing
    BY <2>2 DEF SendDelba, SendNothing
  <2> QED BY <2>1, <2>2
<1> QED BY <1>2, <1>3, <1>4, <1>5, <1>6, <1>7, <1>8 DEF RestEffect

(* They leave the windows as they should be.                               *)
LEMMA RestOrder ==
  ASSUME FirstHalf, Sending, RestEffect
  PROVE  WindowOrder' /\ Narrow'
<1>1. Typed
  BY TypedIs DEF Sending
<1>2. nextSeq \in Nat /\ ba.start \in Nat
  BY <1>1 DEF Typed
<1>3. ba'.start <= nextSeq'
  <2>1. ba'.start <= nextSeq /\ (nextSeq' = nextSeq \/ nextSeq' = nextSeq + 1)
    BY DEF RestEffect
  <2> QED BY <1>2, <2>1 DEF RestEffect
<1>4. WindowOrder'
  BY <1>3 DEF RestEffect, WindowOrder
<1>5. Live' \subseteq Live
  BY DEF Live, RestEffect
<1>6. \A s, t \in Live' : s < t + Window
  BY <1>5 DEF Sending, Narrow
<1>7. \A t \in Young' : nextSeq' < t + Window
  BY NothingWaits DEF RestEffect
<1> QED BY <1>4, <1>6, <1>7 DEF RestEffect, Narrow

(* The retry that is sent first is the one the list begins with.           *)
LEMMA RetryItem ==
  ASSUME NEW b \in Agreement, b.retry # <<>>, InSent(b, Head(b.retry)),
         NEW item, item = b.sent[SelectInSeq(b.sent, LAMBDA it : it.seq = Head(b.retry))]
  PROVE  item \in Item /\ item.seq = Head(b.retry)
<1>1. PICK sent, s : sent = b.sent /\ s = Head(b.retry)
  OBVIOUS
<1>2. PICK I : I = {i \in 1..Len(b.sent) : b.sent[i].seq = Head(b.retry)}
  OBVIOUS
<1>3. sent \in Seq(Item)
  BY <1>1, AgreementIs
<1>4. Len(sent) \in Nat /\ DOMAIN sent = 1..Len(sent)
  BY <1>3
<1>5. I \subseteq 1..Len(sent) /\ I # {}
  <2>1. PICK i \in DOMAIN sent : sent[i].seq = s
    BY <1>1 DEF InSent
  <2> QED BY <1>1, <1>2, <1>4, <2>1
<1>6. Min(I) \in I
  BY <1>4, <1>5, LeastPosition
<1>7. item = sent[Min(I)]
  BY <1>1, <1>2, <1>5 DEF SelectInSeq
<1>8. Min(I) \in DOMAIN sent
  BY <1>4, <1>5, <1>6
<1>9. item \in Item
  BY <1>3, <1>7, <1>8
<1> QED BY <1>1, <1>2, <1>6, <1>7, <1>9

(* The retry s goes out, with a request behind it when the window is used  *)
(* up or nothing else is left.                                             *)
RetryEffect(s) ==
  /\ s \in Waiting /\ s \in Young /\ ba'.start \in Young /\ \A t \in Young : ba'.start <= t
  /\ ba.start <= ba'.start /\ nextSeq' = nextSeq
  /\ Sent' = Young /\ Young' = Young /\ Waiting' = (Waiting \cap Young) \ {s} /\ \A t \in Waiting' : s < t
  /\ Flying' = {s} /\ IsBlock(air') /\ air'.item.retry /\ air'.kind # "ba"
  /\ Asks = {} /\ Asks' \subseteq {ba'.start}
  /\ Waiting' # {} => Asks' = {}
  /\ Waiting' = {} /\ Asks' = {} => nextSeq < ba'.start + Window

(* What is left of the list when its head is gone.                         *)
LEMMA RetryLeft ==
  ASSUME FirstHalf, Sending, NEW b, b = Prepared, b.retry # <<>>
  PROVE  /\ Head(b.retry) \in Waiting \cap Young /\ Head(b.retry) \in Seqs /\ InSent(b, Head(b.retry))
         /\ ToSet(Tail(b.retry)) = (Waiting \cap Young) \ {Head(b.retry)}
         /\ \A t \in ToSet(Tail(b.retry)) : Head(b.retry) < t
         /\ Tail(b.retry) = <<>> \/ Tail(b.retry)[1] \in ToSet(Tail(b.retry))
<1>1. Tidy(b) /\ Ordered(b, Draw(nextSeq))
  BY PreparedHas
<1>2. PICK q : q = b.retry /\ q \in Seq(Seqs) /\ q # <<>>
  BY <1>1, SentRises DEF Sending
<1>3. \A i, j \in DOMAIN q : i < j => q[i] < q[j]
  BY <1>1, <1>2, SentRises DEF Sending
<1>4. PICK t : t = Tail(q) /\ t \in Seq(Seqs) /\ \A i \in DOMAIN t : i + 1 \in DOMAIN q /\ t[i] = q[i + 1]
  <2>1. Tail(q) \in Seq(Seqs) /\ \A i \in DOMAIN Tail(q) : i + 1 \in DOMAIN q /\ Tail(q)[i] = q[i + 1]
    BY <1>2, Rest
  <2> QED BY <2>1
<1>5. 1 \in DOMAIN q /\ Head(q) = q[1] /\ Head(q) \in Seqs /\ Len(t) = Len(q) - 1 /\ Len(q) \in Nat
  BY <1>2, <1>4, Rest
<1>6. DOMAIN t = 1..Len(t) /\ DOMAIN q = 1..Len(q)
  BY <1>2, <1>4
<1>7. ToSet(q) = Waiting \cap Young
  BY <1>1, <1>2 DEF Tidy
<1>8. Head(q) \in Waiting \cap Young
  BY <1>5, <1>7 DEF ToSet
<1>9. \A i \in DOMAIN t : q[1] < t[i] /\ t[i] \in ToSet(q)
  <2> TAKE i \in DOMAIN t
  <2>1. i + 1 \in DOMAIN q /\ t[i] = q[i + 1] /\ 1 < i + 1
    BY <1>4, <1>6
  <2> QED BY <1>3, <1>5, <2>1 DEF ToSet
<1>10. \A i \in DOMAIN q : q[i] \in Nat /\ (i = 1 \/ q[i] \in ToSet(t))
  <2> TAKE i \in DOMAIN q
  <2>1. q[i] \in Nat
    BY <1>2, SpaceType DEF Seqs
  <2>2. CASE i # 1
    <3>1. i - 1 \in DOMAIN t
      BY <1>5, <1>6, <2>2
    <3>2. t[i - 1] = q[i]
      BY <1>4, <1>6, <3>1
    <3> QED BY <2>1, <3>1, <3>2 DEF ToSet
  <2> QED BY <2>1, <2>2
<1>11. \A x \in ToSet(t) : q[1] < x /\ x \in ToSet(q)
  BY <1>9 DEF ToSet
<1>12. ToSet(t) = ToSet(q) \ {q[1]}
  <2>1. ASSUME NEW x \in ToSet(q), x # q[1] PROVE x \in ToSet(t)
    BY <1>10, <2>1 DEF ToSet
  <2>2. q[1] \in Nat
    BY <1>5, <1>10
  <2> QED BY <1>11, <2>1, <2>2
<1>13. t = <<>> \/ t[1] \in ToSet(t)
  <2>1. t # <<>> => 1 \in DOMAIN t
    BY <1>4
  <2> QED BY <2>1 DEF ToSet
<1>14. InSent(b, Head(q))
  BY <1>1, <1>2, <1>5 DEF Ordered
<1> QED BY <1>2, <1>4, <1>5, <1>7, <1>8, <1>11, <1>12, <1>13, <1>14

(* Distances in the first half are differences.                            *)
LEMMA EarlyDist ==
  ASSUME NEW s \in Seqs, NEW t \in Seqs, t <= s
  PROVE  Dist(s, t) = s - t
<1>1. s \in Nat /\ t \in Nat
  BY SpaceType DEF Seqs
<1> QED BY <1>1, DistIs

(* SendRetry does that.                                                    *)
LEMMA RetrySteps ==
  ASSUME FirstHalf, Sending, SendRetry
  PROVE  \E s : RetryEffect(s)
<1>1. PICK b, s, item, d, c :
        /\ b = Prepared /\ s = Head(b.retry) /\ d = Tail(b.retry)
        /\ item = b.sent[SelectInSeq(b.sent, LAMBDA it : it.seq = Head(b.retry))]
        /\ c = [b EXCEPT !.retry = Tail(@), !.start = IF s > Plus(@, Window - 1) THEN s ELSE @]
  BY Zenon
<1>2. /\ b.retry # <<>> /\ ba.bars = <<>> /\ ba' = NotifyMpduTransmission(c, nextSeq, queue)
      /\ cur = NoFrame /\ cur' = air' /\ air' = DataFrame([item EXCEPT !.retry = TRUE], "block")
      /\ expired' = expired /\ nextSeq' = nextSeq
  BY <1>1 DEF SendRetry, HasNoBar, Transmit, NothingElseSent
<1>3. /\ s \in Waiting \cap Young /\ s \in Seqs /\ InSent(b, s)
      /\ ToSet(d) = (Waiting \cap Young) \ {s} /\ (\A t \in ToSet(d) : s < t) /\ (d = <<>> \/ d[1] \in ToSet(d))
  BY <1>1, <1>2, RetryLeft
<1>4. Tidy(b) /\ Ordered(b, Draw(nextSeq)) /\ b \in Agreement
  BY <1>1, PreparedHas
<1>5. SeqsOf(b.sent) = Young /\ b.start \in Young /\ Fresh(b.sent) = Young /\ b.bars = <<>>
      /\ ba.start <= b.start /\ \A t \in Young : b.start <= t
  BY <1>2, <1>3, <1>4 DEF Tidy
<1>6. /\ Low(Young, nextSeq) /\ nextSeq \in Nat /\ nextSeq \in 0..Half /\ Window \in Nat /\ Window >= 1
      /\ Window <= Half /\ 2 * Half <= SeqSpace /\ Half \in Nat /\ SeqSpace \in Nat
  BY TypedIs DEF Typed, Sending
<1>7. /\ b.start \in Nat /\ b.start < nextSeq /\ b.start \in Seqs /\ s \in Nat
      /\ s < b.start + Window
  BY <1>3, <1>5, <1>6 DEF Low, Sending, Narrow, Live
<1>8. ~(s > Plus(b.start, Window - 1))
  <2>1. Plus(b.start, Window - 1) = b.start + (Window - 1)
    <3>1. Window - 1 \in 0..SeqSpace /\ b.start + (Window - 1) < SeqSpace
      BY <1>6, <1>7
    <3> QED BY <1>7, <3>1, PlusIs
  <2> QED BY <1>6, <1>7, <2>1
<1>9. /\ c.start = b.start /\ c.retry = d /\ c.sent = b.sent /\ c.bars = <<>> /\ c \in Agreement
  <2>1. DOMAIN b = DOMAIN NoAgreement
    BY <1>4, AgreementIs
  <2>2. c.start = b.start /\ c.retry = d /\ c.sent = b.sent /\ c.bars = b.bars
    BY <1>1, <1>8, <2>1 DEF NoAgreement
  <2>3. c = [b EXCEPT !.retry = Tail(@), !.start = b.start]
    BY <1>1, <1>8, <2>1 DEF NoAgreement
  <2>4. Resent(b, b.start, c)
    BY <2>3 DEF Resent
  <2>5. Ordered(c, Draw(nextSeq))
    <3>1. Draw(nextSeq) \in Nat
      BY NumbersAre DEF Sending
    <3> QED BY <1>2, <1>4, <2>4, <3>1, RetryOrdered
  <2> QED BY <1>5, <2>2, <2>5 DEF Ordered
<1>10. PICK next, rest, e : next = nextSeq /\ rest = queue /\ e = ba'
  OBVIOUS
<1>11. /\ e.start = b.start /\ e.sent = b.sent /\ e.retry = d
       /\ LET x == IF d # <<>> THEN d[1] ELSE next IN
          IF Dist(x, b.start) >= Window \/ (d = <<>> /\ rest = <<>>) THEN e.bars = <<b.start>> ELSE e.bars = <<>>
  <2>1. e = NotifyMpduTransmission(c, next, rest)
    BY <1>2, <1>10
  <2>2. /\ e.start = c.start /\ e.sent = c.sent /\ e.retry = c.retry
        /\ LET x == IF c.retry # <<>> THEN c.retry[1] ELSE next IN
           IF Dist(x, c.start) >= Window \/ (c.retry = <<>> /\ rest = <<>>) THEN e.bars = <<c.start>> ELSE e.bars = <<>>
    BY <1>9, <2>1, TransmissionIs
  <2> QED BY <1>9, <2>2
<1>12. Sent' = Young /\ Young' = Young /\ Waiting' = (Waiting \cap Young) \ {s} /\ \A t \in Waiting' : s < t
  <2>1. Young' = Fresh(b.sent) /\ Sent' = SeqsOf(b.sent) /\ Waiting' = ToSet(d)
    BY <1>2, <1>10, <1>11 DEF Young, Sent, Fresh, SeqsOf, Waiting
  <2> QED BY <1>3, <1>5, <2>1
<1>13. Flying' = {s} /\ IsBlock(air') /\ air'.item.retry /\ air'.kind # "ba" /\ cur'.kind = "data"
  <2>1. item.seq = s /\ item \in Item
    BY <1>1, <1>2, <1>3, <1>4, RetryItem
  <2>2. DOMAIN item = {"packet", "seq", "retry"}
    BY <2>1 DEF Item
  <2>3. PICK g : g = [item EXCEPT !.retry = TRUE]
    OBVIOUS
  <2>4. g.retry
    BY <2>2, <2>3
  <2>5. g.seq = s /\ g.retry
    BY <2>1, <2>2, <2>3, <2>4
  <2>6. air' = DataFrame(g, "block") /\ air'.kind = "data" /\ air'.policy = "block" /\ air'.item = g
    BY <1>2, <2>3, Kinds, Items
  <2> QED BY <1>2, <2>6, <2>5 DEF Flying, IsBlock
<1>14. Asks = {}
  BY <1>2, Kinds, NoBarAsks
<1>15. Asks' \subseteq {b.start} /\ (Asks' = {} <=> e.bars = <<>>)
  <2>1. Asks' = ToSet(e.bars)
    BY <1>10, <1>13 DEF Asks
  <2>2. e.bars = <<>> \/ e.bars = <<b.start>>
    BY <1>11
  <2>3. ToSet(<<>>) = {} /\ ToSet(<<b.start>>) = {b.start}
    BY DEF ToSet
  <2> QED BY <2>1, <2>2, <2>3
<1>16. Waiting' # {} => Asks' = {}
  <2> SUFFICES ASSUME Waiting' # {} PROVE e.bars = <<>>
    BY <1>15
  <2>1. d # <<>>
    BY <1>2, <1>10, <1>11 DEF Waiting, ToSet
  <2>2. PICK x : x = d[1] /\ x \in Young /\ x \in Seqs /\ x \in Nat
    BY <1>3, <1>6, <2>1 DEF Low
  <2>3. b.start <= x /\ x < b.start + Window
    BY <1>5, <2>2 DEF Sending, Narrow, Live
  <2>4. Dist(x, b.start) = x - b.start
    BY <1>7, <2>2, <2>3, EarlyDist
  <2>5. ~(Dist(x, b.start) >= Window)
    BY <1>6, <1>7, <2>2, <2>3, <2>4
  <2> QED BY <1>11, <2>1, <2>2, <2>5
<1>17. Waiting' = {} /\ Asks' = {} => nextSeq < b.start + Window
  <2> SUFFICES ASSUME Waiting' = {}, e.bars = <<>> PROVE nextSeq < b.start + Window
    BY <1>15
  <2>1. d = <<>>
    BY <1>3, <1>12
  <2>2. ~(Dist(nextSeq, b.start) >= Window)
    BY <1>10, <1>11, <2>1
  <2>3. nextSeq \in Seqs
    BY DEF Sending, OrderInv, WindowInv, Numbered
  <2>4. Dist(nextSeq, b.start) = nextSeq - b.start
    BY <1>6, <1>7, <2>3, EarlyDist
  <2> QED BY <1>6, <1>7, <2>2, <2>4
<1> QED BY <1>2, <1>3, <1>5, <1>10, <1>11, <1>12, <1>13, <1>14, <1>15, <1>16, <1>17 DEF RetryEffect

(* The packets of one burst of retries fit into one window, as the start   *)
(* moves with a retry beyond it.                                           *)
LEMMA RetryWindows ==
  ASSUME FirstHalf, Sending, NEW s, RetryEffect(s)
  PROVE  WindowOrder' /\ Narrow'
<1>1. /\ Low(Young, nextSeq) /\ nextSeq \in Nat /\ Window \in Nat /\ Young \subseteq Sent /\ Waiting \subseteq Sent
  BY TypedIs DEF Typed, Sending
<1>2. ba'.start \in Nat /\ ba'.start < nextSeq /\ s \in Nat /\ ba'.start <= s
  BY <1>1 DEF RetryEffect, Low
<1>3. Waiting' # {} => \A x \in Sent' : \E t \in Waiting' : x <= t
  <2> SUFFICES ASSUME Waiting' # {}, NEW x \in Young PROVE \E t \in Waiting' : x <= t
    BY DEF RetryEffect
  <2>1. PICK t \in Waiting : x <= t
    BY <1>1 DEF Sending, WindowOrder, RetryEffect
  <2>2. t \in Young
    BY <1>1, <2>1, SentUp
  <2>3. CASE t = s
    <3>1. PICK u : u \in Waiting' /\ s < u /\ u \in Young
      BY DEF RetryEffect
    <3>2. u \in Nat /\ x \in Nat
      BY <1>1, <3>1 DEF Low
    <3>3. x <= u
      BY <1>2, <2>1, <2>3, <3>1, <3>2
    <3> QED BY <3>1, <3>3
  <2>4. CASE t # s
    BY <2>1, <2>2, <2>4 DEF RetryEffect
  <2> QED BY <2>3, <2>4
<1>4. WindowOrder'
  <2>1. ba'.start <= nextSeq'
    BY <1>1, <1>2 DEF RetryEffect
  <2>2. \A t \in Waiting' : t \notin Flying'
    BY <1>2 DEF RetryEffect
  <2> QED BY <1>2, <1>3, <2>1, <2>2 DEF RetryEffect, WindowOrder
<1>5. Live' \subseteq Live
  BY DEF Live, RetryEffect
<1>6. \A x, t \in Live' : x < t + Window
  BY <1>5 DEF Sending, Narrow
<1>7. \A x \in Young : x < ba'.start + Window
  BY DEF RetryEffect, Sending, Narrow, Live
<1>8. Asks' = {} /\ Waiting' = {} => \A t \in Young' : nextSeq' < t + Window
  <2> SUFFICES ASSUME Asks' = {}, Waiting' = {}, NEW t \in Young PROVE nextSeq < t + Window
    BY DEF RetryEffect
  <2>1. nextSeq < ba'.start + Window /\ ba'.start <= t
    BY DEF RetryEffect
  <2>2. t \in Nat
    BY <1>1 DEF Low
  <2> QED BY <1>1, <1>2, <2>1, <2>2
<1> QED BY <1>4, <1>6, <1>7, <1>8 DEF RetryEffect, Narrow

(* The first packet of the queue goes out under an established agreement.  *)
FirstEffect ==
  /\ Asks = {} /\ Waiting \cap Young = {} /\ Waiting' = {} /\ Flying' = {nextSeq}
  /\ Young' = Young \cup {nextSeq} /\ Sent' \subseteq Sent \cup {nextSeq}
  /\ ba'.start \in Nat /\ ba.start <= ba'.start /\ ba'.start <= nextSeq /\ (\A s \in Sent' : ba'.start <= s)
  /\ (Young # {} => ba'.start \in Young)
  /\ nextSeq' = nextSeq + 1 /\ nextSeq' \in Nat
  /\ Asks' \subseteq {ba'.start} /\ (Asks' = {} => nextSeq' < ba'.start + Window)
  /\ air'.kind = "data"

(* The new item brings its number.                                         *)
LEMMA AppendedSeqs ==
  ASSUME NEW t \in Seq(Item), NEW item \in Item, NEW u, u = Append(t, item)
  PROVE  /\ SeqsOf(u) = SeqsOf(t) \cup {item.seq}
         /\ Fresh(u) = Fresh(t) \cup (IF item.packet > expired THEN {item.seq} ELSE {})
<1>1. Len(t) \in Nat /\ DOMAIN t = 1..Len(t) /\ DOMAIN u = 1..(Len(t) + 1) /\ u[Len(t) + 1] = item
      /\ \A i \in 1..Len(t) : u[i] = t[i]
  OBVIOUS
<1>2. \A i \in DOMAIN u : (i \in DOMAIN t /\ u[i] = t[i]) \/ u[i] = item
  BY <1>1
<1>3. \A i \in DOMAIN t : i \in DOMAIN u /\ u[i] = t[i]
  BY <1>1
<1>4. Len(t) + 1 \in DOMAIN u /\ u[Len(t) + 1] = item
  BY <1>1
<1>5. SeqsOf(u) = SeqsOf(t) \cup {item.seq}
  <2>1. SeqsOf(u) \subseteq SeqsOf(t) \cup {item.seq}
    BY <1>2 DEF SeqsOf
  <2>2. SeqsOf(t) \subseteq SeqsOf(u)
    BY <1>3 DEF SeqsOf
  <2>3. item.seq \in SeqsOf(u)
    BY <1>4 DEF SeqsOf
  <2> QED BY <2>1, <2>2, <2>3
<1>6. Fresh(u) = Fresh(t) \cup (IF item.packet > expired THEN {item.seq} ELSE {})
  <2>1. Fresh(u) \subseteq Fresh(t) \cup (IF item.packet > expired THEN {item.seq} ELSE {})
    BY <1>2 DEF Fresh
  <2>2. Fresh(t) \subseteq Fresh(u)
    BY <1>3 DEF Fresh
  <2>3. item.packet > expired => item.seq \in Fresh(u)
    BY <1>4 DEF Fresh
  <2> QED BY <2>1, <2>2, <2>3
<1> QED BY <1>5, <1>6

(* SendFirst does that under an established agreement.                     *)
LEMMA FirstSteps ==
  ASSUME FirstHalf, Sending, SendFirst, ba.state = "established"
  PROVE  FirstEffect
<1>1. PICK item, next, rest, b, a, e :
        /\ item = [packet |-> Head(queue), seq |-> nextSeq, retry |-> FALSE] /\ next = Plus(nextSeq, 1)
        /\ rest = Tail(queue) /\ a = Prepared /\ b = StorePacket(Prepared, item) /\ e = ba'
  OBVIOUS
<1>2. /\ queue # <<>> /\ ba.bars = <<>> /\ nextSeq' = next /\ expired' = expired /\ cur = NoFrame
      /\ a.retry = <<>> /\ e = NotifyMpduTransmission(b, next, rest)
      /\ cur' = air' /\ air' = DataFrame(item, "block")
  BY <1>1 DEF SendFirst, HasData, HasNoRetry, HasNoBar, Transmit, NothingElseSent
<1>3. Tidy(a) /\ Ordered(a, Draw(nextSeq)) /\ Waiting \cap Young = {}
  BY <1>1, <1>2, PreparedHas
<1>4. next = nextSeq + 1 /\ next \in Seqs /\ next \in Nat /\ nextSeq \in Nat /\ nextSeq \in Seqs
      /\ nextSeq < Half /\ Draw(nextSeq) < Cardinality(Packet) /\ Draw(nextSeq) \in Nat
  <2>1. nextSeq \in Nat /\ Draw(nextSeq) \in Nat /\ nextSeq \in Seqs
    BY NumbersAre DEF Sending, OrderInv, WindowInv, Numbered
  <2> QED BY <1>1, <2>1, FirstIs DEF Sending
<1>5. PICK q : q = queue /\ q \in Seq(Packet) /\ q # <<>>
  BY <1>2, TypedIs DEF Typed, Sending
<1>6. item \in Item /\ item.seq = nextSeq /\ item.packet > expired
  <2>1. 1 \in DOMAIN q /\ Head(q) = q[1] /\ Head(q) \in Packet
    BY <1>5, Rest
  <2>2. expired < q[1]
    BY <1>5, <2>1 DEF Sending, PacketOrder, QueueOrder
  <2>3. item.packet = q[1] /\ q[1] \in Nat /\ expired \in Nat
    BY <1>1, <1>5, <2>1, SpaceType, TypedIs, SMTT(30) DEF Typed, Sending
  <2>4. item.packet > expired
    BY <2>2, <2>3
  <2> QED BY <1>1, <1>4, <1>5, <2>1, <2>4 DEF Item
<1>7. Ordered(b, Draw(nextSeq) + 1) /\ b = [a EXCEPT !.sent = Append(a.sent, item)]
  <2>1. Draw(nextSeq) = Draw(item.seq)
    BY <1>6
  <2> QED BY <1>1, <1>3, <1>4, <1>6, <2>1, HalfSuffices, StoreOrdered
<1>8. a.bars = <<>> /\ a.sent \in Seq(Item) /\ DOMAIN a = DOMAIN NoAgreement
  BY <1>2, <1>3, AgreementIs DEF Tidy, Ordered
<1>9. PICK t, u : t = a.sent /\ u = Append(t, item)
  OBVIOUS
<1>10. b.sent = u /\ b.start = a.start /\ b.retry = <<>> /\ b.bars = <<>> /\ b \in Agreement
  BY <1>2, <1>7, <1>8, <1>9 DEF NoAgreement, Ordered
<1>11. /\ e.start = a.start /\ e.sent = u /\ e.retry = <<>>
       /\ IF Dist(next, a.start) >= Window \/ rest = <<>> THEN e.bars = <<a.start>> ELSE e.bars = <<>>
  <2>1. /\ e.start = b.start /\ e.sent = b.sent /\ e.retry = b.retry
        /\ LET x == IF b.retry # <<>> THEN b.retry[1] ELSE next IN
           IF Dist(x, b.start) >= Window \/ (b.retry = <<>> /\ rest = <<>>) THEN e.bars = <<b.start>> ELSE e.bars = <<>>
    BY <1>2, <1>10, TransmissionIs
  <2> QED BY <1>10, <2>1
<1>12. SeqsOf(u) = SeqsOf(t) \cup {nextSeq} /\ Fresh(u) = Fresh(t) \cup {nextSeq}
  BY <1>6, <1>8, <1>9, AppendedSeqs
<1>13. SeqsOf(t) \subseteq Sent /\ Fresh(t) = Young /\ (Young # {} => a.start \in Young)
       /\ a.start \in Nat /\ ba.start <= a.start /\ a.start <= nextSeq /\ \A s \in SeqsOf(t) : a.start <= s
  BY <1>3, <1>9 DEF Tidy
<1>14. Young' = Young \cup {nextSeq} /\ Sent' \subseteq Sent \cup {nextSeq} /\ Waiting' = {}
       /\ \A s \in Sent' : a.start <= s
  <2>1. ba'.sent = u /\ ba'.retry = <<>> /\ expired' = expired
    BY <1>1, <1>2, <1>11
  <2>2. Young' = Fresh(u)
    BY <2>1 DEF Young, Fresh
  <2>3. Sent' = SeqsOf(u)
    BY <2>1 DEF Sent, SeqsOf
  <2>4. Waiting' = {}
    BY <2>1 DEF Waiting, ToSet
  <2> QED BY <1>12, <1>13, <2>2, <2>3, <2>4
<1>15. air'.kind = "data" /\ IsBlock(air') /\ Flying' = {nextSeq} /\ cur'.kind = "data"
  <2>1. air'.kind = "data" /\ air'.policy = "block" /\ air'.item = item
    BY <1>2, Kinds, Items
  <2> QED BY <1>2, <1>6, <2>1 DEF IsBlock, Flying
<1>16. Asks = {}
  BY <1>2, Kinds, NoBarAsks
<1>17. Asks' \subseteq {a.start} /\ (Asks' = {} <=> e.bars = <<>>)
  <2>1. Asks' = ToSet(e.bars)
    BY <1>1, <1>15 DEF Asks
  <2>2. e.bars = <<>> \/ e.bars = <<a.start>>
    BY <1>11
  <2>3. ToSet(<<>>) = {} /\ ToSet(<<a.start>>) = {a.start}
    BY DEF ToSet
  <2> QED BY <2>1, <2>2, <2>3
<1>18. e.bars = <<>> => next < a.start + Window
  <2>1. a.start \in Seqs
    BY <1>3, AgreementIs DEF Ordered
  <2>2. Dist(next, a.start) = next - a.start
    BY <1>4, <1>13, <2>1, EarlyDist
  <2>3. Window \in Nat
    BY SpaceType
  <2> QED BY <1>4, <1>11, <1>13, <2>2, <2>3
<1> QED BY <1>1, <1>2, <1>3, <1>4, <1>11, <1>13, <1>14, <1>15, <1>16, <1>17, <1>18 DEF FirstEffect

(* The new packet is in the window, or a request follows it.               *)
LEMMA FirstOrder ==
  ASSUME FirstHalf, Sending, FirstEffect
  PROVE  WindowOrder' /\ Narrow'
<1>1. Low(Young, nextSeq) /\ nextSeq \in Nat /\ Window \in Nat /\ Window >= 1
  BY TypedIs DEF Typed, Sending
<1>2. \A t \in Young : nextSeq < t + Window /\ t \in Nat /\ t < nextSeq
  BY <1>1, NothingWaits DEF FirstEffect, Low
<1>3. WindowOrder'
  <2>1. ba'.start <= nextSeq' /\ \A z \in Asks' : z < nextSeq' /\ \A s \in Sent' : z <= s
    BY <1>1 DEF FirstEffect
  <2> QED BY <2>1 DEF FirstEffect, WindowOrder
<1>4. Live' = Young \cup {nextSeq}
  BY DEF Live, FirstEffect
<1>5. \A x, t \in Live' : x < t + Window
  <2> TAKE x, t \in Live'
  <2>1. CASE x \in Young /\ t \in Young
    BY <2>1 DEF Sending, Narrow, Live
  <2>2. CASE x = nextSeq \/ t = nextSeq
    BY <1>1, <1>2, <1>4, <2>2
  <2> QED BY <1>4, <2>1, <2>2
<1>6. Asks' = {} => \A t \in Young' : nextSeq' < t + Window
  <2> SUFFICES ASSUME Asks' = {}, NEW t \in Young' PROVE nextSeq' < t + Window
    OBVIOUS
  <2>1. nextSeq' < ba'.start + Window
    BY DEF FirstEffect
  <2>2. ba'.start <= t
    <3>1. t = nextSeq \/ (t \in Young /\ ba'.start \in Nat)
      BY DEF FirstEffect
    <3>2. Young' \subseteq Sent'
      BY DEF Young, Fresh, Sent, SeqsOf
    <3> QED BY <3>2 DEF FirstEffect
  <2>3. t \in Nat
    BY <1>1, <1>2 DEF FirstEffect
  <2> QED BY <1>1, <2>1, <2>2, <2>3 DEF FirstEffect
<1>7. \A z \in Asks' : \A s \in Young' : s < z + Window \/ (s + 1 = nextSeq' /\ Young' = {s})
  <2> SUFFICES ASSUME NEW z \in Asks', NEW s \in Young' PROVE s < z + Window \/ (s + 1 = nextSeq' /\ Young' = {s})
    OBVIOUS
  <2>1. z = ba'.start
    BY DEF FirstEffect
  <2>2. CASE Young # {}
    <3>1. z \in Young
      BY <2>1, <2>2 DEF FirstEffect
    <3>2. z \in Live' /\ s \in Live'
      BY <1>4, <3>1 DEF FirstEffect
    <3> QED BY <1>5, <3>2
  <2>3. CASE Young = {}
    BY <2>3 DEF FirstEffect
  <2> QED BY <2>2, <2>3
<1> QED BY <1>3, <1>5, <1>6, <1>7 DEF Narrow, Newest

(* No block ack came: the old packets are dropped, and the request with    *)
(* them when the window has gone past it.                                  *)
MissedEffect ==
  \E z \in Asks :
    /\ Asks = {z} /\ (Asks' = {z} \/ (Asks' = {} /\ z + Window - 1 < ba'.start))
    /\ Waiting = {} /\ Waiting' = {} /\ Flying' = {} /\ nextSeq' = nextSeq
    /\ Young' = Young /\ Sent' \subseteq Sent /\ (Young # {} => ba'.start \in Young)
    /\ ba'.start \in Nat /\ ba.start <= ba'.start /\ ba'.start <= nextSeq /\ (\A s \in Sent' : ba'.start <= s)
    /\ air'.kind = "none"

(* MissedBlockAck does that.                                               *)
LEMMA MissedSteps ==
  ASSUME FirstHalf, Sending, MissedBlockAck
  PROVE  MissedEffect
<1>1. PICK z, c : z = cur.start /\ c = Cleanup(ba) /\ ba' = c /\ c = ba'
  BY DEF MissedBlockAck
<1>2. /\ low = "blockack" /\ air' = NoFrame /\ nextSeq' = nextSeq /\ expired' = expired
      /\ (cur' = IF z + Window - 1 < c.start THEN NoFrame ELSE cur)
  BY <1>1 DEF MissedBlockAck, TimedOut
<1>3. cur.kind = "bar" /\ ba.bars = <<>>
  BY <1>2 DEF Sending, OrderInv, WindowInv, PacketInv, Serving, Requested
<1>4. Asks = {z}
  BY <1>1, <1>3 DEF Asks, ToSet
<1>5. Waiting = {}
  BY <1>4 DEF Sending, WindowOrder
<1>6. Tidy(c)
  BY <1>1, CleanupTidy DEF Sending
<1>7. ToSet(c.retry) = {} /\ c.bars = <<>> /\ Fresh(c.sent) = Young /\ SeqsOf(c.sent) \subseteq Sent
      /\ (Young # {} => c.start \in Young)
      /\ c.start \in Nat /\ ba.start <= c.start /\ c.start <= nextSeq /\ \A s \in SeqsOf(c.sent) : c.start <= s
  BY <1>3, <1>5, <1>6 DEF Tidy
<1>8. Waiting' = {} /\ Young' = Young /\ Sent' \subseteq Sent /\ \A s \in Sent' : c.start <= s
  <2>1. Waiting' = ToSet(c.retry)
    BY <1>1 DEF Waiting
  <2>2. Young' = Fresh(c.sent)
    BY <1>1, <1>2 DEF Young, Fresh
  <2>3. Sent' = SeqsOf(c.sent)
    BY <1>1 DEF Sent, SeqsOf
  <2> QED BY <1>7, <2>1, <2>2, <2>3
<1>9. Flying' = {} /\ air'.kind = "none"
  BY <1>2, Kinds DEF Flying, IsBlock
<1>10. Asks' = {z} \/ (Asks' = {} /\ z + Window - 1 < c.start)
  <2>1. ba'.bars = <<>>
    BY <1>1, <1>7
  <2>2. CASE z + Window - 1 < c.start
    <3>1. cur'.kind # "bar"
      BY <1>2, <2>2, Kinds
    <3> QED BY <2>1, <2>2, <3>1 DEF Asks, ToSet
  <2>3. CASE ~(z + Window - 1 < c.start)
    <3>1. cur'.kind = "bar" /\ cur'.start = z
      BY <1>1, <1>2, <1>3, <2>3
    <3> QED BY <2>1, <3>1 DEF Asks, ToSet
  <2> QED BY <2>2, <2>3
<1> QED BY <1>1, <1>2, <1>4, <1>5, <1>7, <1>8, <1>9, <1>10 DEF MissedEffect

(* What is dropped narrows the window.                                     *)
LEMMA MissedOrder ==
  ASSUME FirstHalf, Window > 1, Sending, MissedEffect
  PROVE  WindowOrder' /\ Narrow'
<1>1. PICK z \in Asks :
    /\ Asks = {z} /\ (Asks' = {z} \/ (Asks' = {} /\ z + Window - 1 < ba'.start))
    /\ Waiting = {} /\ Waiting' = {} /\ Flying' = {} /\ nextSeq' = nextSeq
    /\ Young' = Young /\ Sent' \subseteq Sent /\ (Young # {} => ba'.start \in Young)
    /\ ba'.start \in Nat /\ ba.start <= ba'.start /\ ba'.start <= nextSeq /\ (\A s \in Sent' : ba'.start <= s)
    /\ air'.kind = "none"
  BY DEF MissedEffect
<1>2. Low(Young, nextSeq) /\ nextSeq \in Nat /\ Window \in Nat /\ z \in Nat
  BY TypedIs DEF Typed, Sending
<1>3. WindowOrder'
  BY <1>1 DEF Sending, WindowOrder
<1>4. Live' \subseteq Live
  BY <1>1 DEF Live
<1>5. \A x, t \in Live' : x < t + Window
  BY <1>4 DEF Sending, Narrow
<1>6. Asks' = {} => \A t \in Young' : nextSeq' < t + Window
  <2> SUFFICES ASSUME Asks' = {}, NEW t \in Young PROVE nextSeq < t + Window
    BY <1>1
  <2>1. PICK y : y = ba'.start /\ y \in Young /\ y \in Nat /\ z + Window - 1 < y
    BY <1>1
  <2>2. y < z + Window \/ (Newest(y) /\ Young = {y})
    BY <1>1, <2>1 DEF Sending, Narrow
  <2>3. y + 1 = nextSeq /\ t = y
    BY <1>2, <2>1, <2>2 DEF Newest
  <2> QED BY <1>2, <2>1, <2>3
<1>7. \A x \in Asks' : \A s \in Young' : s < x + Window \/ (s + 1 = nextSeq' /\ Young' = {s})
  <2>1. \A s \in Young : s < z + Window \/ (s + 1 = nextSeq /\ Young = {s})
    BY <1>1 DEF Sending, Narrow, Newest
  <2> QED BY <1>1, <2>1
<1> QED BY <1>3, <1>5, <1>6, <1>7 DEF Narrow, Newest

(* The block ack came: what it does not cover waits to be sent again.      *)
GotEffect ==
  /\ Asks' = {} /\ Waiting = {} /\ Flying' = {} /\ nextSeq' = nextSeq
  /\ Sent' \subseteq Sent /\ Waiting' = Sent' /\ Young' \subseteq Young
  /\ \A s \in Waiting' : s \notin air.acked
  /\ ba'.start \in Nat /\ ba.start <= ba'.start /\ ba'.start <= nextSeq /\ (\A s \in Sent' : ba'.start <= s)
  /\ air.kind = "ba" /\ air'.kind = "none"

(* GotBlockAck does that under an established agreement.                   *)
LEMMA GotSteps ==
  ASSUME FirstHalf, Sending, GotBlockAck, ba.state = "established"
  PROVE  GotEffect
<1>1. PICK a, b, acked, n : a = ba /\ b = ba' /\ acked = air.acked /\ n = Draw(nextSeq)
  OBVIOUS
<1>2. /\ air.kind = "ba" /\ b = NotifyGotBlockAck(a, acked) /\ air' = NoFrame /\ cur' = NoFrame
      /\ UNCHANGED <<nextSeq, expired>>
  BY <1>1 DEF GotBlockAck, Answered, NothingElseTold
<1>3. cur.kind = "bar" /\ ba.bars = <<>>
  BY <1>2 DEF Sending, OrderInv, WindowInv, Answering, Requested
<1>4. cur.start \in Asks /\ Waiting = {}
  BY <1>3 DEF Asks, Sending, WindowOrder
<1>5. \A i \in DOMAIN a.retry : a.retry[i] \notin acked
  BY <1>1, <1>4 DEF Waiting, ToSet
<1>6. nextSeq \in Seqs /\ n \in 0..Cardinality(Packet) /\ Ordered(a, n) /\ nextSeq \in Nat /\ ba.start \in Nat
  BY <1>1, NumberedIs, TypedIs DEF Sending, OrderInv, WindowInv, Numbered, Typed
<1>7. PICK w : w = Without(a.sent, acked)
  OBVIOUS
<1>8. /\ Ordered(b, n) /\ b.bars = <<>> /\ b.sent = w
      /\ Retries(b.retry, w)
      /\ b.start = IF w # <<>> THEN w[1].seq ELSE IF Len(queue) + Len(w) >= Threshold THEN nextSeq ELSE a.start
  <2>1. /\ Ordered(b, n) /\ b.bars = a.bars /\ b.sent = Without(a.sent, acked)
        /\ Retries(b.retry, Without(a.sent, acked))
        /\ b.start = IF Without(a.sent, acked) # <<>> THEN Without(a.sent, acked)[1].seq
                     ELSE IF Len(queue) + Len(Without(a.sent, acked)) >= Threshold THEN nextSeq ELSE a.start
    <3>1. a.state = "established" /\ HalfTheNumbers
      BY <1>1, HalfSuffices
    <3>2. b = NotifyGotBlockAck(a, acked) /\ nextSeq \in Seqs /\ n \in 0..Cardinality(Packet) /\ Ordered(a, n)
      BY <1>2, <1>6
    <3>3. Ordered(b, n) /\ b.bars = a.bars /\ b.sent = Without(a.sent, acked)
      BY <1>5, <3>1, <3>2, BlockAckOrdered
    <3>4. Retries(b.retry, Without(a.sent, acked))
      BY <1>5, <3>1, <3>2, BlockAckOrdered
    <3>5. b.start = IF Without(a.sent, acked) # <<>> THEN Without(a.sent, acked)[1].seq
                    ELSE IF Len(queue) + Len(Without(a.sent, acked)) >= Threshold THEN nextSeq ELSE a.start
      BY <1>5, <3>1, <3>2, BlockAckOrdered
    <3> QED BY <3>3, <3>4, <3>5
  <2>2. a.bars = <<>>
    BY <1>1, <1>3
  <2> QED BY <1>7, <2>1, <2>2
<1>9. w \in Seq(Item) /\ Part(w, a.sent) /\ \A i \in DOMAIN w : w[i].seq \notin acked
  <2>1. a.sent \in Seq(Item)
    BY <1>6, AgreementIs DEF Ordered
  <2> QED BY <1>7, <2>1, WithoutPart
<1>10. SeqsOf(w) \subseteq Sent /\ Fresh(w) \subseteq Young
  <2>1. Among(w, a.sent)
    BY <1>9 DEF Part, Among
  <2> QED BY <1>1, <2>1, AmongItems DEF Sent, Young
<1>11. ToSet(b.retry) = SeqsOf(w)
  <2>1. SeqsOf(w) \subseteq ToSet(b.retry)
    BY <1>8 DEF SeqsOf, ToSet, Retries
  <2>2. ToSet(b.retry) \subseteq SeqsOf(b.sent)
    BY <1>1, <1>8, SentRises DEF Sending
  <2> QED BY <1>8, <2>1, <2>2
<1>12. Sent' = SeqsOf(w) /\ Young' = Fresh(w) /\ Waiting' = SeqsOf(w)
  <2>1. Sent' = SeqsOf(w)
    BY <1>1, <1>8 DEF Sent, SeqsOf
  <2>2. Young' = Fresh(w)
    BY <1>1, <1>2, <1>8 DEF Young, Fresh
  <2>3. Waiting' = SeqsOf(w)
    BY <1>1, <1>11 DEF Waiting
  <2> QED BY <2>1, <2>2, <2>3
<1>13. \A s \in SeqsOf(w) : s \notin acked
  BY <1>9 DEF SeqsOf
<1>14. b.start \in Nat /\ ba.start <= b.start /\ b.start <= nextSeq /\ \A s \in SeqsOf(w) : b.start <= s
  <2>1. CASE w = <<>>
    <3>1. SeqsOf(w) = {}
      BY <2>1 DEF SeqsOf
    <3>2. b.start \in {nextSeq, ba.start} /\ ba.start <= nextSeq
      BY <1>1, <1>8, <2>1 DEF Sending, WindowOrder
    <3> QED BY <1>6, <3>1, <3>2
  <2>2. CASE w # <<>>
    <3>1. 1 \in DOMAIN w /\ b.start = w[1].seq /\ \A i \in DOMAIN w : i = 1 \/ 1 < i
      BY <1>8, <1>9, <2>2
    <3>2. b.start \in SeqsOf(w) /\ b.start \in Sent
      BY <1>10, <3>1 DEF SeqsOf
    <3>3. ba.start <= b.start
      BY <3>2 DEF Sending, WindowOrder
    <3>4. \A i, j \in DOMAIN w : i < j => w[i].seq < w[j].seq
      BY <1>1, <1>8, SentRises DEF Sending
    <3>5. Low(Sent, nextSeq)
      BY TypedIs DEF Typed, Sending
    <3>6. \A s \in SeqsOf(w) : b.start <= s
      <4> SUFFICES ASSUME NEW i \in DOMAIN w PROVE b.start <= w[i].seq
        BY DEF SeqsOf
      <4>1. w[i].seq \in Nat /\ b.start \in Nat
        BY <1>10, <3>2, <3>5 DEF Low, SeqsOf
      <4>2. i = 1 \/ w[1].seq < w[i].seq
        BY <3>1, <3>4
      <4> QED BY <3>1, <4>1, <4>2
    <3>7. b.start \in Nat /\ b.start <= nextSeq
      BY <1>6, <3>2, <3>5 DEF Low
    <3> QED BY <3>3, <3>6, <3>7
  <2> QED BY <2>1, <2>2
<1>15. air'.kind = "none" /\ cur'.kind = "none" /\ Flying' = {}
  BY <1>2, Kinds DEF Flying, IsBlock
<1>16. Asks' = {}
  BY <1>1, <1>8, <1>15 DEF Asks, ToSet
<1> QED BY <1>1, <1>2, <1>4, <1>10, <1>12, <1>13, <1>14, <1>15, <1>16 DEF GotEffect

(* The next window begins with the first packet that is not covered.       *)
LEMMA GotOrder ==
  ASSUME FirstHalf, Sending, GotEffect
  PROVE  WindowOrder' /\ Narrow'
<1>1. Low(Sent, nextSeq) /\ nextSeq \in Nat
  BY TypedIs DEF Typed, Sending
<1>2. \A s \in Sent' : s <= s
  BY <1>1 DEF GotEffect, Low
<1>3. Young' \subseteq Sent'
  BY DEF Young, Fresh, Sent, SeqsOf
<1>4. WindowOrder'
  BY <1>2 DEF GotEffect, WindowOrder
<1>5. Live' \subseteq Live
  BY DEF Live, GotEffect
<1>6. \A x, t \in Live' : x < t + Window
  BY <1>5 DEF Sending, Narrow
<1>7. Waiting' = {} => Young' = {}
  BY <1>3 DEF GotEffect
<1> QED BY <1>4, <1>6, <1>7 DEF GotEffect, Narrow

(* A DELBA frame that comes twice changes nothing.                         *)
LEMMA DelbaCalm ==
  ASSUME GotDelBaFrame, ba' = ba
  PROVE  Calm /\ air'.kind = "ack"
<1>1. UNCHANGED <<nextSeq, cur, expired>> /\ air'.kind = "ack"
  BY Kinds DEF GotDelBaFrame, NothingElseTold
<1>2. Sent' = Sent /\ Young' = Young /\ Waiting' = Waiting /\ Asks' = Asks /\ Flying' = {}
  BY <1>1 DEF Sent, Young, Fresh, SeqsOf, Waiting, Asks, Flying, IsBlock
<1> QED BY <1>1, <1>2 DEF Calm

(* Whatever the step, the window of the originator stays as it should be.  *)
LEMMA WindowsStep ==
  ASSUME FirstHalf, Window > 1, Sending, InService, Next
  PROVE  WindowOrder' /\ Narrow'
<1>1. OrderInv /\ WindowOrder /\ Narrow
  BY DEF Sending
<1>2. CASE \/ Queue \/ Expire \/ Lose \/ Resend \/ SendBlockAckRequest \/ EndTxNoAck \/ SendReply
           \/ ReceiveUnderBlockAck \/ ReceiveUnderNormalAck \/ ReceiveBlockAckReq
           \/ ReceiveAddBaRequest \/ ReceiveDelBa \/ ReceiveAddBaResponse
           \/ (GotAck /\ cur.kind # "delba") \/ ReplyGotAck
           \/ MissedAck \/ ReplyMissedAck \/ \E side \in {"originator", "recipient"} : InactivityTimeout(side)
  BY <1>1, <1>2, CalmSteps, CalmOrder
<1>3. CASE SetupBlockAck \/ (GotDelBaFrame /\ ba' # ba) \/ (GotAck /\ cur.kind = "delba")
           \/ (GotBlockAck /\ ba.state # "established")
  BY <1>1, <1>3, EmptySteps
<1>4. CASE GotDelBaFrame /\ ba' = ba
  BY <1>1, <1>4, DelbaCalm, CalmOrder
<1>5. CASE SendDelba \/ SendNothing \/ (SendFirst /\ ba.state # "established")
  BY <1>5, RestSteps, RestOrder
<1>6. CASE SendRetry
  BY <1>6, RetrySteps, RetryWindows
<1>7. CASE SendFirst /\ ba.state = "established"
  BY <1>7, FirstSteps, FirstOrder
<1>8. CASE MissedBlockAck
  BY <1>8, MissedSteps, MissedOrder
<1>9. CASE GotBlockAck /\ ba.state = "established"
  BY <1>9, GotSteps, GotOrder
<1> QED BY <1>2, <1>3, <1>4, <1>5, <1>6, <1>7, <1>8, <1>9 DEF Next, Originate, Receive, Timeout

-----------------------------------------------------------------------------
(* The recipient stands still, and the originator has no new packet for it. *)
Eased ==
  /\ UNCHANGED <<rx, up, lastSeq, nextSeq>> /\ Way' \subseteq Way
  /\ Young' \subseteq Young /\ Live' \subseteq Live
  /\ air'.kind = "ba" => air' = air
  /\ \A t \in Waiting' \cap Young' : t \in Waiting \/ (air.kind = "ba" /\ t \notin air.acked)
  /\ \A t \in Flying' : \/ air' = air
                        \/ t \in Waiting \cap Young /\ air'.item.retry /\ ba'.start \in Young /\ Asks' \subseteq {ba'.start}
  /\ NeverTornDown' => NeverTornDown /\ ba'.start \in Nat /\ ba.start <= ba'.start /\ Asks' \subseteq Asks \cup {ba'.start}

(* The requests that may still come move on.                               *)
LEMMA BehindNext ==
  ASSUME ba.start \in Nat, ba'.start \in Nat, ba.start <= ba'.start, Asks' \subseteq Asks \cup {ba'.start},
         NEW s \in Nat, Behind(s)
  PROVE  Behind(s)'
<1>1. s <= ba'.start /\ \A z \in Asks : s <= z
  BY DEF Behind
<1>2. s <= ba'.start /\ \A z \in Asks' : s <= z
  BY <1>1
<1> QED BY <1>2 DEF Behind

(* What may still arrive becomes less: the recipient lacks it as before.   *)
LEMMA EasedLink ==
  ASSUME FirstHalf, OrderInv, Link, Eased
  PROVE  Link'
<1>1. Typed
  BY TypedIs
<1>2. /\ ba.start \in Nat /\ (\A s \in Buffered : s \in Nat) /\ (\A s \in Waiting : s \in Nat) /\ (\A s \in Flying : s \in Nat)
      /\ Buffered' = Buffered /\ rx' = rx /\ up' = up /\ lastSeq' = lastSeq /\ nextSeq' = nextSeq
  BY <1>1 DEF Typed, Low, Eased, Buffered, SeqsOf
<1>3. RecipientOrder'
  <2>1. UpOrder(Way, up, lastSeq)' 
    BY LessUpOrder DEF Eased, Link, RecipientOrder
  <2>2. BufferOrder' /\ RecordBounds'
    BY <1>2 DEF Link, RecipientOrder, BufferOrder, RecordBounds
  <2> QED BY <2>1, <2>2 DEF RecipientOrder
<1>4. \A s : (Missing(s)' <=> Missing(s)) /\ (Newest(s)' <=> Newest(s))
  BY <1>2 DEF Missing, Newest, Past
<1>5. air' = air => Flying' = Flying
  BY DEF Flying, IsBlock
<1>6. LinkOrder'
  <2> SUFFICES ASSUME rx.exists PROVE /\ \A s \in Live' : Missing(s)' /\ rx.winStart <= s
                                      /\ \A s \in Again' : s \in rx.bitmap => Newest(s)'
                                      /\ air'.kind = "ba" => \A s \in Young' : s \in rx.bitmap => s \in air'.acked \/ Newest(s)'
    BY <1>2 DEF LinkOrder
  <2>1. LinkOrder /\ Eased
    BY DEF Link
  <2>2. \A s \in Live' : Missing(s)' /\ rx.winStart <= s
    BY <1>4, <2>1 DEF LinkOrder, Eased
  <2>3. ASSUME NEW s \in Again', s \in rx.bitmap PROVE Newest(s)
    <3>1. CASE s \in Waiting' \cap Young'
      <4>1. s \in Young /\ (s \in Waiting \/ (air.kind = "ba" /\ s \notin air.acked))
        BY <2>1, <3>1 DEF Eased
      <4> QED BY <2>1, <2>3, <4>1 DEF LinkOrder, Again
    <3>2. CASE s \in Flying'
      <4>1. s \in Flying \/ s \in Waiting \cap Young
        BY <1>5, <2>1, <3>2 DEF Eased
      <4> QED BY <2>1, <2>3, <4>1 DEF LinkOrder, Again
    <3> QED BY <2>3, <3>1, <3>2 DEF Again
  <2>4. ASSUME air'.kind = "ba", NEW s \in Young', s \in rx.bitmap PROVE s \in air'.acked \/ Newest(s)
    <3>1. air' = air /\ s \in Young
      BY <2>1, <2>4 DEF Eased
    <3> QED BY <2>1, <2>4, <3>1 DEF LinkOrder
  <2> QED BY <1>4, <2>2, <2>3, <2>4
<1>7. ASSUME NeverTornDown' PROVE (Climbing(up) /\ Copies /\ Echoes)'
  <2>1. /\ NeverTornDown /\ ba'.start \in Nat /\ ba.start <= ba'.start /\ Asks' \subseteq Asks \cup {ba'.start}
        /\ Climbing(up) /\ Copies /\ Echoes
    BY <1>7 DEF Eased, Link, Chain
  <2>2. \A s \in Nat : Behind(s) => Behind(s)'
    BY <1>2, <2>1, BehindNext
  <2>3. Copies'
    <3>1. Repeats(rx.buffer, lastSeq)' /\ \A s : Twice(rx.buffer, s)' <=> Twice(rx.buffer, s)
      BY <1>2, <2>1 DEF Copies
    <3>2. (\A s \in Buffered : Twice(rx.buffer, s) => rx.start # s /\ Behind(s)')
      BY <1>2, <2>1, <2>2 DEF Copies
    <3>3. (\A s \in Buffered : s < rx.start => rx.start = s + 1 /\ Behind(s)')
      BY <1>2, <2>1, <2>2 DEF Copies
    <3>4. (\A s \in Buffered' : Twice(rx.buffer, s)' => rx'.start # s /\ Behind(s)')
      BY <1>2, <3>1, <3>2
    <3>5. (\A s \in Buffered' : s < rx'.start => rx'.start = s + 1 /\ Behind(s)')
      BY <1>2, <3>3
    <3> QED BY <3>1, <3>4, <3>5 DEF Copies
  <2>4. \A s \in Young' : Lone(s) => Lone(s)'
    <3> SUFFICES ASSUME NEW s \in Young', Lone(s) PROVE Lone(s)'
      OBVIOUS
    <3>1. Young' = {s}
      BY DEF Lone, Eased
    <3> QED BY <1>2, <1>4, <3>1 DEF Lone
  <2>5. ASSUME NEW s \in Waiting' \cap Young', s \in rx.bitmap PROVE Lone(s)'
    <3>1. s \in Young /\ (s \in Waiting \/ (air.kind = "ba" /\ s \notin air.acked))
      BY <2>5 DEF Eased
    <3>2. Lone(s)
      BY <2>1, <2>5, <3>1 DEF Echoes
    <3> QED BY <2>4, <2>5, <3>2
  <2>6. ASSUME NEW s \in Flying', s \in rx.bitmap
        PROVE  Newest(s)' /\ air'.item.retry /\ Behind(s)' /\ (s \in Buffered => rx.start # s)
    <3>1. CASE air' = air
      <4>1. s \in Flying /\ s \in Nat
        BY <1>2, <1>5, <2>6, <3>1
      <4>2. Newest(s) /\ air.item.retry /\ Behind(s) /\ (s \in Buffered => rx.start # s)
        BY <2>1, <2>6, <4>1 DEF Echoes
      <4> QED BY <1>4, <2>2, <3>1, <4>1, <4>2
    <3>2. CASE s \in Waiting \cap Young /\ air'.item.retry /\ ba'.start \in Young /\ Asks' \subseteq {ba'.start}
      <4>1. Lone(s) /\ s \in Nat
        BY <1>2, <2>1, <2>6, <3>2 DEF Echoes
      <4>2. ba'.start = s
        BY <3>2, <4>1 DEF Lone
      <4>3. s <= s
        BY <4>1
      <4>4. Behind(s)'
        BY <3>2, <4>2, <4>3 DEF Behind
      <4> QED BY <1>4, <3>2, <4>1, <4>4 DEF Lone
    <3> QED BY <2>6, <3>1, <3>2 DEF Eased
  <2>7. ASSUME air'.kind = "ba", NEW s \in Young', s \in rx.bitmap PROVE s \in air'.acked \/ Lone(s)'
    <3>1. air' = air /\ s \in Young
      BY <2>7 DEF Eased
    <3>2. s \in air.acked \/ Lone(s)
      BY <2>1, <2>7, <3>1 DEF Echoes
    <3> QED BY <2>4, <2>7, <3>1, <3>2
  <2>8. Echoes'
    <3>1. (\A s \in Waiting' \cap Young' : s \in rx'.bitmap => Lone(s)')
      BY <1>2, <2>5
    <3>2. (\A s \in Flying' : s \in rx'.bitmap => Newest(s)' /\ air'.item.retry /\ Behind(s)' /\ (s \in Buffered' => rx'.start # s))
      BY <1>2, <2>6
    <3>3. air'.kind = "ba" => \A s \in Young' : s \in rx'.bitmap => s \in air'.acked \/ Lone(s)'
      BY <1>2, <2>7
    <3> QED BY <3>1, <3>2, <3>3 DEF Echoes
  <2> QED BY <1>2, <2>1, <2>3, <2>8
<1> QED BY <1>3, <1>6, <1>7 DEF Link, Chain

(* An agreement that was torn down stays so.                               *)
LEMMA TimesOut ==
  ASSUME OrderInv, Next, NeverTornDown'
  PROVE  NeverTornDown
<1>1. timeouts' = timeouts \/ timeouts' = timeouts + 1
  BY DEF Next, Originate, Receive, Timeout, Queue, Expire, Lose, Resend, SendBlockAckRequest, SendRetry, SendDelba, SetupBlockAck,
         SendFirst, SendNothing, EndTxNoAck, SendReply, ReceiveUnderBlockAck, ReceiveUnderNormalAck, ReceiveBlockAckReq,
         ReceiveAddBaRequest, ReceiveDelBa, ReceiveAddBaResponse, GotDelBaFrame, GotBlockAck, GotAck, ReplyGotAck, MissedAck,
         ReplyMissedAck, MissedBlockAck, InactivityTimeout, NothingElseSent, NothingElseReceived, NothingElseTold
<1>2. timeouts \in Nat
  BY DEF OrderInv, WindowInv, PacketInv, AgreementInv, Records
<1> QED BY <1>1, <1>2, SMTT(30) DEF NeverTornDown

(* Before any timer expired no DELBA frame is about.                       *)
LEMMA HandshakeIs ==
  ASSUME OrderInv, NeverTornDown
  PROVE  "delba" \notin {cur.kind, air.kind} /\ rcur.kind # "delba"
  BY DEF OrderInv, WindowInv, PacketInv, AgreementInv, Handshake, NoDelba

(* Every step that leaves the recipient alone is of this kind, unless a    *)
(* packet gets its number.                                                 *)
LEMMA EasedSteps ==
  ASSUME FirstHalf, Sending, InService, Next, ~SendFirst, UNCHANGED <<rx, up, lastSeq>>,
         air'.kind = "ba" => air' = air
  PROVE  Eased
<1>1. OrderInv /\ WindowOrder /\ Typed
  BY TypedIs DEF Sending
<1>2. nextSeq' = nextSeq /\ Way' \subseteq Way
  <2>1. Quiet
    BY <1>1, HalfSuffices, QuietSteps DEF OrderInv
  <2> QED BY <2>1 DEF Quiet, Way
<1>3. NeverTornDown' => NeverTornDown
  BY <1>1, TimesOut
<1>4. ba.start \in Nat /\ ba.start <= ba.start /\ ba.start <= nextSeq /\ nextSeq \in Nat
  BY <1>1 DEF Typed, WindowOrder
<1>5. ASSUME Calm, air' = air \/ ~IsBlock(air') PROVE Eased
  <2>1. Live' \subseteq Live
    BY <1>5 DEF Calm, Live
  <2>2. \A t \in Flying' : air' = air
    BY <1>5 DEF Flying, IsBlock
  <2> QED BY <1>2, <1>3, <1>4, <1>5, <2>1, <2>2 DEF Eased, Calm
<1>6. CASE \/ Queue \/ Expire \/ Lose \/ Resend \/ SendBlockAckRequest \/ EndTxNoAck \/ SendReply
           \/ ReceiveUnderBlockAck \/ ReceiveUnderNormalAck \/ ReceiveBlockAckReq
           \/ ReceiveAddBaRequest \/ ReceiveDelBa \/ ReceiveAddBaResponse
           \/ (GotAck /\ cur.kind # "delba") \/ ReplyGotAck
           \/ MissedAck \/ ReplyMissedAck \/ \E side \in {"originator", "recipient"} : InactivityTimeout(side)
  BY <1>1, <1>5, <1>6, CalmSteps
<1>7. CASE GotDelBaFrame /\ ba' = ba
  BY <1>5, <1>7, DelbaCalm DEF IsBlock
<1>8. CASE SetupBlockAck \/ (GotDelBaFrame /\ ba' # ba) \/ (GotAck /\ cur.kind = "delba")
           \/ (GotBlockAck /\ ba.state # "established")
  <2>1. Young' = {} /\ Waiting' = {} /\ Flying' = {} /\ Live' = {}
    BY <1>1, <1>8, EmptySteps DEF Live
  <2>2. ASSUME NeverTornDown' PROVE ba'.start \in Nat /\ ba.start <= ba'.start /\ Asks' \subseteq Asks \cup {ba'.start}
    <3>1. CASE SetupBlockAck
      <4>1. cur' = AddBa(nextSeq) /\ ba' = [NoAgreement EXCEPT !.state = "pending", !.start = nextSeq]
        BY <3>1 DEF SetupBlockAck, Transmit
      <4>2. ba'.bars = <<>> /\ ba'.start = nextSeq /\ cur'.kind # "bar"
        BY <4>1, Kinds DEF NoAgreement
      <4> QED BY <1>4, <4>2 DEF Asks, ToSet
    <3>2. CASE GotBlockAck /\ ba.state # "established"
      <4>1. ba' = ba /\ cur' = NoFrame
        BY <3>2 DEF GotBlockAck
      <4> QED BY <1>4, <4>1, Kinds DEF Asks
    <3>3. CASE GotDelBaFrame \/ (GotAck /\ cur.kind = "delba")
      BY <1>1, <1>3, <2>2, <3>3, HandshakeIs DEF GotDelBaFrame
    <3> QED BY <1>8, <3>1, <3>2, <3>3
  <2> QED BY <1>2, <1>3, <2>1, <2>2 DEF Eased
<1>9. CASE SendDelba \/ SendNothing
  <2>1. RestEffect
    BY <1>9, RestSteps
  <2>2. Live' \subseteq Live
    BY <2>1 DEF RestEffect, Live
  <2> QED BY <1>2, <1>3, <2>1, <2>2 DEF Eased, RestEffect
<1>10. CASE SendRetry
  <2>1. PICK s : RetryEffect(s)
    BY <1>10, RetrySteps
  <2>2. Live' \subseteq Live
    BY <2>1 DEF RetryEffect, Live
  <2>3. ba'.start \in Nat
    BY <1>1, <2>1 DEF RetryEffect, Typed, Low
  <2> QED BY <1>2, <1>3, <2>1, <2>2, <2>3 DEF Eased, RetryEffect
<1>11. CASE MissedBlockAck
  <2>1. MissedEffect
    BY <1>11, MissedSteps
  <2>2. Live' \subseteq Live /\ Asks' \subseteq Asks /\ Young' \subseteq Young /\ Waiting' = {} /\ Flying' = {}
        /\ ba'.start \in Nat /\ ba.start <= ba'.start
    BY <2>1 DEF MissedEffect, Live
  <2> QED BY <1>2, <1>3, <2>2 DEF Eased
<1>12. CASE GotBlockAck /\ ba.state = "established"
  <2>1. GotEffect
    BY <1>12, GotSteps
  <2>2. Live' \subseteq Live
    BY <2>1 DEF GotEffect, Live
  <2> QED BY <1>2, <1>3, <2>1, <2>2 DEF Eased, GotEffect
<1> QED BY <1>6, <1>7, <1>8, <1>9, <1>10, <1>11, <1>12 DEF Next, Originate, Receive, Timeout

(* A packet gets its number: the recipient has not seen it.                *)
Grown ==
  /\ UNCHANGED <<rx, up, lastSeq, timeouts>> /\ Way' \subseteq Way \cup {<<nextSeq, Head(queue)>>} /\ queue # <<>>
  /\ nextSeq' = nextSeq + 1
  /\ Live' \subseteq Live \cup {nextSeq} /\ Waiting' = {} /\ Flying' \subseteq {nextSeq}
  /\ air'.kind # "ba"
  /\ ba'.start \in Nat /\ ba.start <= ba'.start /\ Asks' \subseteq {ba'.start}

(* SendFirst does that.                                                    *)
LEMMA FirstGrown ==
  ASSUME FirstHalf, Sending, SendFirst
  PROVE  Grown
<1>1. UNCHANGED <<rx, up, lastSeq>> /\ Way' \subseteq Way \cup {<<nextSeq, Head(queue)>>} /\ nextSeq' = nextSeq + 1
  BY FirstIs DEF Sending
<1>2. queue # <<>> /\ timeouts' = timeouts
  BY DEF SendFirst, HasData, NothingElseSent
<1>3. CASE ba.state = "established"
  <2>1. FirstEffect
    BY <1>3, FirstSteps
  <2>2. Live' \subseteq Live \cup {nextSeq}
    BY <2>1 DEF FirstEffect, Live
  <2> QED BY <1>1, <1>2, <2>1, <2>2 DEF Grown, FirstEffect
<1>4. CASE ba.state # "established"
  <2>1. RestEffect
    BY <1>4, RestSteps
  <2>2. Live' \subseteq Live
    BY <2>1 DEF RestEffect, Live
  <2> QED BY <1>1, <1>2, <2>1, <2>2 DEF Grown, RestEffect
<1> QED BY <1>3, <1>4

(* Nothing handed up comes after the new packet.                           *)
LEMMA GrownUp ==
  ASSUME FirstHalf, Sending, UpOrder(Way, up, lastSeq), Grown
  PROVE  UpOrder(Way', up', lastSeq')
<1>1. PICK h : h = Head(queue)
  OBVIOUS
<1>2. Typed
  BY TypedIs DEF Sending
<1>3. PICK q : q = queue /\ q \in Seq(Packet) /\ q # <<>>
  BY <1>2 DEF Typed, Grown
<1>4. 1 \in DOMAIN queue /\ h = queue[1] /\ h \in Packet
  <2>1. 1 \in DOMAIN q /\ Head(q) = q[1] /\ Head(q) \in Packet
    BY <1>3, Rest
  <2> QED BY <1>1, <1>3, <2>1
<1>5. \A i \in DOMAIN up : up[i] < h /\ up[i] \in Nat
  <2> TAKE i \in DOMAIN up
  <2>1. up[i] \in Told
    BY DEF Told, ToSet
  <2>2. PICK u : u = up /\ u \in Seq(Packet)
    BY <1>2 DEF Typed
  <2>3. up[i] \in Packet
    BY <2>2
  <2> QED BY <1>4, <2>1, <2>3, SpaceType DEF Sending, PacketOrder, ToldOrder
<1>6. h \in Nat
  BY <1>4, SpaceType
<1>7. ASSUME NEW i \in DOMAIN up, NEW x \in Way'
      PROVE  (lastSeq < x[1] => up[i] < x[2]) /\ (lastSeq = x[1] => up[i] <= x[2])
  <2>1. CASE x \in Way
    BY <2>1 DEF UpOrder
  <2>2. CASE x = <<nextSeq, h>>
    BY <1>5, <1>6, <2>2
  <2> QED BY <1>1, <2>1, <2>2 DEF Grown
<1>8. up' = up /\ lastSeq' = lastSeq
  BY DEF Grown
<1> QED BY <1>7, <1>8 DEF UpOrder

(* The recipient lacks the new packet.                                     *)
LEMMA GrownLink ==
  ASSUME FirstHalf, Sending, Link, Grown
  PROVE  Link'
<1>1. Typed
  BY TypedIs DEF Sending
<1>2. /\ ba.start \in Nat /\ nextSeq \in Nat /\ (\A s \in Buffered : s \in Nat /\ s < nextSeq) /\ rx.start \in Nat
      /\ rx.winStart \in Nat /\ nextSeq \notin rx.bitmap /\ nextSeq \notin Buffered
      /\ (lastSeq = SeqSpace \/ (lastSeq \in Nat /\ lastSeq < nextSeq))
      /\ Buffered' = Buffered /\ rx' = rx /\ up' = up /\ lastSeq' = lastSeq /\ nextSeq' = nextSeq + 1
  BY <1>1 DEF Typed, Low, Grown, Buffered, SeqsOf
<1>3. RecipientOrder'
  <2>1. UpOrder(Way, up, lastSeq)'
    BY GrownUp DEF Link, RecipientOrder
  <2>2. BufferOrder'
    BY <1>2 DEF Link, RecipientOrder, BufferOrder
  <2>3. RecordBounds'
    <3>1. rx.start <= nextSeq /\ rx.winStart <= nextSeq /\ \A s \in rx.bitmap : s <= rx.winEnd
      BY DEF Link, RecipientOrder, RecordBounds
    <3> QED BY <1>2, <3>1 DEF RecordBounds
  <2> QED BY <2>1, <2>2, <2>3 DEF RecipientOrder
<1>4. \A s : Missing(s)' <=> Missing(s)
  BY <1>2 DEF Missing, Past
<1>5. Missing(nextSeq) /\ rx.winStart <= nextSeq /\ nextSeq \notin rx'.bitmap
  BY <1>2 DEF Missing, Past, Link, RecipientOrder, RecordBounds
<1>6. LinkOrder'
  <2>1. rx'.exists => \A s \in Live' : Missing(s)' /\ rx'.winStart <= s
    BY <1>2, <1>4, <1>5 DEF Link, LinkOrder, Grown
  <2>2. \A s \in Again' : s \notin rx'.bitmap
    BY <1>5 DEF Again, Grown
  <2> QED BY <2>1, <2>2 DEF LinkOrder, Grown
<1>7. ASSUME NeverTornDown' PROVE (Climbing(up) /\ Copies /\ Echoes)'
  <2>1. /\ Climbing(up) /\ Copies /\ ba'.start \in Nat /\ ba.start <= ba'.start /\ Asks' \subseteq Asks \cup {ba'.start}
    BY <1>7 DEF Grown, Link, Chain, NeverTornDown
  <2>2. \A s \in Nat : Behind(s) => Behind(s)'
    BY <1>2, <2>1, BehindNext
  <2>3. Copies'
    <3>1. Repeats(rx.buffer, lastSeq)' /\ \A s : Twice(rx.buffer, s)' <=> Twice(rx.buffer, s)
      BY <1>2, <2>1 DEF Copies
    <3>2. (\A s \in Buffered : Twice(rx.buffer, s) => rx.start # s /\ Behind(s)')
      BY <1>2, <2>1, <2>2 DEF Copies
    <3>3. (\A s \in Buffered : s < rx.start => rx.start = s + 1 /\ Behind(s)')
      BY <1>2, <2>1, <2>2 DEF Copies
    <3>4. (\A s \in Buffered' : Twice(rx.buffer, s)' => rx'.start # s /\ Behind(s)')
      BY <1>2, <3>1, <3>2
    <3>5. (\A s \in Buffered' : s < rx'.start => rx'.start = s + 1 /\ Behind(s)')
      BY <1>2, <3>3
    <3> QED BY <3>1, <3>4, <3>5 DEF Copies
  <2>4. Echoes'
    <3>1. \A s \in Flying' : s \notin rx'.bitmap
      BY <1>5 DEF Grown
    <3> QED BY <3>1 DEF Echoes, Grown
  <2> QED BY <1>2, <2>1, <2>3, <2>4
<1> QED BY <1>3, <1>6, <1>7 DEF Link, Chain

(* A packet under normal acknowledgement enters the air with its number or *)
(* by Resend.                                                              *)
LEMMA NormalFrames ==
  ASSUME FirstHalf, OrderInv, InService, Next, ~SendFirst
  PROVE  /\ IsNormal(air') => (air' = air /\ lastSeq' = lastSeq) \/ (Resend /\ air' = cur /\ lastSeq' = lastSeq)
         /\ \/ cur' = cur /\ (low' = low \/ low # "ack")
            \/ ~IsNormal(cur')
            \/ cur.kind = "data" /\ cur' = [cur EXCEPT !.item.retry = TRUE] /\ cur \in Frame
<1>1. FrameInv /\ replies \in Seq({"resp", "delba"}) /\ cur \in Frame
  BY DEF OrderInv, WindowInv, PacketInv, Serving, FrameInv
<1>2. CASE SendRetry
  <2>1. IsBlock(air') /\ cur' = air'
    BY <1>2, Kinds DEF SendRetry, Transmit, IsBlock
  <2> QED BY <2>1 DEF IsNormal, IsBlock
<1>3. CASE Resend
  BY <1>3 DEF Resend, Transmit, MediumIdle, NothingElseSent, receiver
<1>4. CASE SendBlockAckRequest \/ SendDelba \/ SetupBlockAck
  <2>1. air'.kind # "data" /\ cur' = air'
    BY <1>4, Kinds DEF SendBlockAckRequest, SendDelba, SetupBlockAck, Transmit
  <2> QED BY <2>1 DEF IsNormal
<1>5. CASE SendReply
  <2>1. rcur' = rcur \/ (replies # <<>> /\ rcur' = Management(Head(replies)))
    BY <1>5 DEF SendReply
  <2>2. replies # <<>> => Head(replies) \in {"resp", "delba"}
    BY <1>1, Rest
  <2>3. air'.kind # "data"
    BY <1>1, <1>5, <2>1, <2>2, Kinds DEF FrameInv, SendReply
  <2>4. cur' = cur /\ low # "ack"
    BY <1>5 DEF SendReply, MediumIdle, sender
  <2> QED BY <2>3, <2>4 DEF IsNormal
<1>6. CASE \/ Queue \/ Expire \/ Lose \/ SendNothing \/ EndTxNoAck
           \/ MissedAck \/ ReplyMissedAck \/ MissedBlockAck
           \/ \E side \in {"originator", "recipient"} : InactivityTimeout(side)
  <2>1. (air' = air \/ air' = NoFrame) /\ lastSeq' = lastSeq
    BY <1>6 DEF Queue, Expire, Lose, SendNothing, EndTxNoAck, MissedAck, ReplyMissedAck, MissedBlockAck, InactivityTimeout,
         TimedOut, medium, receiver, NothingElseSent
  <2>2. \/ cur' = cur /\ (low' = low \/ low # "ack")
        \/ cur' = NoFrame
        \/ cur.kind = "data" /\ cur' = [cur EXCEPT !.item.retry = TRUE]
        \/ cur' = cur /\ cur.kind # "data"
    BY <1>6 DEF Queue, Expire, Lose, SendNothing, EndTxNoAck, MissedAck, ReplyMissedAck, MissedBlockAck, InactivityTimeout,
         TimedOut, medium, sender
  <2> QED BY <1>1, <2>1, <2>2, Kinds DEF IsNormal
<1>7. CASE \/ ReceiveUnderBlockAck \/ ReceiveUnderNormalAck \/ ReceiveBlockAckReq
           \/ ReceiveAddBaRequest \/ ReceiveDelBa \/ ReceiveAddBaResponse
           \/ GotDelBaFrame \/ GotBlockAck \/ GotAck \/ ReplyGotAck
  <2>1. \/ air' = NoFrame \/ air' = Management("ack") \/ \E s, acked : air' = BaFrame(s, acked)
    BY <1>7 DEF ReceiveUnderBlockAck, ReceiveUnderNormalAck, ReceiveBlockAckReq, ReceiveAddBaRequest, ReceiveDelBa,
         ReceiveAddBaResponse, GotDelBaFrame, GotBlockAck, GotAck, ReplyGotAck, Answered, BaFrame
  <2>2. \A s, acked : BaFrame(s, acked).kind = "ba"
    BY DEF BaFrame
  <2>3. air'.kind # "data"
    BY <2>1, <2>2, Kinds
  <2>4. (cur' = cur /\ (low' = low \/ low # "ack")) \/ cur' = NoFrame
    BY <1>7 DEF ReceiveUnderBlockAck, ReceiveUnderNormalAck, ReceiveBlockAckReq, ReceiveAddBaRequest, ReceiveDelBa,
         ReceiveAddBaResponse, GotDelBaFrame, GotBlockAck, GotAck, ReplyGotAck, Answered, NothingElseReceived, sender
  <2> QED BY <2>3, <2>4, Kinds DEF IsNormal
<1> QED BY <1>2, <1>3, <1>4, <1>5, <1>6, <1>7 DEF Next, Originate, Receive, Timeout

(* A record is made by a request for an agreement only.                    *)
LEMMA RecordNext ==
  ASSUME FirstHalf, OrderInv, Next, ~SendFirst, NeverTornDown
  PROVE  rx'.exists => rx.exists \/ air.kind = "addba"
<1>1. CASE Alone
  BY <1>1, AloneIs
<1>2. CASE ReceiveUnderBlockAck \/ ReceiveUnderNormalAck \/ ReceiveBlockAckReq
  <2>1. DOMAIN rx = DOMAIN NoRecord
    BY DEF OrderInv, WindowInv, PacketInv, AgreementInv, Records
  <2> QED BY <1>2, <2>1, DataReceived DEF Kept
<1>3. CASE ReceiveAddBaRequest
  BY <1>3 DEF ReceiveAddBaRequest
<1>4. CASE ReceiveDelBa \/ (ReplyGotAck /\ rcur.kind = "delba")
  BY <1>4, HandshakeIs DEF ReceiveDelBa
<1> QED BY <1>1, <1>2, <1>3, <1>4 DEF Next, Originate, Receive, Timeout, Alone

(* A packet under normal acknowledgement that arrives twice comes as a     *)
(* retry the second time.                                                  *)
LEMMA NormalsStep ==
  ASSUME FirstHalf, Sending, InService, Next, NeverTornDown, Normals
  PROVE  Normals'
<1>1. OrderInv /\ HalfTheNumbers /\ WindowInv /\ FrameInv /\ Typed
  BY HalfSuffices, TypedIs DEF Sending, OrderInv
<1>2. CASE SendFirst
  <2>1. PICK item, policy, wait :
          /\ air' = DataFrame(item, policy) /\ cur' = air' /\ low' = wait
          /\ item = [packet |-> Head(queue), seq |-> nextSeq, retry |-> FALSE]
          /\ (policy = "normal" => wait = "ack")
    BY <1>2 DEF SendFirst, Transmit
  <2>2. UNCHANGED <<rx, up, lastSeq>>
    BY <1>1, <1>2, FirstIs
  <2>3. air'.kind = "data" /\ air'.policy = policy /\ air'.item.seq = nextSeq
    BY <2>1, Kinds, Items
  <2>4. Past(lastSeq, nextSeq)
    BY <1>1 DEF Typed, Past
  <2>5. IsNormal(air') => air'.item.retry \/ Past(lastSeq', air'.item.seq)
    BY <2>2, <2>3, <2>4 DEF Past
  <2>6. IsNormal(cur') => cur'.item.retry \/ low' = "ack"
    BY <2>1, <2>3 DEF IsNormal
  <2>7. rx'.exists => ba.state # "none"
    BY <2>2 DEF Normals
  <2>8. ba'.state = ba.state
    <3>1. CASE ba.state # "established"
      <4>1. ba' = Prepared
        BY <1>2, <3>1 DEF SendFirst
      <4> QED BY <1>1, <4>1, PreparedWindow DEF Less
    <3>2. CASE ba.state = "established"
      <4>1. PICK b, next, rest : b = StorePacket(Prepared, item) /\ ba' = NotifyMpduTransmission(b, next, rest)
        BY <1>2, <2>1, <3>2 DEF SendFirst
      <4>2. PICK a : a = Prepared /\ a.state = ba.state /\ DOMAIN a = DOMAIN NoAgreement
        <5>1. Ordered(Prepared, Draw(nextSeq)) /\ Prepared.state = ba.state
          BY <1>1, PreparedWindow DEF Less
        <5> QED BY <5>1, AgreementIs DEF Ordered
      <4>3. b.state = ba.state /\ DOMAIN b = DOMAIN NoAgreement
        BY <4>1, <4>2 DEF StorePacket, NoAgreement
      <4> QED BY <4>1, <4>3, TransmissionState
    <3> QED BY <3>1, <3>2
  <2>9. "addba" \notin {cur'.kind, air'.kind}
    BY <2>1, <2>3
  <2> QED BY <2>5, <2>6, <2>7, <2>8, <2>9 DEF Normals
<1>3. CASE ~SendFirst
  <2>1. IsNormal(air') => air'.item.retry \/ Past(lastSeq', air'.item.seq)
    <3> SUFFICES ASSUME IsNormal(air') PROVE air'.item.retry \/ Past(lastSeq', air'.item.seq)
      OBVIOUS
    <3>1. CASE air' = air /\ lastSeq' = lastSeq
      BY <3>1 DEF Normals, Past
    <3>2. CASE Resend /\ air' = cur
      BY <3>2 DEF Normals, Resend, MediumIdle
    <3> QED BY <1>1, <1>3, <3>1, <3>2, NormalFrames
  <2>2. IsNormal(cur') => cur'.item.retry \/ low' = "ack"
    <3> SUFFICES ASSUME IsNormal(cur') PROVE cur'.item.retry \/ low' = "ack"
      OBVIOUS
    <3>1. CASE cur' = cur /\ (low' = low \/ low # "ack")
      BY <3>1 DEF Normals
    <3>2. CASE cur.kind = "data" /\ cur' = [cur EXCEPT !.item.retry = TRUE] /\ cur \in Frame
      <4>1. cur = DataFrame(cur.item, cur.policy) /\ cur.item \in Item
        BY <3>2, FrameHas
      <4>2. cur'.item.retry
        BY <3>2, <4>1 DEF DataFrame, Item
      <4> QED BY <4>2
    <3> QED BY <1>1, <1>3, <3>1, <3>2, NormalFrames
  <2>3. CASE SetupBlockAck
    <3>1. ba' = [NoAgreement EXCEPT !.state = "pending", !.start = nextSeq]
      BY <2>3 DEF SetupBlockAck
    <3>2. ba'.state # "none"
      BY <3>1 DEF NoAgreement
    <3> QED BY <2>1, <2>2, <3>2 DEF Normals
  <2>4. CASE ~SetupBlockAck
    <3>1. ba'.state = "none" => ba.state = "none"
      <4>1. ~Torn
        BY <1>1, HandshakeIs DEF Torn, GotDelBaFrame
      <4> QED BY <1>1, <1>3, <2>4, <4>1, NoneState
    <3>2. rx'.exists => rx.exists \/ air.kind = "addba"
      BY <1>1, <1>3, RecordNext
    <3>3. "addba" \in {cur'.kind, air'.kind} => "addba" \in {cur.kind, air.kind}
      <4>1. cur'.kind = "addba" => cur.kind = "addba"
        <5>1. CASE cur.kind = "data" /\ cur' = [cur EXCEPT !.item.retry = TRUE]
          <6>1. cur \in Frame
            BY <1>1 DEF FrameInv
          <6>2. cur = DataFrame(cur.item, cur.policy)
            BY <5>1, <6>1, FrameHas
          <6>3. cur'.kind = "data"
            BY <5>1, <6>2 DEF DataFrame
          <6> QED BY <6>3
        <5> QED BY <1>1, <1>3, <2>4, <5>1, NextFrames DEF IsBlock
      <4> QED BY <1>1, <1>3, <2>4, <4>1, NextFrames
    <3> QED BY <2>1, <2>2, <3>1, <3>2, <3>3 DEF Normals
  <2> QED BY <2>3, <2>4
<1> QED BY <1>2, <1>3

(* The recipient hears a frame: the originator stands still.               *)
Heard ==
  /\ UNCHANGED <<ba, cur, nextSeq, queue, offered, expired, timeouts>> /\ Way' \subseteq Way
  /\ Young' = Young /\ Waiting' = Waiting /\ Asks' = Asks /\ Flying' = {}

(* The handlers of the recipient do that.                                  *)
LEMMA HeardSteps ==
  ASSUME FirstHalf, Sending, InService, Next, ~IsBlock(air'),
         \/ ReceiveUnderBlockAck \/ ReceiveUnderNormalAck \/ ReceiveBlockAckReq
         \/ ReceiveAddBaRequest \/ ReceiveDelBa \/ ReplyGotAck
  PROVE  Heard
<1>1. UNCHANGED <<ba, cur, nextSeq, queue, offered, expired, timeouts>> /\ ~SendFirst
  <2>1. UNCHANGED <<ba, cur, nextSeq, queue, offered, expired, timeouts>>
    BY DEF ReceiveUnderBlockAck, ReceiveUnderNormalAck, ReceiveBlockAckReq, ReceiveAddBaRequest, ReceiveDelBa, ReplyGotAck,
           NothingElseReceived, sender
  <2>2. nextSeq \in Nat
    BY NumbersAre DEF Sending
  <2>3. SendFirst => nextSeq' = nextSeq + 1
    BY FirstIs DEF Sending
  <2> QED BY <2>1, <2>2, <2>3
<1>2. OrderInv /\ WindowInv /\ FrameInv /\ HalfTheNumbers
  BY HalfSuffices DEF Sending, OrderInv
<1>3. Quiet
  BY <1>1, <1>2, QuietSteps
<1>4. Way' \subseteq Way
  <2>1. ReceiveUnderBlockAck => Gained
    BY <1>2, <1>3, BlockAckData DEF OrderInv
  <2>2. ReceiveUnderNormalAck => Gained
    BY <1>2, <1>3, NormalAckData DEF OrderInv
  <2>3. ReceiveBlockAckReq => Gained
    BY <1>2, <1>3, BlockAckAsked DEF OrderInv
  <2>4. ReceiveAddBaRequest => Gained
    BY <1>2, <1>3, AddBaRequested DEF OrderInv
  <2>5. CASE ReceiveDelBa \/ ReplyGotAck
    <3>1. PairsOf(rx'.buffer) \subseteq Way
      <4>1. CASE rx' = rx
        BY <4>1 DEF Way
      <4>2. CASE rx' = Destroy(Recipient).rx
        <5>1. PICK P, r : /\ P = Way /\ r = Recipient /\ Once(P) /\ Known(P, r) /\ Whole(r.rx)
          BY <1>2, RecipientHas, RecipientIs DEF OrderInv
        <5>2. \E q : Destroy(r) = q /\ Known(P, q)
          BY <5>1, DestroyIs
        <5> QED BY <4>2, <5>1, <5>2 DEF Known
      <4> QED BY <2>5, <4>1, <4>2 DEF ReceiveDelBa, ReplyGotAck, Becomes
    <3> QED BY <1>3, <3>1 DEF Quiet, Way
  <2> QED BY <2>1, <2>2, <2>3, <2>4, <2>5 DEF Gained
<1>5. Young' = Young
  BY <1>1 DEF Young, Fresh
<1>6. Waiting' = Waiting /\ Asks' = Asks
  BY <1>1 DEF Waiting, Asks
<1>7. Flying' = {}
  BY DEF Flying
<1> QED BY <1>1, <1>4, <1>5, <1>6, <1>7 DEF Heard

(* So the originator's side of the invariant stands.                       *)
LEMMA HeardIs ==
  ASSUME Heard
  PROVE  /\ Live' = Young /\ Again' = Waiting \cap Young
         /\ \A s : (Newest(s)' <=> Newest(s)) /\ (Behind(s)' <=> Behind(s))
         /\ NeverTornDown' <=> NeverTornDown
<1>1. Live' = Young /\ Again' = Waiting \cap Young
  BY DEF Heard, Live, Again
<1>2. \A s : Newest(s)' <=> Newest(s)
  BY DEF Heard, Newest
<1>3. \A s : Behind(s)' <=> Behind(s)
  BY DEF Heard, Behind
<1>4. NeverTornDown' <=> NeverTornDown
  BY DEF Heard, NeverTornDown
<1> QED BY <1>1, <1>2, <1>3, <1>4

(* Packets stay in order when what is handed up was on its way.            *)
LEMMA HeardPackets ==
  ASSUME Sending, Heard, ToSet(up') \subseteq Told
  PROVE  PacketOrder'
<1>1. Told' \subseteq Told
  BY DEF Heard, Told
<1> QED BY <1>1, SamePackets DEF Sending, Heard

(* What is in a list on its way is told.                                   *)
LEMMA AmongTold ==
  ASSUME NEW items, PairsOf(items) \subseteq Way
  PROVE  PacketsOf(items) \subseteq Told
<1> SUFFICES ASSUME NEW i \in DOMAIN items PROVE items[i].packet \in Told
  BY DEF PacketsOf
<1>1. PICK x : x = <<items[i].seq, items[i].packet>>
  OBVIOUS
<1>2. x \in Way /\ x[2] = items[i].packet
  BY <1>1 DEF PairsOf
<1> QED BY <1>2 DEF Told

(* The recipient is ready for either handler.                              *)
LEMMA ReadyIs ==
  ASSUME FirstHalf, Sending, RecipientOrder
  PROVE  /\ Ready(Way, Recipient) /\ Whole(rx) /\ Covered(rx) /\ Recipient \in Recv /\ rx \in Record
         /\ InOrder(rx.buffer, lastSeq) /\ rx.start \in 0..Half /\ UpOrder(Way, up, lastSeq)
         /\ PairsOf(rx.buffer) \subseteq Way /\ Once(Way) /\ Ranked(Way) /\ Natural(Way)
<1>1. Typed
  BY TypedIs DEF Sending
<1>2. Once(Way) /\ Known(Way, Recipient) /\ Whole(rx) /\ Recipient \in Recv /\ rx \in Record
  BY RecipientHas DEF Sending, OrderInv
<1>3. rx.start \in 0..Half /\ rx.winStart \in 0..Half /\ \A x \in rx.bitmap : x <= rx.winEnd
  BY <1>1 DEF Typed, RecipientOrder, RecordBounds
<1>4. UpOrder(Way, up, lastSeq) /\ InOrder(rx.buffer, lastSeq) /\ PairsOf(rx.buffer) \subseteq Way
  BY DEF RecipientOrder, BufferOrder, Way
<1>5. Ranked(Way) /\ Natural(Way) /\ Covered(rx)
  BY <1>1, <1>3 DEF Sending, PacketOrder, Typed, Covered
<1>6. PICK r : r = Recipient /\ r.rx = rx /\ r.up = up /\ r.last = lastSeq
  BY RecipientIs
<1>7. Ready(Way, r)
  BY <1>2, <1>3, <1>4, <1>5, <1>6 DEF Ready
<1> QED BY <1>2, <1>3, <1>4, <1>5, <1>6, <1>7

(* A packet enters the reordering buffer.                                  *)
Admitted(s, item, b) ==
  /\ rx'.exists = rx.exists /\ rx'.start = rx.start /\ up' = up /\ lastSeq' = lastSeq
  /\ Entered(b, rx.buffer, item) /\ rx'.buffer = b
  /\ rx'.winStart = rx.winStart \/ rx'.winStart = s - Window + 1
  /\ \A x \in rx'.bitmap : x <= rx'.winEnd
  /\ rx.winStart <= s => rx'.bitmap = rx.bitmap \cup {s}

(* The buffer holds the item and what it held.                             *)
LEMMA EnteredHas ==
  ASSUME NEW t, NEW b, NEW item, Entered(t, b, item)
  PROVE  /\ SeqsOf(t) = SeqsOf(b) \cup {item.seq}
         /\ \A i \in DOMAIN t : t[i] = item \/ \E j \in DOMAIN b : t[i] = b[j]
<1>1. \A i \in DOMAIN t : t[i] = item \/ \E j \in DOMAIN b : t[i] = b[j]
  BY DEF Entered, Joined
<1>2. \A j \in DOMAIN b : \E i \in DOMAIN t : t[i] = b[j]
  BY DEF Entered, Joined
<1>3. \E i \in DOMAIN t : t[i] = item
  BY DEF Entered, Joined
<1>4. SeqsOf(t) \subseteq SeqsOf(b) \cup {item.seq}
  BY <1>1 DEF SeqsOf
<1>5. SeqsOf(b) \subseteq SeqsOf(t)
  <2> SUFFICES ASSUME NEW j \in DOMAIN b PROVE b[j].seq \in SeqsOf(t)
    BY DEF SeqsOf
  <2>1. PICK i \in DOMAIN t : t[i] = b[j]
    BY <1>2
  <2> QED BY <2>1 DEF SeqsOf
<1>6. item.seq \in SeqsOf(t)
  BY <1>3 DEF SeqsOf
<1> QED BY <1>1, <1>4, <1>5, <1>6

(* Of a packet in the air that is the newest, or that the recipient lacks. *)
LEMMA AdmittedOrder ==
  ASSUME FirstHalf, Sending, RecipientOrder, Heard,
         NEW item \in Item, NEW s, s = item.seq, s \in Early, s < nextSeq, Reached(lastSeq, s),
         NEW b, Admitted(s, item, b)
  PROVE  RecipientOrder'
<1>1. Typed
  BY TypedIs DEF Sending
<1>2. UpOrder(Way, up, lastSeq)'
  BY LessUpOrder DEF RecipientOrder, Heard, Admitted
<1>3. BufferOrder'
  <2>1. b \in Seq(Item) /\ \A i, j \in DOMAIN b : i < j => b[i].seq <= b[j].seq
    BY DEF Admitted, Entered
  <2>2. ASSUME NEW i \in DOMAIN b PROVE b[i].seq \in Early /\ Reached(lastSeq, b[i].seq)
    <3>1. CASE b[i] = item
      BY <3>1
    <3>2. CASE \E j \in DOMAIN rx.buffer : b[i] = rx.buffer[j]
      BY <3>2 DEF RecipientOrder, BufferOrder, InOrder
    <3> QED BY <3>1, <3>2, EnteredHas DEF Admitted
  <2>3. InOrder(b, lastSeq)
    BY <2>1, <2>2 DEF InOrder
  <2> QED BY <2>3 DEF BufferOrder, Admitted
<1>4. RecordBounds'
  <2>1. rx.start <= nextSeq /\ rx.winStart <= nextSeq
    BY DEF RecipientOrder, RecordBounds
  <2>2. s - Window + 1 <= nextSeq /\ nextSeq' = nextSeq
    <3>1. s \in Nat
      BY <1>1 DEF Early, Typed
    <3> QED BY <1>1, <3>1 DEF Typed, Heard
  <2> QED BY <2>1, <2>2 DEF RecordBounds, Admitted
<1> QED BY <1>2, <1>3, <1>4 DEF RecipientOrder

(* What may still arrive and has no bit is not handed up, nor in the       *)
(* buffer.                                                                 *)
LEMMA AdmittedLink ==
  ASSUME FirstHalf, Sending, LinkOrder, rx.exists, Heard, air'.kind # "ba", NEW s, NEW item, NEW b, Flying = {s}, s = item.seq,
         Admitted(s, item, b)
  PROVE  LinkOrder'
<1>1. Typed /\ WindowOrder /\ Narrow
  BY TypedIs DEF Sending
<1>2. s \in Nat /\ s \in Live /\ rx.winStart <= s /\ s \notin Waiting
  BY <1>1 DEF Typed, Low, Live, LinkOrder, WindowOrder
<1>3. rx'.bitmap = rx.bitmap \cup {s} /\ Buffered' = Buffered \cup {s}
  <2>1. SeqsOf(b) = SeqsOf(rx.buffer) \cup {s}
    BY EnteredHas DEF Admitted
  <2> QED BY <1>2, <2>1 DEF Admitted, Buffered
<1>4. ASSUME NEW t \in Young PROVE Missing(t)' /\ rx'.winStart <= t
  <2>1. t \in Live /\ t \in Nat
    BY <1>1, <1>4 DEF Live, Typed, Low
  <2>2. Missing(t) /\ rx.winStart <= t
    BY <2>1 DEF LinkOrder
  <2>3. Missing(t)'
    BY <1>3, <2>2 DEF Missing, Admitted, Past
  <2>4. s < t + Window /\ Window \in Nat
    BY <1>1, <1>2, <2>1 DEF Narrow, Typed
  <2>5. rx'.winStart <= t
    BY <1>2, <2>1, <2>2, <2>4 DEF Admitted
  <2> QED BY <2>3, <2>5
<1>5. ASSUME NEW t \in Waiting \cap Young, t \in rx'.bitmap PROVE Newest(t)
  <2>1. t \in rx.bitmap /\ t \in Again
    BY <1>2, <1>3, <1>5 DEF Again
  <2> QED BY <2>1 DEF LinkOrder
<1>6. \A t \in Live' : Missing(t)' /\ rx'.winStart <= t
  BY <1>4, HeardIs
<1>7. \A t \in Again' : t \in rx'.bitmap => Newest(t)'
  BY <1>5, HeardIs
<1> QED BY <1>6, <1>7 DEF LinkOrder

(* If the packet has its bit already it is the newest, and a retry.        *)
LEMMA AdmittedCopies ==
  ASSUME FirstHalf, Sending, RecipientOrder, LinkOrder, rx.exists, Copies, Echoes, Heard, air'.kind # "ba",
         NEW s, NEW item, NEW b, Flying = {s}, s = item.seq, item = air.item, Admitted(s, item, b)
  PROVE  Copies' /\ Echoes'
<1>1. Typed /\ WindowOrder
  BY TypedIs DEF Sending
<1>2. s \in Nat /\ s \in Live /\ rx.winStart <= s /\ s \notin Waiting /\ s < nextSeq /\ Missing(s)
  BY <1>1 DEF Typed, Low, Live, LinkOrder, WindowOrder
<1>3. rx'.bitmap = rx.bitmap \cup {s} /\ Buffered' = Buffered \cup {s} /\ rx'.start = rx.start /\ lastSeq' = lastSeq
      /\ rx'.buffer = b
  <2>1. SeqsOf(b) = SeqsOf(rx.buffer) \cup {s}
    BY EnteredHas DEF Admitted
  <2> QED BY <1>2, <2>1 DEF Admitted, Buffered
<1>4. /\ s \notin rx.bitmap => Past(lastSeq, s) /\ rx.start <= s /\ s \notin Buffered
      /\ s \in rx.bitmap => Newest(s) /\ item.retry /\ Behind(s) /\ (s \in Buffered => rx.start # s)
  BY <1>2 DEF Missing, Echoes
<1>5. nextSeq \in Nat /\ rx.start \in Nat /\ rx.start <= nextSeq /\ SeqSpace \in Nat /\ nextSeq <= SeqSpace
  BY <1>1, SMTT(30) DEF Typed, RecipientOrder, RecordBounds
<1>6. Repeats(b, lastSeq)
  <2> SUFFICES ASSUME NEW i \in DOMAIN b, b[i].seq = lastSeq PROVE b[i].retry
    BY DEF Repeats
  <2>1. CASE b[i] = item
    <3>1. ~Past(lastSeq, s)
      BY <1>2, <1>5, <2>1 DEF Past
    <3> QED BY <1>4, <2>1, <3>1
  <2>2. CASE \E j \in DOMAIN rx.buffer : b[i] = rx.buffer[j]
    BY <2>2 DEF Copies, Repeats
  <2> QED BY <2>1, <2>2, EnteredHas DEF Admitted
<1>7. ASSUME NEW t \in Buffered', Twice(b, t) PROVE rx.start # t /\ Behind(t)
  <2>1. CASE Twice(rx.buffer, t)
    <3>1. t \in Buffered
      BY <2>1 DEF Twice, Buffered, SeqsOf
    <3> QED BY <2>1, <3>1 DEF Copies
  <2>2. CASE t = s /\ s \in Buffered
    BY <1>4, <2>2
  <2> QED BY <1>7, <2>1, <2>2 DEF Admitted, Entered, Buffered
<1>8. ASSUME NEW t \in Buffered', t < rx.start PROVE rx.start = t + 1 /\ Behind(t)
  <2>1. CASE t \in Buffered
    BY <1>8, <2>1 DEF Copies
  <2>2. CASE t = s
    <3>1. s \in rx.bitmap
      BY <1>2, <1>4, <1>5, <1>8, <2>2
    <3>2. Behind(s) /\ s + 1 = nextSeq
      BY <1>4, <3>1 DEF Newest
    <3> QED BY <1>2, <1>5, <1>8, <2>2, <3>2
  <2> QED BY <1>3, <2>1, <2>2
<1>9. Copies'
  <2>1. Repeats(rx.buffer, lastSeq)'
    BY <1>3, <1>6
  <2>2. \A t \in Buffered' : Twice(rx'.buffer, t) => rx'.start # t /\ Behind(t)'
    BY <1>3, <1>7, HeardIs
  <2>3. \A t \in Buffered' : t < rx'.start => rx'.start = t + 1 /\ Behind(t)'
    BY <1>3, <1>8, HeardIs
  <2> QED BY <2>1, <2>2, <2>3 DEF Copies
<1>10. ASSUME NEW t \in Waiting \cap Young, t \in rx'.bitmap PROVE Lone(t)'
  <2>1. t \in rx.bitmap /\ t # s
    BY <1>2, <1>3, <1>10
  <2>2. Lone(t)
    BY <1>10, <2>1 DEF Echoes
  <2>3. Newest(t)' /\ Young' = {t}
    BY <2>2, HeardIs DEF Lone, Heard
  <2>4. t \in Buffered' => rx'.start # t
    BY <1>3, <2>1, <2>2 DEF Lone
  <2> QED BY <2>3, <2>4 DEF Lone
<1>11. Echoes'
  BY <1>10 DEF Echoes, Heard
<1> QED BY <1>9, <1>11

(* A packet under block ack, with a record and without one.                *)
LEMMA BlockData ==
  ASSUME FirstHalf, Sending, InService, Link, Next, ReceiveUnderBlockAck
  PROVE  Link' /\ PacketOrder'
<1>1. air' = NoFrame /\ air'.kind = "none" /\ ~IsBlock(air')
  BY Kinds DEF ReceiveUnderBlockAck, IsBlock
<1>2. Heard /\ Typed
  BY <1>1, HeardSteps, TypedIs DEF Sending
<1>3. CASE ~rx.exists
  <2>1. UNCHANGED <<rx, up, lastSeq>>
    BY <1>3 DEF ReceiveUnderBlockAck
  <2>2. ~SendFirst
    BY <1>1, Kinds, Items DEF SendFirst, Transmit, DataFrame
  <2>3. Eased
    BY <1>1, <2>1, <2>2, EasedSteps
  <2>4. ToSet(up') \subseteq Told
    BY <2>1 DEF Told
  <2> QED BY <1>2, <2>3, <2>4, EasedLink, HeardPackets DEF Sending
<1>4. CASE rx.exists
  <2>1. PICK item : item = air.item
    OBVIOUS
  <2>2. PICK s : s = item.seq
    OBVIOUS
  <2>3. Flying = {s} /\ item \in Item
    <3>1. air.kind = "data" /\ air.policy = "block" /\ air \in Frame
      BY DEF ReceiveUnderBlockAck, Sending, OrderInv, FrameInv
    <3> QED BY <2>1, <2>2, <3>1, FrameHas DEF Flying, IsBlock
  <2>4. s \in Early /\ s < nextSeq /\ s \in Nat /\ s \in Live
    BY <1>2, <2>3 DEF Typed, Low, Live
  <2>5. RecipientOrder /\ LinkOrder
    BY DEF Link
  <2>6. PICK q : q = Stored(item) /\ Becomes(q) /\ Put(Recipient, q, item)
    <3>1. Put(Recipient, Stored(item), item)
      BY <2>2, <2>3, <2>4, <2>5, ReadyIs, StoredOrder
    <3> QED BY <1>4, <2>1, <3>1 DEF ReceiveUnderBlockAck
  <2>7. PICK b : b = rx'.buffer
    OBVIOUS
  <2>8. Admitted(s, item, b)
    BY <2>2, <2>6, <2>7, RecipientIs DEF Put, Becomes, Admitted
  <2>9. Reached(lastSeq, s)
    <3>1. Missing(s) /\ (s \in rx.bitmap => Newest(s))
      BY <1>4, <2>3, <2>4, <2>5 DEF LinkOrder, Again
    <3>2. nextSeq \in Nat /\ (lastSeq = SeqSpace \/ (lastSeq \in Nat /\ lastSeq < nextSeq))
      BY <1>2 DEF Typed
    <3> QED BY <2>4, <3>1, <3>2 DEF Missing, Newest, Past, Reached
  <2>10. RecipientOrder'
    BY <1>2, <2>2, <2>3, <2>4, <2>5, <2>8, <2>9, AdmittedOrder
  <2>11. LinkOrder'
    BY <1>1, <1>2, <1>4, <2>2, <2>3, <2>5, <2>8, AdmittedLink
  <2>12. Chain'
    <3> SUFFICES ASSUME NeverTornDown' PROVE (Climbing(up) /\ Copies /\ Echoes)'
      BY DEF Chain
    <3>1. Climbing(up) /\ Copies /\ Echoes /\ up' = up
      BY <1>2, <2>8, HeardIs DEF Link, Chain, Admitted
    <3>2. Copies' /\ Echoes'
      BY <1>1, <1>2, <1>4, <2>1, <2>2, <2>3, <2>5, <2>8, <3>1, AdmittedCopies
    <3> QED BY <3>1, <3>2
  <2>13. ToSet(up') \subseteq Told
    BY <2>8 DEF Admitted, Told
  <2> QED BY <1>2, <2>10, <2>11, <2>12, <2>13, HeardPackets DEF Link
<1> QED BY <1>3, <1>4

(* A request moves the start of the buffer, and of the window.             *)
Requesting(z, m) ==
  /\ rx'.exists = rx.exists /\ rx'.bitmap = rx.bitmap /\ rx'.start \in Nat
  /\ rx'.winStart \in {rx.winStart, z} /\ (\A x \in rx'.bitmap : x <= rx'.winEnd)
  /\ Left(rx'.buffer, rx.buffer, m) /\ InOrder(rx'.buffer, lastSeq')
  /\ lastSeq' = IF m = 0 THEN lastSeq ELSE rx.buffer[m].seq
  /\ UpOrder(Way, up', lastSeq') /\ ToSet(up') \subseteq ToSet(up) \cup PacketsOf(rx.buffer)
  /\ Advanced(rx.buffer, rx.start, rx'.start, z, m)
  /\ Repeats(rx.buffer, lastSeq) /\ Climbing(up) => Climbing(up')
  /\ air'.kind = "ba" /\ air'.acked \subseteq Seqs
  /\ \A t \in rx.bitmap : z <= t /\ t < z + Window => t \in air'.acked

(* ReceiveBlockAckReq does that.                                           *)
LEMMA AskedEffect ==
  ASSUME FirstHalf, Sending, RecipientOrder, ReceiveBlockAckReq, rx.exists, NEW z, z = air.start, z \in Early
  PROVE  \E m : Requesting(z, m)
<1>1. Ready(Way, Recipient) /\ Whole(rx) /\ Covered(rx) /\ Recipient \in Recv
  BY ReadyIs
<1>2. PICK c : c = [Recipient EXCEPT !.rx = CacheBlockAckReq(@, z)]
  OBVIOUS
<1>3. PICK q : q = RxCompleteUntilLost(RxCompleteSmaller(c, z))
  OBVIOUS
<1>4. Reopened(Recipient, c, z)
  BY <1>1, <1>2, CachedOrder
<1>5. PICK r : r = Recipient /\ r.rx = rx /\ r.up = up /\ r.last = lastSeq
  BY RecipientIs
<1>6. PICK P : P = Way
  OBVIOUS
<1>7. Ready(P, r) /\ Reopened(r, c, z)
  BY <1>1, <1>4, <1>5, <1>6
<1>8. Ready(P, c)
  BY <1>7 DEF Ready, Reopened
<1>9. PICK m : /\ Handed(P, c, q, m) /\ Advanced(c.rx.buffer, c.rx.start, q.rx.start, z, m)
               /\ Repeats(c.rx.buffer, c.last) /\ Climbing(c.up) => Climbing(q.up)
  BY <1>3, <1>8, CompletedOrder
<1>10. rx' = q.rx /\ up' = q.up /\ lastSeq' = q.last
  BY <1>2, <1>3 DEF ReceiveBlockAckReq, Becomes
<1>11. air' = [kind |-> "ba", start |-> z, acked |-> FillBlockAckBitmap(c.rx, z)]
  BY <1>2 DEF ReceiveBlockAckReq
<1>12. c.rx.buffer = rx.buffer /\ c.rx.start = rx.start /\ c.up = up /\ c.last = lastSeq /\ c.rx.bitmap = rx.bitmap
       /\ c.rx.exists = rx.exists /\ c.rx.winStart \in {rx.winStart, z} /\ (\A x \in c.rx.bitmap : x <= c.rx.winEnd) /\ c \in Recv
  BY <1>5, <1>7 DEF Reopened
<1>13. c.rx \in Record /\ c.rx.bitmap \subseteq Seqs
  BY <1>12, RecvIs
<1>14. air'.kind = "ba" /\ air'.acked = FillBlockAckBitmap(c.rx, z)
  BY <1>11
<1>15. air'.acked \subseteq Seqs
  BY <1>13, <1>14 DEF FillBlockAckBitmap
<1>16. ASSUME NEW t \in rx.bitmap, z <= t, t < z + Window PROVE t \in air'.acked
  <2>1. t \in Nat /\ t \in c.rx.bitmap
    BY <1>12, <1>13, SpaceType DEF Seqs
  <2> QED BY <1>13, <1>14, <1>16, <2>1, FillIs
<1>17. /\ q.rx.exists = rx.exists /\ q.rx.bitmap = rx.bitmap /\ q.rx.winStart = c.rx.winStart /\ q.rx.winEnd = c.rx.winEnd
       /\ Left(q.rx.buffer, rx.buffer, m) /\ InOrder(q.rx.buffer, q.last)
       /\ q.last = (IF m = 0 THEN lastSeq ELSE rx.buffer[m].seq)
       /\ UpOrder(P, q.up, q.last) /\ ToSet(q.up) \subseteq ToSet(up) \cup PacketsOf(rx.buffer)
  BY <1>9, <1>12 DEF Handed
<1>18. Advanced(rx.buffer, rx.start, q.rx.start, z, m) /\ (Repeats(rx.buffer, lastSeq) /\ Climbing(up) => Climbing(q.up))
  BY <1>9, <1>12
<1>19. rx'.winStart \in {rx.winStart, z} /\ (\A x \in rx'.bitmap : x <= rx'.winEnd)
  BY <1>10, <1>12, <1>17
<1>20. q.rx.start \in Nat
  BY <1>9, RecvIs, SpaceType DEF Handed, Seqs
<1> QED BY <1>6, <1>10, <1>14, <1>15, <1>16, <1>17, <1>18, <1>19, <1>20 DEF Requesting

(* What stays in the buffer.                                               *)
LEMMA StillThere ==
  ASSUME NEW t, NEW b, NEW m, Left(t, b, m)
  PROVE  /\ SeqsOf(t) \subseteq SeqsOf(b) /\ \A s : Twice(t, s) => Twice(b, s)
<1>1. \A i \in DOMAIN t : t[i] = b[m + i] /\ m + i \in DOMAIN b /\ i \in Nat
  BY DEF Left
<1>2. m \in Nat
  BY DEF Left
<1>3. SeqsOf(t) \subseteq SeqsOf(b)
  BY <1>1 DEF SeqsOf
<1>4. ASSUME NEW s, Twice(t, s) PROVE Twice(b, s)
  <2>1. PICK i \in DOMAIN t, j \in DOMAIN t : i < j /\ t[i].seq = s /\ t[j].seq = s
    BY <1>4 DEF Twice
  <2>2. m + i < m + j /\ b[m + i].seq = s /\ b[m + j].seq = s /\ m + i \in DOMAIN b /\ m + j \in DOMAIN b
    BY <1>1, <1>2, <2>1
  <2> QED BY <2>2 DEF Twice
<1> QED BY <1>3, <1>4

(* The start does not pass the counter of the originator.                  *)
LEMMA AdvancedBound ==
  ASSUME NEW b, NEW start \in Nat, NEW next \in Nat, NEW z, NEW m, NEW n \in Nat, Advanced(b, start, next, z, m),
         start <= n, b \in Seq(Item), \A s \in SeqsOf(b) : s \in Nat /\ s < n
  PROVE  next <= n /\ (m # 0 => m \in DOMAIN b /\ b[m].seq \in SeqsOf(b))
<1>1. m # 0 => m \in DOMAIN b /\ b[m].seq \in SeqsOf(b)
  <2> SUFFICES ASSUME m # 0 PROVE m \in DOMAIN b
    BY DEF SeqsOf
  <2>1. m \in 0..Len(b) /\ Len(b) \in Nat /\ DOMAIN b = 1..Len(b)
    BY DEF Advanced
  <2> QED BY <2>1
<1>2. CASE start # next
  <2>1. m # 0 /\ b[m].seq = next - 1
    BY <1>2 DEF Advanced
  <2>2. b[m].seq \in Nat /\ b[m].seq < n
    BY <1>1, <2>1
  <2> QED BY <1>1, <2>1, <2>2
<1> QED BY <1>1, <1>2

(* The request is the one in service.                                      *)
Asking(z, m) == /\ Sending /\ RecipientOrder /\ Heard /\ rx.exists /\ Requesting(z, m)
                /\ z \in Asks /\ z \in Nat /\ z < nextSeq /\ Waiting = {}

(* Bounds of the two starts.                                               *)
LEMMA AskingIs ==
  ASSUME FirstHalf, NEW z, NEW m, Asking(z, m)
  PROVE  /\ Typed /\ rx.start \in Nat /\ rx'.start \in Nat /\ rx.start <= rx'.start /\ rx'.start <= nextSeq
         /\ m \in Nat /\ (m # 0 => m \in DOMAIN rx.buffer /\ rx.buffer[m].seq \in Buffered)
         /\ \A s \in Buffered : s \in Nat /\ s < nextSeq
         /\ Buffered' \subseteq Buffered /\ \A s : Twice(rx'.buffer, s) => Twice(rx.buffer, s)
<1>1. Typed
  BY TypedIs DEF Asking, Sending
<1>2. rx.buffer \in Seq(Item)
  BY DEF Asking, RecipientOrder, BufferOrder, InOrder
<1>3. rx'.start \in Nat /\ rx.start <= rx'.start
  BY DEF Asking, Requesting, Advanced
<1>4. \A s \in Buffered : s \in Nat /\ s < nextSeq
  BY <1>1 DEF Typed, Low
<1>5. rx'.start <= nextSeq /\ (m # 0 => m \in DOMAIN rx.buffer /\ rx.buffer[m].seq \in Buffered)
  BY <1>1, <1>2, <1>3, <1>4, AdvancedBound DEF Asking, Requesting, RecipientOrder, RecordBounds, Typed, Buffered
<1>6. Buffered' \subseteq Buffered /\ \A s : Twice(rx'.buffer, s) => Twice(rx.buffer, s)
  BY StillThere DEF Asking, Requesting, Buffered
<1>7. m \in Nat
  BY DEF Asking, Requesting, Left
<1> QED BY <1>1, <1>3, <1>4, <1>5, <1>6, <1>7 DEF Typed

(* The buffer is handed up in order.                                       *)
LEMMA AskingOrder ==
  ASSUME FirstHalf, NEW z, NEW m, Asking(z, m)
  PROVE  RecipientOrder'
<1>1. UpOrder(Way', up', lastSeq')
  <2>1. UpOrder(Way, up', lastSeq') /\ Way' \subseteq Way
    BY DEF Asking, Requesting, Heard
  <2>2. PICK P, Q, u, l : P = Way /\ Q = Way' /\ u = up' /\ l = lastSeq'
    OBVIOUS
  <2>3. UpOrder(Q, u, l)
    BY <2>1, <2>2, LessUpOrder
  <2> QED BY <2>2, <2>3
<1>2. BufferOrder'
  BY DEF Asking, Requesting, BufferOrder
<1>3. rx'.start <= nextSeq /\ z <= nextSeq /\ rx.winStart <= nextSeq /\ nextSeq' = nextSeq
  BY AskingIs DEF Asking, Typed, Heard, RecipientOrder, RecordBounds
<1>4. RecordBounds'
  BY <1>3 DEF RecordBounds, Asking, Requesting
<1>5. UpOrder(Way, up, lastSeq)'
  BY <1>1
<1> QED BY <1>2, <1>4, <1>5 DEF RecipientOrder

(* The buffer is not opened beyond what may still arrive, and the block ack*)
(* covers what it has.                                                     *)
LEMMA AskingLink ==
  ASSUME FirstHalf, NEW z, NEW m, Asking(z, m), LinkOrder
  PROVE  LinkOrder'
<1>1. /\ Typed /\ rx.start \in Nat /\ rx'.start \in Nat /\ rx.start <= rx'.start /\ m \in Nat
      /\ (m # 0 => m \in DOMAIN rx.buffer /\ rx.buffer[m].seq \in Buffered)
      /\ (\A s \in Buffered : s \in Nat) /\ Buffered' \subseteq Buffered
  BY AskingIs
<1>2. WindowOrder /\ Narrow /\ z \in Asks /\ z \in Nat /\ Waiting = {} /\ Requesting(z, m)
  BY DEF Asking, Sending
<1>3. rx'.bitmap = rx.bitmap /\ rx'.winStart \in {rx.winStart, z}
  BY <1>2 DEF Requesting
<1>4. PICK y : y = rx.buffer[m].seq
  OBVIOUS
<1>5. /\ lastSeq' = (IF m = 0 THEN lastSeq ELSE y) /\ (m # 0 => y \in Nat)
      /\ (rx.start = rx'.start => m = 0 \/ y < z)
      /\ (rx.start # rx'.start => m # 0 /\ y = rx'.start - 1 /\ z <= rx.start)
      /\ \A t \in Nat : rx.start <= t /\ t < rx'.start => t \in Buffered
  <2>1. lastSeq' = IF m = 0 THEN lastSeq ELSE y
    BY <1>2, <1>4 DEF Requesting
  <2>2. Advanced(rx.buffer, rx.start, rx'.start, z, m)
    BY <1>2 DEF Requesting
  <2> QED BY <1>1, <1>4, <2>1, <2>2 DEF Advanced, Buffered
<1>6. ASSUME NEW t \in Young PROVE Missing(t)' /\ rx'.winStart <= t
  <2>1. t \in Live /\ t \in Nat /\ z <= t
    BY <1>1, <1>2, <1>6 DEF Live, Typed, Low, WindowOrder
  <2>2. Missing(t) /\ rx.winStart <= t
    BY <2>1 DEF LinkOrder, Asking
  <2>3. ASSUME t \notin rx.bitmap PROVE Past(lastSeq', t) /\ rx'.start <= t /\ t \notin Buffered'
    <3>1. Past(lastSeq, t) /\ rx.start <= t /\ t \notin Buffered
      BY <2>2, <2>3 DEF Missing
    <3>2. rx'.start <= t
      BY <1>1, <1>5, <2>1, <3>1
    <3>3. m = 0 \/ y < t
      BY <1>1, <1>2, <1>5, <2>1, <3>2
    <3>4. Past(lastSeq', t)
      BY <1>5, <3>1, <3>3 DEF Past
    <3> QED BY <1>1, <3>1, <3>2, <3>4
  <2>4. Missing(t)'
    BY <1>3, <2>3 DEF Missing
  <2> QED BY <1>3, <2>1, <2>2, <2>4
<1>7. ASSUME NEW t \in Young, t \in rx.bitmap PROVE t \in air'.acked \/ Newest(t)
  <2>1. t \in Nat /\ z <= t
    BY <1>1, <1>2, <1>7 DEF Typed, Low, WindowOrder
  <2>2. t < z + Window \/ Newest(t)
    BY <1>2, <1>7 DEF Narrow
  <2> QED BY <1>2, <1>7, <2>1, <2>2 DEF Requesting
<1>8. Heard
  BY DEF Asking
<1>9. \A t \in Live' : Missing(t)' /\ rx'.winStart <= t
  BY <1>6, <1>8, HeardIs
<1>10. Again' = {}
  BY <1>2, <1>8, HeardIs
<1>11. \A t \in Young' : t \in rx'.bitmap => t \in air'.acked \/ Newest(t)'
  <2>1. Young' = Young
    BY <1>8 DEF Heard
  <2> QED BY <1>3, <1>7, <1>8, <2>1, HeardIs
<1> QED BY <1>9, <1>10, <1>11 DEF LinkOrder

(* No copy is left behind for which the first was handed up, but the one   *)
(* before the start.                                                       *)
LEMMA AskingCopies ==
  ASSUME FirstHalf, Window > 1, NEW z, NEW m, Asking(z, m), Copies
  PROVE  Copies' /\ Echoes'
<1>1. /\ Typed /\ rx.start \in Nat /\ rx'.start \in Nat /\ rx.start <= rx'.start /\ m \in Nat
      /\ (m # 0 => m \in DOMAIN rx.buffer /\ rx.buffer[m].seq \in Buffered)
      /\ (\A s \in Buffered : s \in Nat) /\ Buffered' \subseteq Buffered
      /\ \A s : Twice(rx'.buffer, s) => Twice(rx.buffer, s)
  BY AskingIs
<1>2. /\ WindowOrder /\ Narrow /\ z \in Asks /\ z \in Nat /\ Waiting = {} /\ Requesting(z, m) /\ Heard
  BY DEF Asking, Sending
<1>3. PICK b : b = rx.buffer /\ b \in Seq(Item)
  BY DEF Asking, RecipientOrder, BufferOrder, InOrder
<1>4. PICK c : c = rx'.buffer
  OBVIOUS
<1>5. /\ \A i, j \in DOMAIN b : i < j => b[i].seq <= b[j].seq
      /\ \A i \in DOMAIN b : b[i].seq \in Nat
  <2>1. \A i, j \in DOMAIN b : i < j => b[i].seq <= b[j].seq
    BY <1>3 DEF Asking, RecipientOrder, BufferOrder, InOrder
  <2> QED BY <1>1, <1>3, <2>1 DEF Buffered, SeqsOf
<1>6. Left(c, b, m) /\ Advanced(b, rx.start, rx'.start, z, m) /\ lastSeq' = IF m = 0 THEN lastSeq ELSE b[m].seq
  BY <1>2, <1>3, <1>4 DEF Requesting
<1>7. PICK y : y = b[m].seq
  OBVIOUS
<1>8. /\ lastSeq' = (IF m = 0 THEN lastSeq ELSE y) /\ (m # 0 => y \in Nat /\ m \in DOMAIN b)
      /\ (rx.start = rx'.start => m = 0 \/ y < z)
      /\ (rx.start # rx'.start => m # 0 /\ y = rx'.start - 1 /\ z <= rx.start)
      /\ \A i \in DOMAIN b : i > m => b[i].seq >= z
  BY <1>1, <1>3, <1>5, <1>6, <1>7 DEF Advanced
<1>9. ASSUME NEW i \in DOMAIN c
      PROVE  c[i] = b[m + i] /\ m + i \in DOMAIN b /\ m + i > m /\ c[i].seq \in Nat /\ c[i].seq >= z
             /\ (m # 0 => y <= c[i].seq)
  <2>1. c[i] = b[m + i] /\ m + i \in DOMAIN b /\ i \in 1..(Len(b) - m)
    BY <1>6 DEF Left
  <2>2. m + i > m
    BY <1>1, <2>1
  <2>3. m # 0 => y <= b[m + i].seq
    BY <1>5, <1>7, <1>8, <2>1, <2>2
  <2> QED BY <1>5, <1>8, <2>1, <2>2, <2>3
<1>10. ASSUME NEW s, Twice(b, s) PROVE rx.start # s /\ Behind(s) /\ s <= z
  <2>1. s \in Buffered
    BY <1>3, <1>10 DEF Twice, Buffered, SeqsOf
  <2>2. rx.start # s /\ Behind(s)
    BY <1>3, <1>10, <2>1 DEF Copies
  <2> QED BY <1>2, <2>2 DEF Behind
(* A copy of the last one taken was taken with it.                         *)
<1>11. ASSUME NEW i \in DOMAIN c, m # 0, c[i].seq = y PROVE Twice(b, y) /\ Behind(y) /\ rx'.start = y + 1 /\ rx.start # rx'.start
  <2>1. m < m + i /\ b[m].seq = y /\ b[m + i].seq = y /\ m \in DOMAIN b /\ m + i \in DOMAIN b
    BY <1>1, <1>7, <1>8, <1>9, <1>11
  <2>2. Twice(b, y)
    BY <2>1 DEF Twice
  <2>3. rx.start # rx'.start
    BY <1>2, <1>8, <1>9, <1>11
  <2> QED BY <1>1, <1>8, <1>10, <2>2, <2>3
<1>12. Repeats(c, lastSeq')
  <2> SUFFICES ASSUME NEW i \in DOMAIN c, c[i].seq = lastSeq' PROVE c[i].retry
    BY DEF Repeats
  <2>1. CASE m = 0
    <3>1. c[i] = b[m + i] /\ m + i \in DOMAIN b /\ lastSeq' = lastSeq
      BY <1>8, <1>9, <2>1
    <3>2. Repeats(b, lastSeq)
      BY <1>3 DEF Copies
    <3> QED BY <3>1, <3>2 DEF Repeats
  <2>2. CASE m # 0
    <3>1. c[i].seq = y
      BY <1>8, <2>2
    <3>2. Twice(b, y) /\ rx'.start = y + 1 /\ rx.start # rx'.start
      BY <1>11, <2>2, <3>1
    <3>3. rx.start # y /\ y <= z
      BY <1>10, <3>2
    <3>4. z <= rx.start /\ y \in Nat
      BY <1>8, <2>2, <3>2
    <3> QED BY <1>1, <1>2, <3>2, <3>3, <3>4
  <2> QED BY <2>1, <2>2
<1>13. ASSUME NEW s, Twice(c, s) PROVE rx'.start # s /\ Behind(s)
  <2>1. rx.start # s /\ Behind(s) /\ s <= z
    BY <1>1, <1>3, <1>4, <1>10, <1>13
  <2>2. s \in Nat
    <3>1. s \in Buffered
      BY <1>1, <1>3, <1>4, <1>13 DEF Twice, Buffered, SeqsOf
    <3> QED BY <1>1, <3>1
  <2>3. rx.start # rx'.start => z <= rx.start
    BY <1>8
  <2> QED BY <1>1, <1>2, <2>1, <2>2, <2>3
<1>14. ASSUME NEW i \in DOMAIN c, NEW s, s = c[i].seq, s < rx'.start PROVE rx'.start = s + 1 /\ Behind(s)
  <2>1. s \in Nat /\ s \in Buffered
    <3>1. s \in Buffered'
      BY <1>4, <1>14 DEF Buffered, SeqsOf
    <3> QED BY <1>1, <3>1
  <2>2. CASE rx.start = rx'.start
    BY <1>14, <2>1, <2>2 DEF Copies
  <2>3. CASE rx.start # rx'.start
    <3>1. m # 0 /\ y = rx'.start - 1 /\ y <= s /\ y \in Nat
      BY <1>8, <1>9, <1>14, <2>3
    <3>2. s = y
      BY <1>1, <1>14, <2>1, <3>1
    <3> QED BY <1>11, <1>14, <3>1, <3>2
  <2> QED BY <2>2, <2>3
<1>15. Copies'
  <2>1. Repeats(rx.buffer, lastSeq)'
    BY <1>4, <1>12
  <2>2. \A s \in Buffered' : Twice(rx'.buffer, s) => rx'.start # s /\ Behind(s)'
    BY <1>2, <1>4, <1>13, HeardIs
  <2>3. \A s \in Buffered' : s < rx'.start => rx'.start = s + 1 /\ Behind(s)'
    <3>1. \A s \in Buffered' : \E i \in DOMAIN c : s = c[i].seq
      BY <1>4 DEF Buffered, SeqsOf
    <3> QED BY <1>2, <1>14, <3>1, HeardIs
  <2> QED BY <2>1, <2>2, <2>3 DEF Copies
(* The newest one is beyond the window only alone, and then not next.      *)
<1>16. ASSUME NEW t \in Young, t \in rx.bitmap, t \notin air'.acked PROVE Lone(t)'
  <2>1. t \in Nat /\ z <= t /\ Window \in Nat
    BY <1>1, <1>2, <1>16 DEF Typed, Low, WindowOrder
  <2>2. ~(t < z + Window)
    BY <1>2, <1>16, <2>1 DEF Requesting
  <2>3. Newest(t) /\ Young = {t}
    BY <1>2, <1>16, <2>2 DEF Narrow
  <2>4. ASSUME t \in Buffered', rx'.start = t PROVE FALSE
    <3>1. PICK i \in DOMAIN c : c[i].seq = t
      BY <1>4, <2>4 DEF Buffered, SeqsOf
    <3>2. DOMAIN c = 1..(Len(b) - m) /\ m \in 0..Len(b) /\ Len(b) \in Nat
      BY <1>3, <1>6 DEF Left
    <3>3. 1 \in DOMAIN c /\ m # Len(b) /\ i \in Nat /\ (i = 1 \/ 1 < i)
      BY <3>1, <3>2
    <3>4. c[1] = b[m + 1] /\ c[1].seq \in Nat /\ m + 1 \in DOMAIN b
      BY <1>9, <3>3
    <3>5. c[1].seq # rx'.start
      BY <1>6, <3>3, <3>4 DEF Advanced
    <3>6. c[1].seq <= c[i].seq
      <4>1. i # 1 /\ m + 1 < m + i /\ m + i \in DOMAIN b /\ c[i] = b[m + i]
        BY <1>1, <1>9, <2>4, <3>1, <3>3, <3>5
      <4> QED BY <1>5, <3>4, <4>1
    <3>7. PICK x : x = c[1].seq
      OBVIOUS
    <3>8. x < rx'.start /\ x \in Nat
      BY <2>1, <2>4, <3>1, <3>4, <3>5, <3>6, <3>7
    <3>9. rx'.start = x + 1 /\ Behind(x)
      BY <1>14, <3>3, <3>7, <3>8
    <3>10. x <= z
      BY <1>2, <3>9 DEF Behind
    <3> QED BY <1>2, <2>1, <2>2, <2>4, <3>8, <3>9, <3>10
  <2>5. Newest(t)' /\ Young' = {t}
    BY <1>2, <2>3, HeardIs DEF Heard
  <2> QED BY <2>4, <2>5 DEF Lone
<1>17. Echoes'
  <2>1. Waiting' = {} /\ Flying' = {} /\ Young' = Young /\ rx'.bitmap = rx.bitmap
    BY <1>2 DEF Heard, Requesting
  <2>2. \A t \in Young' : t \in rx'.bitmap => t \in air'.acked \/ Lone(t)'
    BY <1>16, <2>1
  <2> QED BY <2>1, <2>2 DEF Echoes
<1> QED BY <1>15, <1>17

(* Steps that leave the recipient's records as they are.                   *)
LEMMA StillSteps ==
  ASSUME FirstHalf, Sending, InService, Link, Next, ~SendFirst, Heard, UNCHANGED <<rx, up, lastSeq>>, air'.kind # "ba"
  PROVE  Link' /\ PacketOrder'
<1>1. Eased
  BY EasedSteps
<1>2. ToSet(up') \subseteq Told
  BY DEF Told
<1> QED BY <1>1, <1>2, EasedLink, HeardPackets DEF Sending

(* No packet is sent in such a step.                                       *)
LEMMA NoFirst ==
  ASSUME FirstHalf, Sending, Heard
  PROVE  ~SendFirst
<1>1. nextSeq \in Nat
  BY NumbersAre DEF Sending
<1>2. SendFirst => nextSeq' = nextSeq + 1
  BY FirstIs DEF Sending
<1> QED BY <1>1, <1>2 DEF Heard

(* A request for a block ack, with a record and without one.               *)
LEMMA BlockRequest ==
  ASSUME FirstHalf, Window > 1, Sending, InService, Link, Next, ReceiveBlockAckReq
  PROVE  Link' /\ PacketOrder'
<1>1. ~IsBlock(air') /\ (~rx.exists => air'.kind = "none")
  BY Kinds DEF ReceiveBlockAckReq, IsBlock
<1>2. Heard /\ Typed /\ ~SendFirst
  BY <1>1, HeardSteps, NoFirst, TypedIs DEF Sending
<1>3. CASE ~rx.exists
  BY <1>1, <1>2, <1>3, StillSteps DEF ReceiveBlockAckReq
<1>4. CASE rx.exists
  <2>1. PICK z : z = air.start
    OBVIOUS
  <2>2. z \in Asks /\ z \in Nat /\ z < nextSeq /\ z \in Early /\ Waiting = {}
    <3>1. cur.kind = "bar" /\ z = cur.start
      BY <2>1 DEF ReceiveBlockAckReq, Sending, OrderInv, WindowInv, Answering
    <3>2. z \in Asks
      BY <3>1 DEF Asks
    <3>3. z \in Nat /\ z < nextSeq /\ Waiting = {}
      BY <1>2, <3>2 DEF Typed, Sending, WindowOrder
    <3> QED BY <1>2, <3>2, <3>3 DEF Typed, Early
  <2>3. RecipientOrder /\ LinkOrder
    BY DEF Link
  <2>4. PICK m : Requesting(z, m)
    BY <1>4, <2>1, <2>2, <2>3, AskedEffect
  <2>5. Asking(z, m)
    BY <1>2, <1>4, <2>2, <2>3, <2>4 DEF Asking
  <2>6. RecipientOrder' /\ LinkOrder'
    BY <2>3, <2>5, AskingOrder, AskingLink
  <2>7. Chain'
    <3> SUFFICES ASSUME NeverTornDown' PROVE (Climbing(up) /\ Copies /\ Echoes)'
      BY DEF Chain
    <3>1. Climbing(up) /\ Copies
      BY <1>2, HeardIs DEF Link, Chain
    <3>2. Copies' /\ Echoes'
      BY <2>5, <3>1, AskingCopies
    <3>3. Climbing(up')
      BY <2>4, <3>1 DEF Requesting, Copies
    <3> QED BY <3>2, <3>3
  <2>8. ToSet(up') \subseteq Told
    <3>1. ToSet(up') \subseteq ToSet(up) \cup PacketsOf(rx.buffer)
      BY <2>4 DEF Requesting
    <3>2. PacketsOf(rx.buffer) \subseteq Told
      BY <2>3, AmongTold, ReadyIs
    <3> QED BY <3>1, <3>2 DEF Told
  <2> QED BY <1>2, <2>6, <2>7, <2>8, HeardPackets DEF Link
<1> QED BY <1>3, <1>4

-----------------------------------------------------------------------------
(* Nothing is kept for a block ack.                                        *)
Bare == ba.sent = <<>> /\ Young = {} /\ Waiting = {}

(* An agreement without packets.                                           *)
LEMMA BareIs ==
  ASSUME FirstHalf, OrderInv, ba.sent = <<>>
  PROVE  Bare
<1>1. Typed
  BY TypedIs
<1>2. Sent = {}
  BY DEF Sent, SeqsOf
<1> QED BY <1>1, <1>2 DEF Typed, Bare

(* Nothing may still arrive.                                               *)
LEMMA BareLink ==
  ASSUME Bare, Heard, air'.kind # "ba"
  PROVE  LinkOrder' /\ Echoes'
<1>1. Live' = {} /\ Again' = {}
  BY HeardIs DEF Bare
<1>2. Waiting' = {} /\ Flying' = {}
  BY DEF Heard, Bare
<1> QED BY <1>1, <1>2 DEF LinkOrder, Echoes

(* An empty buffer is in order.                                            *)
LEMMA EmptyBuffer ==
  ASSUME rx'.buffer = <<>>
  PROVE  BufferOrder' /\ Copies'
<1>1. Buffered' = {}
  BY DEF Buffered, SeqsOf
<1>2. \A last : Repeats(<<>>, last)
  BY DEF Repeats
<1>3. \A last : InOrder(<<>>, last)
  BY DEF InOrder
<1> QED BY <1>1, <1>2, <1>3 DEF BufferOrder, Copies

(* A request for an agreement: the record begins with the next number.     *)
LEMMA NewRecord ==
  ASSUME FirstHalf, Sending, InService, Link, Next, ReceiveAddBaRequest
  PROVE  Link' /\ PacketOrder'
<1>1. air'.kind = "ack" /\ ~IsBlock(air') /\ UNCHANGED <<up, lastSeq>>
  BY Kinds DEF ReceiveAddBaRequest, IsBlock
<1>2. Heard /\ Typed /\ ~SendFirst
  BY <1>1, HeardSteps, NoFirst, TypedIs DEF Sending
<1>3. CASE rx' = rx
  BY <1>1, <1>2, <1>3, StillSteps
<1>4. CASE rx' # rx
  <2>1. rx' = [exists |-> TRUE, start |-> air.start, buffer |-> <<>>, winStart |-> air.start,
               winEnd |-> Plus(air.start, Window - 1), bitmap |-> {}]
    BY <1>4 DEF ReceiveAddBaRequest
  <2>2. Bare /\ air.start = nextSeq
    <3>1. ba.sent = <<>> /\ air.start = nextSeq
      BY DEF InService, Fits, ReceiveAddBaRequest
    <3> QED BY <3>1, BareIs DEF Sending
  <2>3. rx'.buffer = <<>> /\ rx'.start = nextSeq /\ rx'.winStart = nextSeq /\ rx'.bitmap = {}
    BY <2>1, <2>2
  <2>4. UpOrder(Way, up, lastSeq)'
    BY <1>1, <1>2, LessUpOrder DEF Heard, Link, RecipientOrder
  <2>5. RecordBounds'
    BY <1>2, <2>3 DEF RecordBounds, Heard, Typed
  <2>6. BufferOrder' /\ Copies' /\ LinkOrder' /\ Echoes'
    BY <1>1, <1>2, <2>2, <2>3, EmptyBuffer, BareLink
  <2>7. Chain'
    BY <1>1, <1>2, <2>6, HeardIs, SMTT(30) DEF Chain, Link
  <2>8. ToSet(up') \subseteq Told
    BY <1>1 DEF Told
  <2> QED BY <1>2, <2>4, <2>5, <2>6, <2>7, <2>8, HeardPackets DEF Link, RecipientOrder
<1> QED BY <1>3, <1>4

(* The buffer is emptied from its start.                                   *)
LEMMA Emptied ==
  ASSUME FirstHalf, Sending, NEW r, Ready(Way, r), r.rx.start <= nextSeq,
         NEW q, q = RxCompleteUntilLost(RxCompleteSmaller(r, r.rx.start))
  PROVE  /\ q \in Recv /\ UpOrder(Way, q.up, q.last) /\ InOrder(q.rx.buffer, q.last) /\ q.rx.start <= nextSeq
         /\ ToSet(q.up) \subseteq ToSet(r.up) \cup PacketsOf(r.rx.buffer) /\ q.rx.exists = r.rx.exists
         /\ q.rx.bitmap = r.rx.bitmap /\ q.rx.winStart = r.rx.winStart /\ q.rx.winEnd = r.rx.winEnd
<1>1. PICK m : Handed(Way, r, q, m) /\ Advanced(r.rx.buffer, r.rx.start, q.rx.start, r.rx.start, m)
  <2>1. PICK z : z = r.rx.start
    OBVIOUS
  <2>2. q = RxCompleteUntilLost(RxCompleteSmaller(r, z)) /\ z \in Early \cup {r.rx.start}
    BY <2>1
  <2>3. PICK P : P = Way
    OBVIOUS
  <2>4. Ready(P, r)
    BY <2>3
  <2>5. \E m : /\ Handed(P, r, q, m) /\ Advanced(r.rx.buffer, r.rx.start, q.rx.start, z, m)
               /\ Repeats(r.rx.buffer, r.last) /\ Climbing(r.up) => Climbing(q.up)
    BY <2>2, <2>4, CompletedOrder
  <2> QED BY <2>1, <2>3, <2>5
<1>2. q.rx.start <= nextSeq
  <2>1. PICK b : b = r.rx.buffer
    OBVIOUS
  <2>2. b \in Seq(Item) /\ PairsOf(b) \subseteq Way /\ r.rx.start \in Nat
    BY <2>1, HalfIs DEF Ready, InOrder
  <2>3. \A s \in SeqsOf(b) : s \in Nat /\ s < nextSeq
    <3> SUFFICES ASSUME NEW i \in DOMAIN b PROVE b[i].seq \in Nat /\ b[i].seq < nextSeq
      BY DEF SeqsOf
    <3>1. PICK x : x = <<b[i].seq, b[i].packet>>
      OBVIOUS
    <3>2. x \in Way /\ x[1] = b[i].seq
      BY <2>2, <3>1 DEF PairsOf
    <3> QED BY <3>2, PairsLow DEF Sending
  <2>4. nextSeq \in Nat
    BY NumbersAre DEF Sending
  <2>5. q.rx.start \in Nat
    BY <1>1, RecvIs, SpaceType DEF Handed, Seqs
  <2>6. Advanced(b, r.rx.start, q.rx.start, r.rx.start, m)
    BY <1>1, <2>1
  <2> QED BY <2>2, <2>3, <2>4, <2>5, <2>6, AdvancedBound
<1> QED BY <1>1, <1>2 DEF Handed

(* A packet under normal acknowledgement is the newest one.                *)
LEMMA NormalData ==
  ASSUME FirstHalf, Sending, InService, Link, Normals \/ ~NeverTornDown, Next, ReceiveUnderNormalAck
  PROVE  Link' /\ PacketOrder'
<1>1. air'.kind = "ack" /\ ~IsBlock(air')
  BY Kinds DEF ReceiveUnderNormalAck, IsBlock
<1>2. Heard /\ Typed
  BY <1>1, HeardSteps, TypedIs DEF Sending
<1>3. PICK item : item = air.item
  OBVIOUS
<1>4. PICK s : s = item.seq
  OBVIOUS
<1>5. IsNormal(air) /\ item \in Item /\ <<item.seq, item.packet>> \in Way
  <2>1. air.kind = "data" /\ air.policy = "normal" /\ air \in Frame
    BY DEF ReceiveUnderNormalAck, Sending, OrderInv, FrameInv
  <2>2. item \in Item
    BY <1>3, <2>1, FrameHas
  <2> QED BY <1>3, <2>1, <2>2 DEF IsNormal, Way, FramePairs
<1>6. ba.state = "none" /\ s + 1 = nextSeq
  BY <1>3, <1>4, <1>5 DEF InService, Fits
<1>7. Bare
  <2>1. ba.sent = <<>>
    BY <1>6 DEF Sending, OrderInv, WindowInv, PacketInv, Containers
  <2> QED BY <2>1, BareIs DEF Sending
<1>8. s \in Nat /\ s < nextSeq /\ s \in Early /\ Reached(lastSeq, s)
  <2>1. s \in Nat
    BY <1>4, <1>5, SpaceType DEF Item, Seqs
  <2>2. s < nextSeq /\ nextSeq \in Nat /\ (lastSeq = SeqSpace \/ (lastSeq \in Nat /\ lastSeq < nextSeq)) /\ s \in Early
    BY <1>2, <1>6, <2>1 DEF Typed, Early
  <2> QED BY <1>6, <2>1, <2>2 DEF Reached
<1>9. /\ Ready(Way, Recipient) /\ Whole(rx) /\ Covered(rx) /\ Recipient \in Recv
      /\ InOrder(rx.buffer, lastSeq) /\ rx.start \in 0..Half /\ PairsOf(rx.buffer) \subseteq Way /\ rx.start <= nextSeq
      /\ UpOrder(Way, up, lastSeq) /\ Once(Way) /\ Ranked(Way) /\ Natural(Way)
  <2>1. RecipientOrder /\ rx.start <= nextSeq
    BY DEF Link, RecipientOrder, RecordBounds
  <2> QED BY <2>1, ReadyIs
<1>10. ToSet(up) \subseteq Told /\ item.packet \in Told
  <2>1. PICK x : x = <<item.seq, item.packet>>
    OBVIOUS
  <2>2. x \in Way /\ x[2] = item.packet
    BY <1>5, <2>1
  <2> QED BY <2>2 DEF Told
<1>11. LinkOrder' /\ Echoes'
  BY <1>1, <1>2, <1>7, BareLink
<1>12. CASE rx.exists
  <2>1. PICK r : r = Stored(item)
    OBVIOUS
  <2>2. Put(Recipient, r, item)
    BY <1>4, <1>5, <1>8, <1>9, <2>1, StoredOrder
  <2>3. /\ r \in Recv /\ r.up = up /\ r.last = lastSeq /\ Entered(r.rx.buffer, rx.buffer, item) /\ r.rx.start = rx.start
        /\ r.rx.exists = rx.exists /\ \A x \in r.rx.bitmap : x <= r.rx.winEnd
        /\ r.rx.winStart = rx.winStart \/ r.rx.winStart = s - Window + 1
    BY <1>4, <2>2, RecipientIs DEF Put
  <2>4. PICK b : b = r.rx.buffer
    OBVIOUS
  <2>5. \A i \in DOMAIN b : b[i] = item \/ \E j \in DOMAIN rx.buffer : b[i] = rx.buffer[j]
    BY <2>3, <2>4, EnteredHas
  <2>6. InOrder(b, lastSeq)
    <3>1. b \in Seq(Item) /\ \A i, j \in DOMAIN b : i < j => b[i].seq <= b[j].seq
      BY <2>3, <2>4 DEF Entered
    <3>2. \A i \in DOMAIN b : b[i].seq \in Early /\ Reached(lastSeq, b[i].seq)
      BY <1>4, <1>8, <1>9, <2>5 DEF InOrder
    <3> QED BY <3>1, <3>2 DEF InOrder
  <2>7. PairsOf(b) \subseteq Way
    <3> SUFFICES ASSUME NEW i \in DOMAIN b PROVE <<b[i].seq, b[i].packet>> \in Way
      BY DEF PairsOf
    <3> QED BY <1>5, <1>9, <2>5 DEF PairsOf
  <2>8. Ready(Way, r)
    BY <1>9, <2>3, <2>4, <2>6, <2>7 DEF Ready
  <2>9. PICK q : q = RxCompleteUntilLost(RxCompleteSmaller(r, r.rx.start))
    OBVIOUS
  <2>10. /\ q \in Recv /\ UpOrder(Way, q.up, q.last) /\ InOrder(q.rx.buffer, q.last) /\ q.rx.start <= nextSeq
         /\ ToSet(q.up) \subseteq ToSet(r.up) \cup PacketsOf(r.rx.buffer)
         /\ q.rx.bitmap = r.rx.bitmap /\ q.rx.winStart = r.rx.winStart /\ q.rx.winEnd = r.rx.winEnd
    BY <1>9, <2>3, <2>8, <2>9, Emptied
  <2>11. rx' = q.rx /\ up' = q.up /\ lastSeq' = q.last
    BY <1>3, <1>12, <2>1, <2>3, <2>9 DEF ReceiveUnderNormalAck, Becomes
  <2>12. UpOrder(Way', up', lastSeq')
    BY <1>2, <2>10, <2>11, LessUpOrder DEF Heard
  <2>13. r.rx.winStart <= nextSeq
    <3>1. rx.winStart <= nextSeq
      BY DEF Link, RecipientOrder, RecordBounds
    <3> QED BY <1>2, <1>8, <2>3, <3>1 DEF Typed
  <2>14. BufferOrder' /\ RecordBounds'
    BY <1>2, <2>3, <2>10, <2>11, <2>13 DEF BufferOrder, RecordBounds, Heard
  <2>15. RecipientOrder'
    BY <2>12, <2>14 DEF RecipientOrder
  <2>16. Chain'
    <3>1. ~NeverTornDown
      BY <1>6, <1>12 DEF Normals
    <3> QED BY <1>2, <3>1, HeardIs DEF Chain
  <2>17. ToSet(up') \subseteq Told
    <3>1. PacketsOf(b) \subseteq Told
      BY <2>7, AmongTold
    <3> QED BY <1>10, <2>3, <2>4, <2>10, <2>11, <3>1
  <2> QED BY <1>2, <1>11, <2>15, <2>16, <2>17, HeardPackets DEF Link
<1>13. CASE ~rx.exists
  <2>1. PICK items : items = <<item>>
    OBVIOUS
  <2>2. PICK r : r = Recipient /\ r.rx = rx /\ r.up = up /\ r.last = lastSeq
    BY RecipientIs
  <2>3. PICK q : q = HandUpAll(r, items)
    OBVIOUS
  <2>4. items \in Seq(Item) /\ DOMAIN items = {1} /\ items[1] = item /\ Len(items) = 1 /\ items # <<>>
    BY <1>5, <2>1
  <2>5. PairsOf(items) \subseteq Way /\ Increasing(items) /\ PacketsOf(items) = {item.packet} /\ LastOf(items, lastSeq) = s
        /\ \A i \in DOMAIN items : Reached(lastSeq, items[i].seq)
    BY <1>4, <1>5, <1>8, <2>4 DEF PairsOf, Increasing, PacketsOf, LastOf
  <2>6. r \in Recv /\ UpOrder(Way, r.up, r.last)
    BY <1>9, <2>2
  <2>7. /\ q \in Recv /\ q.rx = rx /\ q.last = s /\ UpOrder(Way, q.up, s)
        /\ ToSet(q.up) \subseteq ToSet(up) \cup {item.packet}
        /\ Repeats(items, lastSeq) /\ Climbing(up) => Climbing(q.up)
    <3>1. PICK P : P = Way
      OBVIOUS
    <3>2. /\ Once(P) /\ Ranked(P) /\ Natural(P) /\ r \in Recv /\ UpOrder(P, r.up, r.last) /\ items \in Seq(Item)
          /\ PairsOf(items) \subseteq P /\ Increasing(items) /\ \A i \in DOMAIN items : Reached(r.last, items[i].seq)
      BY <1>9, <2>2, <2>4, <2>5, <2>6, <3>1
    <3>3. /\ HandUpAll(r, items) \in Recv /\ HandUpAll(r, items).rx = r.rx
          /\ HandUpAll(r, items).last = LastOf(items, r.last)
          /\ UpOrder(P, HandUpAll(r, items).up, LastOf(items, r.last))
          /\ ToSet(HandUpAll(r, items).up) \subseteq ToSet(r.up) \cup PacketsOf(items)
          /\ Repeats(items, r.last) /\ Climbing(r.up) => Climbing(HandUpAll(r, items).up)
      BY <3>2, HandUpOrder
    <3> QED BY <2>2, <2>3, <2>5, <3>1, <3>3
  <2>8. rx' = rx /\ up' = q.up /\ lastSeq' = s
    BY <1>3, <1>13, <2>1, <2>2, <2>3, <2>7 DEF ReceiveUnderNormalAck, Becomes
  <2>9. rx'.buffer = <<>>
    BY <1>13, <2>8, RecipientHas DEF Sending, OrderInv
  <2>10. BufferOrder' /\ Copies'
    BY <2>9, EmptyBuffer
  <2>11. UpOrder(Way', up', lastSeq')
    BY <1>2, <2>7, <2>8, LessUpOrder DEF Heard
  <2>12. RecordBounds'
    BY <1>2, <2>8 DEF RecordBounds, Heard, Link, RecipientOrder
  <2>13. RecipientOrder'
    BY <2>10, <2>11, <2>12 DEF RecipientOrder
  <2>14. Chain'
    <3> SUFFICES ASSUME NeverTornDown' PROVE (Climbing(up) /\ Copies /\ Echoes)'
      BY DEF Chain
    <3>1. NeverTornDown /\ Climbing(up)
      BY <1>2, HeardIs DEF Chain, Link
    <3>2. item.retry \/ Past(lastSeq, s)
      BY <1>3, <1>4, <1>5, <3>1 DEF Normals
    <3>3. Repeats(items, lastSeq)
      <4>1. s = lastSeq => ~Past(lastSeq, s)
        BY <1>2, <1>8 DEF Past, Typed
      <4> QED BY <1>4, <2>4, <3>2, <4>1 DEF Repeats
    <3>4. Climbing(up')
      BY <2>7, <2>8, <3>1, <3>3
    <3> QED BY <1>11, <2>10, <3>4
  <2>15. ToSet(up') \subseteq Told
    BY <1>10, <2>7, <2>8
  <2> QED BY <1>2, <1>11, <2>13, <2>14, <2>15, HeardPackets DEF Link
<1> QED BY <1>12, <1>13

(* An agreement that ends at the recipient.                                *)
LEMMA EndedRecord ==
  ASSUME FirstHalf, Sending, InService, Link, Next, ReceiveDelBa \/ (ReplyGotAck /\ rcur.kind = "delba")
  PROVE  Link' /\ PacketOrder'
<1>1. ~IsBlock(air') /\ air'.kind # "ba"
  BY Kinds DEF ReceiveDelBa, ReplyGotAck, Answered, IsBlock
<1>2. Heard /\ Typed /\ ~SendFirst
  BY <1>1, HeardSteps, NoFirst, TypedIs DEF Sending
<1>3. PICK r : r = Recipient /\ r.rx = rx /\ r.up = up /\ r.last = lastSeq
  BY RecipientIs
<1>4. UNCHANGED <<rx, up, lastSeq>> \/ Becomes(Destroy(r))
  BY <1>3 DEF ReceiveDelBa, ReplyGotAck
<1>5. CASE UNCHANGED <<rx, up, lastSeq>>
  BY <1>1, <1>2, <1>5, StillSteps
<1>6. CASE Becomes(Destroy(r)) /\ ~rx.exists
  <2>1. Destroy(r) = r
    BY <1>3, <1>6 DEF Destroy
  <2>2. UNCHANGED <<rx, up, lastSeq>>
    BY <1>3, <1>6, <2>1 DEF Becomes
  <2> QED BY <1>5, <2>2
<1>7. CASE Becomes(Destroy(r)) /\ rx.exists
  <2>1. RecipientOrder /\ rx.start <= nextSeq
    BY DEF Link, RecipientOrder, RecordBounds
  <2>2. Ready(Way, r) /\ PairsOf(rx.buffer) \subseteq Way
    BY <1>3, <2>1, ReadyIs
  <2>3. PICK q : q = RxCompleteUntilLost(RxCompleteSmaller(r, r.rx.start))
    OBVIOUS
  <2>4. q \in Recv /\ UpOrder(Way, q.up, q.last) /\ ToSet(q.up) \subseteq ToSet(up) \cup PacketsOf(rx.buffer)
    BY <1>3, <2>1, <2>2, <2>3, Emptied
  <2>5. Destroy(r) = [q EXCEPT !.rx = NoRecord]
    BY <1>3, <1>7, <2>3 DEF Destroy
  <2>6. rx' = NoRecord /\ up' = q.up /\ lastSeq' = q.last
    BY <1>7, <2>4, <2>5, RecvIs DEF Becomes
  <2>7. ~rx'.exists /\ rx'.buffer = <<>> /\ rx'.start = 0 /\ rx'.winStart = 0 /\ rx'.bitmap = {}
    BY <2>6 DEF NoRecord
  <2>8. UpOrder(Way', up', lastSeq')
    BY <1>2, <2>4, <2>6, LessUpOrder DEF Heard
  <2>9. RecordBounds'
    BY <1>2, <2>7 DEF RecordBounds, Heard, Typed
  <2>10. RecipientOrder'
    BY <2>7, <2>8, <2>9, EmptyBuffer DEF RecipientOrder
  <2>11. LinkOrder'
    BY <2>7 DEF LinkOrder
  <2>12. Chain'
    <3>1. ~NeverTornDown
      BY HandshakeIs DEF Sending, ReceiveDelBa
    <3> QED BY <1>2, <3>1, HeardIs DEF Chain
  <2>13. ToSet(up') \subseteq Told
    <3>1. PacketsOf(rx.buffer) \subseteq Told
      BY <2>2, AmongTold
    <3> QED BY <2>4, <2>6, <3>1 DEF Told
  <2> QED BY <1>2, <2>10, <2>11, <2>12, <2>13, HeardPackets DEF Link
<1> QED BY <1>4, <1>5, <1>6, <1>7

(* Only a request brings an answer.                                        *)
LEMMA AnswerStays ==
  ASSUME OrderInv, OrderInv', Next, Alone, air'.kind = "ba"
  PROVE  air' = air
<1>1. low' = "blockack" /\ cur.kind # "ba"
  BY DEF OrderInv, WindowInv, PacketInv, Serving
<1>2. CASE Resend
  BY <1>1, <1>2 DEF Resend, Transmit
<1>3. CASE SendBlockAckRequest \/ SendRetry \/ SendDelba \/ SetupBlockAck
  BY <1>1, <1>3, Kinds DEF SendBlockAckRequest, SendRetry, SendDelba, SetupBlockAck, Transmit
<1>4. CASE SendReply
  BY <1>1, <1>4 DEF SendReply
<1>5. CASE ReceiveAddBaResponse \/ GotDelBaFrame \/ GotBlockAck \/ GotAck \/ ReplyGotAck \/ Lose
  BY <1>5, Kinds DEF ReceiveAddBaResponse, GotDelBaFrame, GotBlockAck, GotAck, ReplyGotAck, Answered, Lose
<1>6. CASE Queue \/ Expire \/ SendNothing \/ EndTxNoAck \/ MissedAck \/ ReplyMissedAck \/ MissedBlockAck
           \/ \E side \in {"originator", "recipient"} : InactivityTimeout(side)
  BY <1>6 DEF Queue, Expire, SendNothing, EndTxNoAck, MissedAck, ReplyMissedAck, MissedBlockAck, InactivityTimeout,
              TimedOut, medium
<1> QED BY <1>2, <1>3, <1>4, <1>5, <1>6 DEF Alone

(* Whatever the step, the recipient lacks what may still arrive.           *)
LEMMA LinkStep ==
  ASSUME FirstHalf, Window > 1, InOrderInv, OrderInv', Next
  PROVE  Link' /\ PacketOrder'
<1>1. Sending /\ InService /\ Link /\ (NeverTornDown => Normals) /\ OrderInv /\ PacketOrder
  BY DEF InOrderInv, Sending
<1>2. CASE SendFirst
  BY <1>1, <1>2, FirstGrown, GrownLink, FirstPackets
<1>3. CASE ReceiveUnderBlockAck
  BY <1>1, <1>3, BlockData
<1>4. CASE ReceiveUnderNormalAck
  BY <1>1, <1>4, NormalData
<1>5. CASE ReceiveBlockAckReq
  BY <1>1, <1>5, BlockRequest
<1>6. CASE ReceiveAddBaRequest
  BY <1>1, <1>6, NewRecord
<1>7. CASE ReceiveDelBa \/ (ReplyGotAck /\ rcur.kind = "delba")
  BY <1>1, <1>7, EndedRecord
<1>8. CASE Alone /\ ~SendFirst
  <2>1. UNCHANGED <<rx, up, lastSeq>>
    BY <1>1, <1>8, AloneIs
  <2>2. air'.kind = "ba" => air' = air
    BY <1>1, <1>8, AnswerStays
  <2>3. Eased
    BY <1>1, <1>8, <2>1, <2>2, EasedSteps
  <2> QED BY <1>1, <1>8, <2>3, EasedLink, AlonePackets
<1> QED BY <1>2, <1>3, <1>4, <1>5, <1>6, <1>7, <1>8 DEF Next, Originate, Receive, Timeout, Alone

(* The invariant is inductive.                                             *)
LEMMA InOrderStep == FirstHalf /\ Window > 1 /\ InOrderInv /\ [Next]_vars => InOrderInv'
<1> SUFFICES ASSUME FirstHalf, Window > 1, InOrderInv, [Next]_vars PROVE InOrderInv'
  OBVIOUS
<1>1. OrderInv'
  BY HalfSuffices, OrderStep DEF InOrderInv, Sending
<1>2. CASE UNCHANGED vars
  <2>1. /\ UNCHANGED <<offered, expired, queue, cur, nextSeq, blocked, ba, rx, lastSeq, up, air, low, timeouts>>
    BY <1>2 DEF vars, sender, receiver, medium
  <2>2. Way' = Way /\ Told' = Told
    BY <2>1 DEF Way, Told
  <2>3. PacketOrder'
    BY <2>1, <2>2, SamePackets DEF InOrderInv, Sending
  <2>4. Calm
    BY <2>1 DEF Calm, Sent, Waiting, Asks, Young, Fresh, Flying
  <2>5. WindowOrder' /\ Narrow'
    BY <2>4, CalmOrder DEF InOrderInv, Sending
  <2>6. InService'
    BY <2>1 DEF InOrderInv, InService, Serves, Fits
  <2>7. Normals' <=> Normals
    BY <2>1 DEF Normals
  <2>8. NeverTornDown' <=> NeverTornDown
    BY <2>1 DEF NeverTornDown
  <2>9. Live' = Live /\ Flying' = Flying /\ Waiting' = Waiting /\ Young' = Young /\ Asks' = Asks
    <3>1. Young' = Young
      BY <2>1 DEF Young, Fresh
    <3>2. Flying' = Flying
      BY <2>1 DEF Flying
    <3>3. Waiting' = Waiting /\ Asks' = Asks
      BY <2>1 DEF Waiting, Asks
    <3> QED BY <3>1, <3>2, <3>3 DEF Live
  <2>10. ba.start \in Nat
    <3>1. Typed
      BY TypedIs DEF InOrderInv, Sending
    <3> QED BY <3>1 DEF Typed
  <2>11. Eased
    BY <2>1, <2>2, <2>8, <2>9, <2>10 DEF Eased
  <2>12. Link'
    BY <2>11, EasedLink DEF InOrderInv, Sending
  <2> QED BY <1>1, <2>3, <2>5, <2>6, <2>7, <2>8, <2>12 DEF InOrderInv, Sending
<1>3. CASE Next
  <2>1. Sending /\ InService /\ (NeverTornDown => Normals) /\ OrderInv
    BY DEF InOrderInv, Sending
  <2>2. Link' /\ PacketOrder'
    BY <1>1, <1>3, LinkStep
  <2>3. WindowOrder' /\ Narrow'
    BY <1>3, <2>1, WindowsStep
  <2>4. InService'
    BY <1>3, <2>1, InServiceStep
  <2>5. NeverTornDown' => Normals'
    BY <1>3, <2>1, TimesOut, NormalsStep
  <2> QED BY <1>1, <2>2, <2>3, <2>4, <2>5 DEF InOrderInv, Sending
<1> QED BY <1>2, <1>3

(* It holds at the beginning.                                              *)
LEMMA InitInOrder == FirstHalf /\ Init => InOrderInv
<1> SUFFICES ASSUME FirstHalf, Init PROVE InOrderInv
  OBVIOUS
<1>1. /\ offered = 0 /\ expired = 0 /\ queue = <<>> /\ cur = NoFrame /\ nextSeq = FirstSeq /\ ba = NoAgreement
      /\ rx = NoRecord /\ lastSeq = SeqSpace /\ up = <<>> /\ air = NoFrame /\ low = "idle"
  BY DEF Init
<1>2. OrderInv
  BY InitOrder
<1>3. ba.sent = <<>> /\ ba.retry = <<>> /\ ba.bars = <<>> /\ ba.start = 0 /\ ba.state = "none"
  BY <1>1 DEF NoAgreement
<1>4. rx.buffer = <<>> /\ ~rx.exists /\ rx.bitmap = {} /\ rx.start = 0 /\ rx.winStart = 0
  BY <1>1 DEF NoRecord
<1>5. cur.kind = "none" /\ air.kind = "none"
  BY <1>1, Kinds
<1>6. Way = {} /\ Told = {}
  <2>1. Way = {}
    BY <1>3, <1>4, <1>5 DEF Way, PairsOf, FramePairs
  <2> QED BY <1>1, <2>1 DEF Told, ToSet
<1>7. /\ Sent = {} /\ Young = {} /\ Waiting = {} /\ Asks = {} /\ Flying = {} /\ Live = {} /\ Buffered = {}
  <2>1. Sent = {} /\ Young = {} /\ Buffered = {}
    BY <1>3, <1>4 DEF Sent, Young, Fresh, SeqsOf, Buffered
  <2>2. Waiting = {} /\ Asks = {} /\ Flying = {}
    BY <1>3, <1>5 DEF Waiting, Asks, ToSet, Flying, IsBlock
  <2> QED BY <2>1, <2>2 DEF Live
<1>8. FirstSeq \in Nat /\ nextSeq \in Nat /\ nextSeq >= 0
  BY <1>1, HalfIs
<1>9. PacketOrder
  <2>1. QueueOrder /\ ToldOrder
    BY <1>1, <1>6 DEF QueueOrder, ToldOrder
  <2> QED BY <1>6, <2>1 DEF PacketOrder, Ranked
<1>10. WindowOrder /\ Narrow
  BY <1>3, <1>7, <1>8 DEF WindowOrder, Narrow
<1>11. InService
  BY <1>1, <1>3, <1>5 DEF InService, Serves, Fits, IsBlock, IsNormal
<1>12. RecipientOrder
  <2>1. UpOrder(Way, up, lastSeq)
    BY <1>1 DEF UpOrder
  <2>2. BufferOrder
    BY <1>4 DEF BufferOrder, InOrder
  <2>3. RecordBounds
    BY <1>4, <1>8 DEF RecordBounds
  <2> QED BY <2>1, <2>2, <2>3 DEF RecipientOrder
<1>13. LinkOrder /\ Normals
  BY <1>4, <1>5 DEF LinkOrder, Normals, IsNormal
<1>14. Climbing(up) /\ Copies /\ Echoes
  BY <1>1, <1>4, <1>5, <1>7 DEF Climbing, Copies, Echoes, Repeats
<1> QED BY <1>2, <1>9, <1>10, <1>11, <1>12, <1>13, <1>14 DEF InOrderInv, Sending, Link, Chain

(* It says that packets are handed up in order.                            *)
LEMMA UpRises ==
  ASSUME FirstHalf, InOrderInv
  PROVE  InOrderInFirstHalf
<1>1. Typed /\ UpOrder(Way, up, lastSeq) /\ (NeverTornDown => Climbing(up))
  BY TypedIs DEF InOrderInv, Sending, Link, RecipientOrder, Chain
<1>2. ASSUME NEW i \in DOMAIN up, NEW j \in DOMAIN up, i < j
      PROVE  up[i] < up[j] \/ (~NeverTornDown /\ up[i] = up[j])
  <2>1. up[i] \in Packet /\ up[j] \in Packet
    BY <1>1 DEF Typed
  <2>2. up[i] \in Nat /\ up[j] \in Nat
    BY <2>1, SpaceType
  <2>3. up[i] <= up[j]
    BY <1>1, <1>2 DEF UpOrder
  <2>4. NeverTornDown => up[i] < up[j]
    BY <1>1, <1>2 DEF Climbing
  <2> QED BY <2>2, <2>3, <2>4
<1> QED BY <1>2 DEF InOrderInFirstHalf

(* InOrderInFirstHalf: packets are handed up in order, by the two handlers *)
(* that empty the reordering buffer of MacLow and through the duplicate    *)
(* filter of MacRxMiddle, and once as long as no inactivity timer begins a *)
(* teardown. The numbers of all packets are in the first half of the space,*)
(* and the window covers more than one packet: with a window of one, a new *)
(* packet may move the window of the recipient past one that is still sent *)
(* again, and no block ack covers that one any more.                       *)
THEOREM PacketsStayInOrder == ASSUME FirstHalf, Window > 1 PROVE Spec => []InOrderInFirstHalf
<1>1. Init => InOrderInv
  BY InitInOrder
<1>2. InOrderInv /\ [Next]_vars => InOrderInv'
  BY InOrderStep
<1>3. InOrderInv => InOrderInFirstHalf
  BY UpRises
<1> QED BY <1>1, <1>2, <1>3, PTL DEF Spec
=============================================================================
