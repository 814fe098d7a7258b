----------------------------- MODULE EncProofs -----------------------------
(***************************************************************************)
(* Proofs about the Ethernet driver, for buffers and frames of any size:   *)
(* it is always in the bank of registers it believes in, it follows the    *)
(* chip around the ring of received frames, and undisturbed frames leave   *)
(* the chip as they were sent, however the chip and the driver interleave. *)
(***************************************************************************)
EXTENDS EncSend, WellFoundedInduction, TLAPS
-----------------------------------------------------------------------------
(* The registers. *)

\* An access that does not select its bank follows one in the same bank.
Steady(accesses) ==
    \A i \in DOMAIN accesses :
        accesses[i].selects \/ (i > 1 /\ accesses[i].bank = accesses[i - 1].bank)

\* The index j is where the bank at the i-th access was selected.
SelectedAt(accesses, j, i) ==
    j \in 1 .. i /\ accesses[j].selects /\ \A k \in j + 1 .. i : ~accesses[k].selects

LEMMA BankSelected ==
  ASSUME NEW S, NEW accesses \in Seq(S), NEW i \in DOMAIN accesses, NEW j, SelectedAt(accesses, j, i)
  PROVE  BankAt(accesses, i) = accesses[j].bank
<1> DEFINE c == CHOOSE m \in 1 .. i : accesses[m].selects /\ \A k \in m + 1 .. i : ~accesses[k].selects
<1>1. j \in 1 .. i /\ accesses[j].selects /\ \A k \in j + 1 .. i : ~accesses[k].selects
  BY DEF SelectedAt
<1>2. c \in 1 .. i /\ accesses[c].selects /\ \A k \in c + 1 .. i : ~accesses[k].selects
  BY <1>1
<1>3. i \in Nat
  OBVIOUS
<1> HIDE DEF c
<1>4. c = j
  <2>1. CASE c < j
    BY <1>1, <1>2, <1>3, <2>1
  <2>2. CASE j < c
    BY <1>1, <1>2, <1>3, <2>2
  <2> QED BY <1>1, <1>2, <1>3, <2>1, <2>2
<1> QED BY <1>4 DEF BankAt, c

\* So every access is in the bank that is selected then: a first one that is not
\* would follow one that is.
LEMMA SteadyIsRight ==
  ASSUME NEW S, NEW accesses \in Seq(S), Steady(accesses), NEW i \in DOMAIN accesses
  PROVE  BankAt(accesses, i) = accesses[i].bank
<1> DEFINE Right(n) == \E j \in 1 .. n : SelectedAt(accesses, j, n) /\ accesses[j].bank = accesses[n].bank
           Wrong    == {n \in DOMAIN accesses : ~Right(n)}
<1>1. DOMAIN accesses = 1 .. Len(accesses) /\ Len(accesses) \in Nat /\ Wrong \in SUBSET Nat
  OBVIOUS
<1>2. Wrong = {}
  <2> SUFFICES ASSUME Wrong # {} PROVE FALSE
    OBVIOUS
  <2>1. IsWellFoundedOn(OpToRel(<, Nat), Nat)
    BY NatLessThanWellFounded
  <2>2. PICK n \in Wrong : \A m \in Wrong : <<m, n>> \notin OpToRel(<, Nat)
    <3> HIDE DEF Wrong
    <3> QED BY <1>1, <2>1, WFMin
  <2>3. \A m \in Wrong : ~(m < n)
    BY <1>1, <2>2 DEF OpToRel
  <2>4. n \in 1 .. Len(accesses) /\ ~Right(n)
    BY <1>1
  <2>5. CASE accesses[n].selects
    <3>1. SelectedAt(accesses, n, n)
      BY <2>4, <2>5 DEF SelectedAt
    <3> QED BY <2>4, <3>1
  <2>6. CASE ~accesses[n].selects
    <3>1. n > 1 /\ accesses[n].bank = accesses[n - 1].bank
      BY <1>1, <2>4, <2>6 DEF Steady
    <3>2. n - 1 \in DOMAIN accesses /\ n - 1 < n
      BY <1>1, <2>4, <3>1
    <3>3. Right(n - 1)
      BY <2>3, <3>2
    <3>4. PICK j \in 1 .. n - 1 : SelectedAt(accesses, j, n - 1) /\ accesses[j].bank = accesses[n - 1].bank
      BY <3>3
    <3>5. j \in 1 .. n
      BY <2>4, <3>4
    <3>6. \A k \in j + 1 .. n : k = n \/ k \in j + 1 .. n - 1
      BY <2>4, <3>5
    <3>7. SelectedAt(accesses, j, n)
      BY <2>6, <3>4, <3>5, <3>6 DEF SelectedAt
    <3> QED BY <2>4, <3>1, <3>4, <3>5, <3>7
  <2> QED BY <2>5, <2>6
<1>3. PICK j \in 1 .. i : SelectedAt(accesses, j, i) /\ accesses[j].bank = accesses[i].bank
  BY <1>2
<1> QED BY <1>3, BankSelected

Access == [bank : 0 .. 3, selects : BOOLEAN]

SteadySeq(a) == a \in Seq(Access) /\ Steady(a)

\* What is put together from steady pieces is steady.
LEMMA SteadyParts ==
  ASSUME NEW a, NEW b, SteadySeq(a), SteadySeq(b)
  PROVE  SteadySeq(a \o b)
<1>0. a \in Seq(Access) /\ b \in Seq(Access) /\ Steady(a) /\ Steady(b)
  BY DEF SteadySeq
<1>1. a \o b \in Seq(Access)
  BY <1>0
<1>2. ASSUME NEW i \in DOMAIN (a \o b)
      PROVE  (a \o b)[i].selects \/ (i > 1 /\ (a \o b)[i].bank = (a \o b)[i - 1].bank)
  <2>1. i \in 1 .. Len(a) + Len(b) /\ Len(a) \in Nat /\ Len(b) \in Nat
    BY <1>0
  <2>2. CASE i <= Len(a)
    <3>1. i \in DOMAIN a /\ (a \o b)[i] = a[i]
      BY <1>0, <2>1, <2>2
    <3>2. a[i].selects \/ (i > 1 /\ a[i].bank = a[i - 1].bank)
      BY <1>0, <3>1 DEF Steady
    <3>3. i > 1 => (a \o b)[i - 1] = a[i - 1]
      BY <1>0, <2>1, <2>2
    <3> QED BY <3>1, <3>2, <3>3
  <2>3. CASE i > Len(a)
    <3> DEFINE j == i - Len(a)
    <3>1. j \in DOMAIN b /\ (a \o b)[i] = b[j]
      BY <1>0, <2>1, <2>3
    <3>2. b[j].selects \/ (j > 1 /\ b[j].bank = b[j - 1].bank)
      BY <1>0, <3>1 DEF Steady
    <3>3. j > 1 => i > 1 /\ (a \o b)[i - 1] = b[j - 1]
      BY <1>0, <2>1, <2>3
    <3> QED BY <3>1, <3>2, <3>3
  <2> QED BY <1>0, <2>1, <2>2, <2>3
<1> QED BY <1>1, <1>2 DEF Steady, SteadySeq

\* write and the sequences made of it are steady.
LEMMA SteadyWrites ==
  ASSUME NEW bank \in 0 .. 3
  PROVE  SteadySeq(<<write(bank)>>) /\ SteadySeq(write16(bank)) /\ SteadySeq(<<write(bank), write(bank)>>)
<1>1. write(bank) \in Access /\ write(bank).selects
  BY DEF write, Access
<1>2. SteadySeq(<<write(bank)>>)
  BY <1>1 DEF Steady, SteadySeq
<1>3. SteadySeq(<<write(bank), write(bank)>>)
  BY <1>1 DEF Steady, SteadySeq
<1> QED BY <1>2, <1>3 DEF write16

\* MACON3 is written after two accesses of its bank.
LEMMA SteadyInit == SteadySeq(BankedAccesses)
<1> DEFINE macon3 == <<write(2), write(2), write_op(2), write_op(2)>>
           start0 == <<write(0)>> \o write16(0) \o write16(0)
           start1 == start0 \o write16(0) \o write16(0)
           middle == start1 \o macon3 \o write16(2)
           after  == middle \o <<write(2), write(2)>> \o write16(2)
<1>1. SteadySeq(macon3)
  BY DEF write, write_op, Access, Steady, SteadySeq
<1>2. SteadySeq(set_mac_address)
  BY DEF set_mac_address, write, Access, Steady, SteadySeq
<1>3. \A bank \in 0 .. 3 : SteadySeq(<<write(bank)>>) /\ SteadySeq(write16(bank)) /\ SteadySeq(<<write(bank), write(bank)>>)
  BY SteadyWrites
<1>4. /\ SteadySeq(<<write(0)>>) /\ SteadySeq(<<write(1)>>) /\ SteadySeq(<<write(2)>>) /\ SteadySeq(<<write(3)>>)
      /\ SteadySeq(write16(0)) /\ SteadySeq(write16(2)) /\ SteadySeq(<<write(2), write(2)>>)
  BY <1>3
<1>5. SteadySeq(phy_write)
  <2>1. SteadySeq(<<write(2)>> \o write16(2))
    BY <1>4, SteadyParts
  <2> QED BY <1>4, <2>1, SteadyParts DEF phy_write
<1>6. SteadySeq(start0)
  <2>1. SteadySeq(<<write(0)>> \o write16(0))
    BY <1>4, SteadyParts
  <2> QED BY <1>4, <2>1, SteadyParts
<1>7. SteadySeq(start1)
  <2>1. SteadySeq(start0 \o write16(0))
    BY <1>4, <1>6, SteadyParts
  <2> QED BY <1>4, <2>1, SteadyParts
<1>8. SteadySeq(middle)
  <2>1. SteadySeq(start1 \o macon3)
    BY <1>1, <1>7, SteadyParts
  <2> QED BY <1>4, <2>1, SteadyParts
<1>9. SteadySeq(after)
  <2>1. SteadySeq(middle \o <<write(2), write(2)>>)
    BY <1>4, <1>8, SteadyParts
  <2> QED BY <1>4, <2>1, SteadyParts
<1>10. BankedAccesses = after \o set_mac_address \o phy_write \o <<write(1)>>
  BY DEF BankedAccesses
<1>11. SteadySeq(after \o set_mac_address \o phy_write \o <<write(1)>>)
  <2>1. SteadySeq(after \o set_mac_address)
    BY <1>2, <1>9, SteadyParts
  <2>2. SteadySeq(after \o set_mac_address \o phy_write)
    BY <1>5, <2>1, SteadyParts
  <2> QED BY <1>4, <2>2, SteadyParts
<1> QED BY <1>10, <1>11

\* The driver knows which bank is selected, and has accessed every register in its
\* bank: enc28j60_init ends with the bank it believes in, although the reset
\* selected another, and MACON3 follows registers of the same bank.
THEOREM BanksAreRight == RingSpec => []RightBank
<1>1. RingInit => RightBank
  BY DEF RingInit, RightBank
<1>2. RightBank /\ [RingNext]_ringVars => RightBank'
  <2> SUFFICES ASSUME RightBank, [RingNext]_ringVars PROVE RightBank'
    OBVIOUS
  <2>1. ASSUME NEW len \in 1 .. MaxFrame, Arrive(len) PROVE RightBank'
    BY <2>1 DEF Arrive, RightBank, ringVars, banks
  <2>2. CASE NoPacket \/ TooBig \/ Deliver
    BY <2>2 DEF NoPacket, TooBig, Deliver, set_bank, RightBank
  <2>3. CASE Insane
    <3>1. \A i \in 1 .. Len(BankedAccesses) : BankAt(BankedAccesses, i) = BankedAccesses[i].bank
      BY SteadyInit, SteadyIsRight DEF SteadySeq
    <3> QED BY <2>3, <3>1 DEF Insane, enc28j60_init, RightBank
  <2>4. CASE UNCHANGED ringVars
    BY <2>4 DEF ringVars, banks, RightBank
  <2> QED BY <2>1, <2>2, <2>3, <2>4 DEF RingNext
<1> QED BY <1>1, <1>2, PTL DEF RingSpec
-----------------------------------------------------------------------------
(* The ring of received frames. *)

\* How far b lies ahead of a in the ring.
Ahead(a, b) == (b - a) % Cells

\* The cell where the header of a frame is.
Begin(id) == Wrap(frames[id].next - frames[id].len - 1)

\* The frames the driver has not come to yet, while it is in step.
Waiting == Len(frames) - Len(unread) + 1 .. Len(frames)

Intact(id) ==
    /\ rxMem[Begin(id)] = [of |-> id, head |-> TRUE]
    /\ \A k \in 1 .. frames[id].len : rxMem[Wrap(Begin(id) + k)] = [of |-> id, head |-> FALSE]

StoredFrame == [len : 1 .. MaxFrame, next : RX]

RingTypeOK ==
    /\ frames \in Seq(StoredFrame)
    /\ rxMem \in [RX -> [of : 0 .. Len(frames), head : BOOLEAN]]
    /\ \A a \in RX : rxMem[a].head => rxMem[a].of \in DOMAIN frames
    /\ ERXWRPT \in RX /\ NextPacketPtr \in RX
    /\ EPKTCNT \in Nat /\ skipped \in Nat /\ synced \in BOOLEAN
    /\ unread \in Seq(Nat)
    /\ delivered \in Seq(Int)

\* The unread frames are the last ones, and the count of the chip is theirs.
LastOnes ==
    /\ EPKTCNT = Len(unread) + skipped
    /\ Len(unread) <= Len(frames)
    /\ \A i \in 1 .. Len(unread) : unread[i] = Len(frames) - Len(unread) + i

\* They follow one another from the driver's pointer to the chip's.
Chained ==
    /\ unread = <<>> => NextPacketPtr = ERXWRPT
    /\ unread # <<>> => Begin(Len(frames) - Len(unread) + 1) = NextPacketPtr
    /\ unread # <<>> => frames[Len(frames)].next = ERXWRPT
    /\ \A i \in Waiting : i + 1 \in Waiting => frames[i].next = Begin(i + 1)

\* In the order of their arrival, none reaches into the next, nor the last into
\* the cells that are free.
Apart ==
    /\ \A i \in Waiting : Ahead(NextPacketPtr, Begin(i)) + frames[i].len + 1 <= Ahead(NextPacketPtr, ERXWRPT)
    /\ \A i, j \in Waiting : i < j => Ahead(NextPacketPtr, Begin(i)) + frames[i].len + 1 <= Ahead(NextPacketPtr, Begin(j))

InRow == LastOnes /\ Chained /\ Apart /\ \A i \in Waiting : Intact(i)

NoneTooBig == \A i \in DOMAIN frames : frames[i].len <= MaxLen

\* As long as no frame was too big the driver has never been out of step.
AllDelivered ==
    /\ synced = TRUE /\ skipped = 0
    /\ Len(delivered) = Len(frames) - Len(unread)
    /\ \A i \in 1 .. Len(delivered) : delivered[i] = i

RingInv ==
    /\ RingTypeOK
    /\ synced = TRUE => InRow
    /\ NoneTooBig => AllDelivered

LEMMA RingSizes ==
  /\ RXSTART \in Nat /\ RXSTOP \in Nat /\ RXSTART < RXSTOP
  /\ Cells = RXSTOP - RXSTART + 1 /\ Cells \in Nat \ {0}
  /\ RX = RXSTART .. RXSTOP
  /\ MaxFrame \in Nat /\ MaxFrame + 1 < Cells /\ MaxLen \in Nat
BY EncRingAssumption DEF Cells, RX

\* Remainders of numbers that are out of range by less than the ring is long.
LEMMA WrapOnce ==
  ASSUME NEW x \in Int, RXSTART - Cells <= x, x <= RXSTOP + Cells
  PROVE  /\ Wrap(x) = IF x < RXSTART THEN x + Cells ELSE IF x > RXSTOP THEN x - Cells ELSE x
         /\ Wrap(x) \in RX
<1> DEFINE n == Cells
           y == x - RXSTART
<1>1. n \in Nat \ {0} /\ y \in Int /\ -n <= y /\ y < 2 * n
  BY RingSizes
<1>2. y % n = IF y < 0 THEN y + n ELSE IF y >= n THEN y - n ELSE y
  <2> HIDE DEF n, y
  <2>1. CASE y < 0
    BY <1>1, <2>1
  <2>2. CASE 0 <= y /\ y < n
    BY <1>1, <2>2
  <2>3. CASE n <= y
    BY <1>1, <2>3
  <2> QED BY <1>1, <2>1, <2>2, <2>3
<1>3. Wrap(x) = RXSTART + (y % n)
  BY DEF Wrap
<1> QED BY <1>1, <1>2, <1>3, RingSizes

LEMMA AheadIs ==
  ASSUME NEW a \in RX, NEW b \in RX
  PROVE  /\ Ahead(a, b) = IF b >= a THEN b - a ELSE b - a + Cells
         /\ Ahead(a, b) \in 0 .. Cells - 1
<1> DEFINE n == Cells
           y == b - a
<1>1. n \in Nat \ {0} /\ y \in Int /\ -n <= y /\ y < n
  BY RingSizes
<1>2. y % n = IF y < 0 THEN y + n ELSE y
  <2> HIDE DEF n, y
  <2>1. CASE y < 0
    BY <1>1, <2>1
  <2>2. CASE 0 <= y
    BY <1>1, <2>2
  <2> QED BY <1>1, <2>1, <2>2
<1>3. Ahead(a, b) = y % n
  BY DEF Ahead
<1> QED BY <1>1, <1>2, <1>3, RingSizes

\* Going k cells forward from b, without passing a again.
LEMMA Further ==
  ASSUME NEW a \in RX, NEW b \in RX, NEW k \in Nat, Ahead(a, b) + k < Cells
  PROVE  Wrap(b + k) \in RX /\ Ahead(a, Wrap(b + k)) = Ahead(a, b) + k
<1>0. Ahead(a, b) \in 0 .. Cells - 1
  BY AheadIs
<1>1. b + k \in Int /\ RXSTART - Cells <= b + k /\ b + k <= RXSTOP + Cells
  BY <1>0, RingSizes
<1>2. Wrap(b + k) = IF b + k > RXSTOP THEN b + k - Cells ELSE b + k
  BY <1>1, WrapOnce, RingSizes
<1>3. Wrap(b + k) \in RX
  BY <1>1, WrapOnce
<1> DEFINE c == Wrap(b + k)
<1>4. Ahead(a, c) = IF c >= a THEN c - a ELSE c - a + Cells
  BY <1>3, AheadIs
<1>5. Ahead(a, b) = IF b >= a THEN b - a ELSE b - a + Cells
  BY AheadIs
<1> HIDE DEF c
<1>6. c = IF b + k > RXSTOP THEN b + k - Cells ELSE b + k
  BY <1>2 DEF c
<1>7. Ahead(a, c) = Ahead(a, b) + k
  BY <1>4, <1>5, <1>6, RingSizes
<1> QED BY <1>3, <1>7 DEF c

\* The place of c seen from k cells further on.
LEMMA Nearer ==
  ASSUME NEW a \in RX, NEW c \in RX, NEW k \in Nat, k <= Ahead(a, c)
  PROVE  Ahead(Wrap(a + k), c) = Ahead(a, c) - k
<1> DEFINE b == Wrap(a + k)
<1>0. Ahead(a, c) = (IF c >= a THEN c - a ELSE c - a + Cells)
  BY AheadIs
<1>1. Ahead(a, c) = (IF c >= a THEN c - a ELSE c - a + Cells) /\ Ahead(a, c) < Cells
  BY <1>0, RingSizes
<1>2. b \in RX /\ b = IF a + k > RXSTOP THEN a + k - Cells ELSE a + k
  BY <1>1, WrapOnce, RingSizes
<1> HIDE DEF b
<1>3. Ahead(b, c) = IF c >= b THEN c - b ELSE c - b + Cells
  BY <1>2, AheadIs
<1>4. Ahead(b, c) = Ahead(a, c) - k
  BY <1>1, <1>2, <1>3, RingSizes
<1> QED BY <1>4 DEF b

\* What lies before w, seen from a, is behind it by the rest of the ring.
LEMMA Behind ==
  ASSUME NEW a \in RX, NEW w \in RX, NEW c \in RX, Ahead(a, c) < Ahead(a, w)
  PROVE  Ahead(w, c) = Cells - Ahead(a, w) + Ahead(a, c)
<1>1. Ahead(a, c) = IF c >= a THEN c - a ELSE c - a + Cells
  BY AheadIs
<1>2. Ahead(a, w) = IF w >= a THEN w - a ELSE w - a + Cells
  BY AheadIs
<1>3. Ahead(w, c) = IF c >= w THEN c - w ELSE c - w + Cells
  BY AheadIs
<1> QED BY <1>1, <1>2, <1>3, RingSizes

\* Forward and back again.
LEMMA ThereAndBack ==
  ASSUME NEW a \in RX, NEW k \in Nat, k < Cells
  PROVE  Wrap(Wrap(a + k) - k) = a /\ Wrap(Wrap(a - k) + k) = a
<1> DEFINE b == Wrap(a + k)
           c == Wrap(a - k)
<1>1. b \in RX /\ b = IF a + k > RXSTOP THEN a + k - Cells ELSE a + k
  BY WrapOnce, RingSizes
<1>2. c \in RX /\ c = IF a - k < RXSTART THEN a - k + Cells ELSE a - k
  BY WrapOnce, RingSizes
<1> HIDE DEF b, c
<1>3. Wrap(b - k) = IF b - k < RXSTART THEN b - k + Cells ELSE IF b - k > RXSTOP THEN b - k - Cells ELSE b - k
  BY <1>1, WrapOnce, RingSizes
<1>4. Wrap(c + k) = IF c + k < RXSTART THEN c + k + Cells ELSE IF c + k > RXSTOP THEN c + k - Cells ELSE c + k
  BY <1>2, WrapOnce, RingSizes
<1>5. Wrap(b - k) = a /\ Wrap(c + k) = a
  BY <1>1, <1>2, <1>3, <1>4, RingSizes
<1> QED BY <1>5 DEF b, c

LEMMA Zero == ASSUME NEW a \in RX PROVE Ahead(a, a) = 0
  BY AheadIs, RingSizes

\* A frame goes from its header to the next one.
LEMMA BeginToNext ==
  ASSUME RingTypeOK, NEW id \in DOMAIN frames
  PROVE  /\ frames[id].len \in 1 .. MaxFrame /\ frames[id].next \in RX
         /\ Begin(id) \in RX
         /\ frames[id].next = Wrap(Begin(id) + (frames[id].len + 1))
<1>0. frames[id] \in StoredFrame
  BY DEF RingTypeOK
<1>1. frames[id].len \in 1 .. MaxFrame /\ frames[id].next \in RX
  BY <1>0 DEF StoredFrame
<1> DEFINE n == frames[id].next
           l == frames[id].len
<1>2. Begin(id) = Wrap(n - (l + 1))
  <2>1. n - l - 1 = n - (l + 1)
    BY <1>1, RingSizes
  <2> QED BY <2>1 DEF Begin
<1>3. Wrap(n - (l + 1)) \in RX
  BY <1>1, WrapOnce, RingSizes
<1>4. Wrap(Wrap(n - (l + 1)) + (l + 1)) = n
  <2>1. n \in RX /\ l + 1 \in Nat /\ l + 1 < Cells
    BY <1>1, RingSizes
  <2> QED BY <2>1, ThereAndBack
<1> QED BY <1>1, <1>2, <1>3, <1>4

LEMMA InitRing == RingInit => RingInv
<1> SUFFICES ASSUME RingInit PROVE RingInv
  OBVIOUS
<1>1. RXSTART \in RX
  BY RingSizes
<1>2. RingTypeOK
  BY <1>1 DEF RingInit, RingTypeOK, Junk
<1>3. Waiting = {}
  BY DEF RingInit, Waiting
<1>4. InRow
  BY <1>3 DEF RingInit, InRow, LastOnes, Chained, Apart
<1>5. AllDelivered
  BY DEF RingInit, AllDelivered
<1> QED BY <1>2, <1>4, <1>5 DEF RingInv

\* A frame is stored behind the others and in none of their cells.
LEMMA StepStore ==
  ASSUME RingInv, NEW len \in 1 .. MaxFrame, Store(len), Pending + len + 1 < Cells,
         UNCHANGED <<NextPacketPtr, delivered, skipped, synced>>
  PROVE  RingInv'
<1>0. RingTypeOK /\ (synced = TRUE => InRow)
  BY DEF RingInv
<1>1. PICK id \in Nat : id = Len(frames) + 1
  BY <1>0 DEF RingTypeOK
<1>2. PICK W \in RX : W = ERXWRPT
  BY <1>0 DEF RingTypeOK
<1>3. PICK size \in Nat : size = len + 1 /\ size < Cells
  BY RingSizes
<1>4. PICK next : next = Wrap(W + size)
  OBVIOUS
<1>5. next \in RX /\ Wrap(next - size) = W
  <2>1. Wrap(W + size) \in RX
    BY <1>3, WrapOnce, RingSizes
  <2> QED BY <1>3, <1>4, <2>1, ThereAndBack
<1>6. /\ frames' = Append(frames, [len |-> len, next |-> next])
      /\ ERXWRPT' = next /\ EPKTCNT' = EPKTCNT + 1
      /\ unread' = Append(unread, id)
      /\ rxMem' = [a \in RX |-> IF (a - W) % Cells < size THEN [of |-> id, head |-> a = W] ELSE rxMem[a]]
  BY <1>1, <1>2, <1>3, <1>4 DEF Store
<1>7. /\ frames' \in Seq(StoredFrame) /\ Len(frames') = id /\ DOMAIN frames' = 1 .. id
      /\ frames'[id] = [len |-> len, next |-> next]
      /\ \A i \in DOMAIN frames : frames'[i] = frames[i]
      /\ DOMAIN frames = 1 .. id - 1
  <2>1. frames \in Seq(StoredFrame) /\ [len |-> len, next |-> next] \in StoredFrame
    BY <1>0, <1>5 DEF RingTypeOK, StoredFrame
  <2> QED BY <1>1, <1>6, <2>1
<1>8. ASSUME NEW a \in RX
      PROVE  /\ Ahead(W, a) < size => rxMem'[a] = [of |-> id, head |-> a = W]
             /\ ~(Ahead(W, a) < size) => rxMem'[a] = rxMem[a]
  BY <1>6 DEF Ahead
<1>9. RingTypeOK'
  <2>1. ASSUME NEW a \in RX
        PROVE  rxMem'[a] \in [of : 0 .. id, head : BOOLEAN] /\ (rxMem'[a].head => rxMem'[a].of \in 1 .. id)
    <3>1. CASE Ahead(W, a) < size
      <4>1. rxMem'[a] = [of |-> id, head |-> a = W]
        BY <1>8, <3>1
      <4>2. id \in 1 .. id /\ id \in 0 .. id
        BY <1>1, <1>7
      <4>3. (a = W) \in BOOLEAN
        OBVIOUS
      <4> QED BY <4>1, <4>2, <4>3
    <3>2. CASE ~(Ahead(W, a) < size)
      <4>1. rxMem'[a] = rxMem[a]
        BY <1>8, <3>2
      <4>2. rxMem[a] \in [of : 0 .. Len(frames), head : BOOLEAN] /\ (rxMem[a].head => rxMem[a].of \in DOMAIN frames)
        BY <1>0 DEF RingTypeOK
      <4>3. Len(frames) = id - 1 /\ 0 .. id - 1 \subseteq 0 .. id /\ DOMAIN frames \subseteq 1 .. id
        BY <1>1, <1>7
      <4>4. rxMem[a] \in [of : 0 .. id, head : BOOLEAN]
        BY <4>2, <4>3
      <4> QED BY <4>1, <4>2, <4>3, <4>4
    <3> QED BY <3>1, <3>2
  <2>2. rxMem' \in [RX -> [of : 0 .. Len(frames'), head : BOOLEAN]]
    BY <1>6, <1>7, <2>1
  <2>3. \A a \in RX : rxMem'[a].head => rxMem'[a].of \in DOMAIN frames'
    BY <1>7, <2>1
  <2>4. unread' \in Seq(Nat) /\ EPKTCNT' \in Nat
    BY <1>0, <1>6 DEF RingTypeOK
  <2> QED BY <1>0, <1>5, <1>6, <1>7, <2>2, <2>3, <2>4 DEF RingTypeOK
<1>10. ASSUME synced = TRUE PROVE InRow'
  <2>0. LastOnes /\ Chained /\ Apart /\ \A i \in Waiting : Intact(i)
    BY <1>0, <1>10 DEF InRow
  <2>1. PICK n \in Nat : n = Len(unread) /\ n <= id - 1
    BY <1>0, <1>1, <2>0 DEF RingTypeOK, LastOnes
  <2>2. /\ Len(unread') = n + 1 /\ unread'[n + 1] = id /\ unread' # <<>>
        /\ \A i \in 1 .. n : unread'[i] = unread[i]
    <3>1. unread \in Seq(Nat) /\ unread' = Append(unread, id)
      BY <1>0, <1>6 DEF RingTypeOK
    <3> QED BY <2>1, <3>1
  <2>3. Waiting = id - n .. id - 1 /\ Waiting' = id - n .. id /\ Waiting \subseteq DOMAIN frames /\ id - n \in Nat
    BY <1>1, <1>7, <2>1, <2>2 DEF Waiting
  <2>4. n = 0 <=> unread = <<>>
    BY <1>0, <2>1 DEF RingTypeOK
  <2>5. Begin(id)' = W
    <3>1. next - len - 1 = next - size
      BY <1>3, <1>5, RingSizes
    <3> QED BY <1>5, <1>7, <3>1 DEF Begin
  <2>6. ASSUME NEW i \in DOMAIN frames PROVE Begin(i)' = Begin(i) /\ frames'[i] = frames[i]
    BY <1>7 DEF Begin
  <2>7. PICK N \in RX : N = NextPacketPtr /\ NextPacketPtr' = N
    BY <1>0 DEF RingTypeOK
  <2>8. Ahead(N, W) \in Nat /\ Ahead(N, W) + size < Cells
    <3>1. Ahead(N, W) \in 0 .. Cells - 1
      BY AheadIs
    <3>2. Pending = Ahead(N, W)
      <4>1. CASE unread = <<>>
        BY <1>2, <2>0, <2>7, <4>1, Zero DEF Pending, Chained
      <4>2. CASE unread # <<>>
        BY <1>2, <2>7, <4>2 DEF Pending, Ahead
      <4> QED BY <4>1, <4>2
    <3> QED BY <1>3, <3>1, <3>2, RingSizes
  <2>9. Ahead(N, next) = Ahead(N, W) + size
    BY <1>4, <2>8, Further
  <2>10. ASSUME NEW i \in Waiting
         PROVE  /\ Begin(i) \in RX /\ frames[i].len \in Nat /\ Ahead(N, Begin(i)) \in Nat
                /\ Ahead(N, Begin(i)) + frames[i].len + 1 <= Ahead(N, W)
    <3>1. Begin(i) \in RX /\ frames[i].len \in 1 .. MaxFrame
      BY <1>0, <2>3, BeginToNext
    <3>2. Ahead(N, Begin(i)) \in 0 .. Cells - 1
      BY <3>1, AheadIs
    <3>3. Ahead(N, Begin(i)) + frames[i].len + 1 <= Ahead(N, W)
      BY <1>2, <2>0, <2>7 DEF Apart
    <3> QED BY <3>1, <3>2, <3>3
  <2>11. LastOnes'
    <3>1. EPKTCNT' = Len(unread') + skipped'
      BY <1>0, <1>6, <2>0, <2>1, <2>2 DEF LastOnes, RingTypeOK
    <3>2. ASSUME NEW i \in 1 .. n + 1 PROVE unread'[i] = id - (n + 1) + i
      <4>1. CASE i = n + 1
        BY <1>1, <2>1, <2>2, <4>1
      <4>2. CASE i \in 1 .. n
        BY <1>1, <2>0, <2>1, <2>2, <4>2 DEF LastOnes
      <4> QED BY <2>1, <4>1, <4>2
    <3> QED BY <1>7, <2>1, <2>2, <3>1, <3>2 DEF LastOnes
  <2>12. Chained'
    <3>0. Len(frames') - Len(unread') + 1 = id - n
      BY <1>1, <1>7, <2>1, <2>2
    <3>1. Begin(id - n)' = N
      <4>2. CASE n = 0
        <5>1. N = W
          BY <1>2, <2>0, <2>4, <2>7, <4>2 DEF Chained
        <5>2. id - n = id
          BY <1>1, <4>2
        <5> QED BY <2>5, <5>1, <5>2
      <4>3. CASE n # 0
        <5>1. id - n \in DOMAIN frames /\ Len(frames) - Len(unread) + 1 = id - n
          BY <1>1, <1>7, <2>1, <4>3
        <5>2. Begin(id - n) = N
          BY <2>0, <2>4, <2>7, <4>3, <5>1 DEF Chained
        <5> QED BY <2>6, <5>1, <5>2
      <4> QED BY <4>2, <4>3
    <3>2. frames'[Len(frames')].next = ERXWRPT'
      BY <1>6, <1>7
    <3>3. ASSUME NEW i \in Waiting', i + 1 \in Waiting' PROVE frames'[i].next = Begin(i + 1)'
      <4>1. i \in Waiting /\ i \in DOMAIN frames /\ n # 0
        BY <1>1, <2>1, <2>3, <3>3
      <4>2. CASE i = id - 1
        <5>1. frames[i].next = W
          BY <1>1, <1>2, <2>0, <2>4, <4>1, <4>2 DEF Chained
        <5>2. i + 1 = id
          BY <1>1, <4>2
        <5> QED BY <2>5, <2>6, <4>1, <5>1, <5>2
      <4>3. CASE i # id - 1
        <5>1. i + 1 \in Waiting
          BY <1>1, <2>1, <2>3, <4>1, <4>3
        <5>2. frames[i].next = Begin(i + 1)
          BY <2>0, <4>1, <5>1 DEF Chained
        <5> QED BY <2>3, <2>6, <4>1, <5>1, <5>2
      <4> QED BY <4>2, <4>3
    <3>4. Begin(Len(frames) - Len(unread) + 1)' = N
      BY <3>0, <3>1 DEF Begin
    <3> QED BY <2>2, <2>7, <3>2, <3>3, <3>4 DEF Chained
  <2>13. Apart'
    <3>1. ASSUME NEW i \in Waiting'
          PROVE  Ahead(N, Begin(i)') + frames'[i].len + 1 <= Ahead(N, next)
      <4>1. CASE i = id
        BY <1>3, <1>7, <2>5, <2>8, <2>9, <4>1
      <4>2. CASE i # id
        <5>1. i \in Waiting
          BY <1>1, <2>1, <2>3, <4>2
        <5>2. Begin(i)' = Begin(i) /\ frames'[i] = frames[i]
          BY <2>3, <2>6, <5>1
        <5> QED BY <1>3, <2>8, <2>9, <2>10, <5>1, <5>2
      <4> QED BY <4>1, <4>2
    <3>2. ASSUME NEW i \in Waiting', NEW j \in Waiting', i < j
          PROVE  Ahead(N, Begin(i)') + frames'[i].len + 1 <= Ahead(N, Begin(j)')
      <4>1. i \in Waiting
        BY <1>1, <2>1, <2>3, <3>2
      <4>2. Begin(i)' = Begin(i) /\ frames'[i] = frames[i]
        BY <2>3, <2>6, <4>1
      <4>3. CASE j = id
        BY <2>5, <2>10, <4>1, <4>2, <4>3
      <4>4. CASE j # id
        <5>1. j \in Waiting
          BY <1>1, <2>1, <2>3, <4>4
        <5>2. Begin(j)' = Begin(j)
          BY <2>3, <2>6, <5>1
        <5>3. Ahead(N, Begin(i)) + frames[i].len + 1 <= Ahead(N, Begin(j))
          BY <2>0, <2>7, <3>2, <4>1, <5>1 DEF Apart
        <5> QED BY <4>2, <5>2, <5>3
      <4> QED BY <4>3, <4>4
    <3> QED BY <1>6, <2>7, <3>1, <3>2 DEF Apart
  <2>14. ASSUME NEW i \in Waiting' PROVE Intact(i)'
    <3>1. CASE i = id
      <4>1. rxMem'[W] = [of |-> id, head |-> TRUE]
        <5>1. Ahead(W, W) < size
          BY <1>3, Zero
        <5>2. rxMem'[W] = [of |-> id, head |-> W = W]
          BY <1>8, <5>1
        <5> QED BY <5>2
      <4>2. ASSUME NEW k \in 1 .. len PROVE rxMem'[Wrap(W + k)] = [of |-> id, head |-> FALSE]
        <5>1. k \in Nat /\ Ahead(W, W) + k < Cells /\ k < size /\ k # 0 /\ Ahead(W, W) = 0
          BY <1>3, Zero, RingSizes
        <5>2. Wrap(W + k) \in RX /\ Ahead(W, Wrap(W + k)) = k
          BY <5>1, Further
        <5>3. Wrap(W + k) # W
          BY <5>1, <5>2
        <5>4. rxMem'[Wrap(W + k)] = [of |-> id, head |-> Wrap(W + k) = W]
          BY <1>8, <5>1, <5>2
        <5>5. (Wrap(W + k) = W) = FALSE
          BY <5>3
        <5> QED BY <5>4, <5>5
      <4>3. frames'[id].len = len
        BY <1>7
      <4>4. Intact(id)'
        BY <2>5, <4>1, <4>2, <4>3 DEF Intact
      <4> QED BY <3>1, <4>4
    <3>2. CASE i # id
      <4>1. i \in Waiting /\ i \in DOMAIN frames
        BY <1>1, <2>1, <2>3, <3>2
      <4>2. ASSUME NEW k \in 0 .. frames[i].len
            PROVE  Wrap(Begin(i) + k) \in RX /\ rxMem'[Wrap(Begin(i) + k)] = rxMem[Wrap(Begin(i) + k)]
        <5>0. /\ frames[i].len \in Nat /\ Ahead(N, Begin(i)) \in Nat
              /\ Ahead(N, Begin(i)) + frames[i].len + 1 <= Ahead(N, W)
          BY <2>10, <4>1
        <5>1. k \in Nat /\ Ahead(N, Begin(i)) + k < Ahead(N, W) /\ Ahead(N, Begin(i)) + k < Cells
          <6>1. k \in Nat /\ k <= frames[i].len
            BY <5>0
          <6>2. Ahead(N, Begin(i)) + k < Ahead(N, W)
            BY <2>8, <5>0, <6>1
          <6>3. Cells \in Int
            BY RingSizes
          <6> QED BY <1>3, <2>8, <5>0, <6>1, <6>2, <6>3
        <5> DEFINE c == Wrap(Begin(i) + k)
        <5>2. c \in RX /\ Ahead(N, c) = Ahead(N, Begin(i)) + k
          BY <2>10, <4>1, <5>1, Further
        <5> HIDE DEF c
        <5>3. Ahead(W, c) = Cells - Ahead(N, W) + Ahead(N, c)
          BY <5>1, <5>2, Behind
        <5>4. ~(Ahead(W, c) < size)
          BY <1>3, <2>8, <2>10, <4>1, <5>2, <5>3, RingSizes
        <5>5. c \in RX /\ rxMem'[c] = rxMem[c]
          BY <1>8, <5>2, <5>4
        <5> QED BY <5>5 DEF c
      <4>3. Intact(i) /\ Begin(i)' = Begin(i) /\ frames'[i] = frames[i] /\ Begin(i) \in RX /\ frames[i].len \in Nat
        BY <2>0, <2>6, <2>10, <4>1
      <4>4. Wrap(Begin(i) + 0) = Begin(i)
        BY <4>3, WrapOnce, RingSizes
      <4>5. rxMem'[Begin(i)] = [of |-> i, head |-> TRUE]
        <5>1. 0 \in 0 .. frames[i].len
          BY <4>3
        <5>2. rxMem'[Begin(i)] = rxMem[Begin(i)]
          BY <4>2, <4>4, <5>1
        <5> QED BY <4>3, <5>2 DEF Intact
      <4>6. ASSUME NEW k \in 1 .. frames[i].len PROVE rxMem'[Wrap(Begin(i) + k)] = [of |-> i, head |-> FALSE]
        <5>1. k \in 0 .. frames[i].len
          BY <4>3
        <5> QED BY <4>2, <4>3, <5>1 DEF Intact
      <4> QED BY <4>3, <4>5, <4>6 DEF Intact
    <3> QED BY <3>1, <3>2
  <2> QED BY <2>11, <2>12, <2>13, <2>14 DEF InRow
<1>11. ASSUME NoneTooBig' PROVE AllDelivered'
  <2>1. NoneTooBig
    BY <1>7, <1>11 DEF NoneTooBig
  <2>2. AllDelivered /\ LastOnes
    BY <1>0, <2>1 DEF RingInv, AllDelivered, InRow
  <2>3. Len(unread') = Len(unread) + 1
    BY <1>0, <1>6 DEF RingTypeOK
  <2>4. Len(delivered') = Len(frames') - Len(unread')
    BY <1>0, <1>1, <1>7, <2>2, <2>3 DEF AllDelivered, RingTypeOK
  <2> QED BY <2>2, <2>4 DEF AllDelivered
<1>12. synced' = synced
  OBVIOUS
<1> QED BY <1>9, <1>10, <1>11, <1>12 DEF RingInv

\* In step, the driver stands at the header of the oldest frame it has not read.
LEMMA ReadInStep ==
  ASSUME RingTypeOK, InRow, synced = TRUE, unread # <<>>,
         NEW first \in Nat, first = Len(frames) - Len(unread) + 1
  PROVE  /\ first \in Waiting /\ first \in DOMAIN frames
         /\ Begin(first) = NextPacketPtr
         /\ AtFrame /\ Header = {frames[first]}
         /\ Contents(frames[first]) = first
<1>1. Len(unread) \in Nat /\ Len(frames) \in Nat /\ Len(unread) <= Len(frames) /\ Len(unread) > 0
  BY DEF RingTypeOK, InRow, LastOnes
<1>2. first \in Waiting /\ first \in DOMAIN frames
  BY <1>1 DEF RingTypeOK, Waiting
<1>3. Begin(first) = NextPacketPtr
  BY DEF InRow, Chained
<1>4. Head(unread) = first
  <2>1. unread[1] = first
    BY <1>1 DEF InRow, LastOnes
  <2> QED BY <1>1, <2>1 DEF RingTypeOK
<1>5. Intact(first)
  BY <1>2 DEF InRow
<1>6. rxMem[NextPacketPtr] = [of |-> first, head |-> TRUE]
  BY <1>3, <1>5 DEF Intact
<1>7. rxMem[NextPacketPtr].head /\ rxMem[NextPacketPtr].of = first
  BY <1>6
<1>8. AtFrame
  BY <1>4, <1>6 DEF AtFrame
<1>9. Header = {frames[first]}
  BY <1>7 DEF Header
<1>10. Contents(frames[first]) = first
  <2>1. \A k \in 1 .. frames[first].len : rxMem[Wrap(NextPacketPtr + k)] = [of |-> first, head |-> FALSE]
    BY <1>3, <1>5 DEF Intact
  <2> QED BY <1>7, <1>8, <2>1 DEF Contents
<1> QED BY <1>2, <1>3, <1>8, <1>9, <1>10

\* As long as no frame was too big, a packet to read is one the driver is in step with.
LEMMA ReadsFrames ==
  ASSUME RingInv, NoneTooBig, EPKTCNT > 0
  PROVE  synced = TRUE /\ InRow /\ AllDelivered /\ unread # <<>>
<1>1. AllDelivered /\ synced = TRUE /\ InRow
  BY DEF RingInv, AllDelivered
<1>2. Len(unread) = EPKTCNT
  BY <1>1 DEF InRow, LastOnes, AllDelivered, RingInv, RingTypeOK
<1> QED BY <1>1, <1>2

LEMMA HeaderType ==
  ASSUME RingTypeOK, NEW h \in Header, h.next <= RXSTOP
  PROVE  h.next \in RX
<1> DEFINE cell == rxMem[NextPacketPtr]
<1>1. CASE cell.head
  <2>1. h = frames[cell.of] /\ cell.of \in DOMAIN frames
    BY <1>1 DEF Header, RingTypeOK
  <2>2. frames[cell.of] \in StoredFrame
    BY <2>1 DEF RingTypeOK
  <2> QED BY <2>1, <2>2 DEF StoredFrame
<1>2. CASE ~cell.head
  <2>1. h.next \in {RXSTART, RXSTOP + 1}
    BY <1>2 DEF Header
  <2> QED BY <2>1, RingSizes
<1> QED BY <1>1, <1>2

\* What reading a packet does, whether it is handed over or too big.
Reads(h) ==
    /\ h \in Header /\ h.next <= RXSTOP
    /\ Passed(h)
    /\ UNCHANGED <<rxMem, frames, ERXWRPT>>
    /\ \/ /\ h.len > MaxLen
          /\ skipped' = IF synced THEN skipped + 1 ELSE skipped
          /\ UNCHANGED <<EPKTCNT, delivered>>
       \/ /\ h.len <= MaxLen
          /\ delivered' = Append(delivered, Contents(h))
          /\ EPKTCNT' = EPKTCNT - 1
          /\ UNCHANGED skipped

\* The driver comes to the next frame, and to its header.
LEMMA StepRead ==
  ASSUME RingInv, EPKTCNT > 0, NEW h, Reads(h)
  PROVE  RingInv'
<1>0. RingTypeOK /\ (synced = TRUE => InRow)
  BY DEF RingInv
<1>1. /\ NextPacketPtr' = h.next
      /\ unread' = IF unread = <<>> THEN unread ELSE Tail(unread)
      /\ synced' = AtFrame
      /\ rxMem' = rxMem /\ frames' = frames /\ ERXWRPT' = ERXWRPT
  BY DEF Reads, Passed
<1>2. RingTypeOK'
  <2>1. NextPacketPtr' \in RX
    BY <1>0, <1>1, HeaderType DEF Reads
  <2>2. unread' \in Seq(Nat)
    BY <1>0, <1>1 DEF RingTypeOK
  <2>3. synced' \in BOOLEAN
    BY <1>1 DEF AtFrame
  <2>4. Contents(h) \in Int
    <3>1. NextPacketPtr \in RX /\ rxMem \in [RX -> [of : 0 .. Len(frames), head : BOOLEAN]] /\ Len(frames) \in Nat
      BY <1>0 DEF RingTypeOK
    <3>2. rxMem[NextPacketPtr].of \in Int
      BY <3>1
    <3> QED BY <3>2 DEF Contents, Phantom, Spoiled
  <2>5. skipped' \in Nat
    BY <1>0 DEF Reads, RingTypeOK
  <2>6. EPKTCNT' \in Nat
    BY <1>0 DEF Reads, RingTypeOK
  <2>7. delivered' \in Seq(Int)
    <3>1. delivered \in Seq(Int)
      BY <1>0 DEF RingTypeOK
    <3>2. Append(delivered, Contents(h)) \in Seq(Int)
      BY <2>4, <3>1
    <3>3. delivered' = delivered \/ delivered' = Append(delivered, Contents(h))
      BY DEF Reads
    <3> QED BY <3>1, <3>2, <3>3
  <2> QED BY <1>0, <1>1, <2>1, <2>2, <2>3, <2>5, <2>6, <2>7 DEF RingTypeOK
<1>3. ASSUME synced' = TRUE PROVE InRow'
  <2>0. AtFrame
    BY <1>1, <1>3
  <2>1. synced = TRUE /\ unread # <<>>
    BY <1>0, <2>0 DEF AtFrame, RingTypeOK
  <2>2. LastOnes /\ Chained /\ Apart /\ \A i \in Waiting : Intact(i)
    BY <1>0, <2>1 DEF InRow
  <2>3. PICK n \in Nat : n = Len(unread) /\ n > 0 /\ n <= Len(frames)
    BY <1>0, <2>1, <2>2 DEF RingTypeOK, LastOnes
  <2>4. PICK m \in Nat : m = Len(frames)
    BY <1>0 DEF RingTypeOK
  <2>5. PICK first \in Nat : first = m - n + 1
    BY <2>3, <2>4
  <2>6. /\ first \in Waiting /\ first \in DOMAIN frames /\ Begin(first) = NextPacketPtr
        /\ h = frames[first]
    BY <1>0, <2>1, <2>3, <2>4, <2>5, ReadInStep DEF Reads, RingInv
  <2>7. Len(unread') = n - 1 /\ \A i \in 1 .. n - 1 : unread'[i] = unread[i + 1]
    BY <1>0, <1>1, <2>1, <2>3 DEF RingTypeOK
  <2>8. Waiting = first .. m /\ Waiting' = first + 1 .. m /\ Waiting \subseteq DOMAIN frames
    <3>1. Len(frames) - Len(unread) + 1 = first
      BY <2>3, <2>4, <2>5
    <3>2. Len(frames') - Len(unread') + 1 = first + 1 /\ Len(frames') = m
      <4>1. Len(frames') = m
        BY <1>1, <2>4
      <4> QED BY <2>3, <2>5, <2>7, <4>1
    <3>3. Waiting = first .. m /\ Waiting' = first + 1 .. m
      BY <2>4, <3>1, <3>2 DEF Waiting
    <3>4. DOMAIN frames = 1 .. m /\ first >= 1
      BY <1>0, <2>3, <2>4, <2>5 DEF RingTypeOK
    <3> QED BY <3>3, <3>4
  <2>9. PICK N \in RX : N = NextPacketPtr
    BY <1>0 DEF RingTypeOK
  <2>10. PICK M \in RX : M = h.next /\ NextPacketPtr' = M
    BY <1>0, <1>1, HeaderType DEF Reads
  <2>11. PICK W \in RX : W = ERXWRPT /\ ERXWRPT' = W
    BY <1>0, <1>1 DEF RingTypeOK
  <2>12. PICK l \in Nat : l = frames[first].len + 1
    BY <1>0, <2>6, BeginToNext
  <2>13. M = Wrap(N + l)
    BY <1>0, <2>6, <2>9, <2>10, <2>12, BeginToNext
  <2>14. ASSUME NEW i \in DOMAIN frames PROVE Begin(i)' = Begin(i) /\ Begin(i) \in RX
    BY <1>0, <1>1, BeginToNext DEF Begin
  <2>15. ASSUME NEW c \in RX, l <= Ahead(N, c) PROVE Ahead(M, c) = Ahead(N, c) - l
    BY <2>13, <2>15, Nearer
  <2>16. Ahead(N, N) = 0
    BY Zero
  <2>17. ASSUME NEW i \in Waiting'
         PROVE  i \in Waiting /\ i \in DOMAIN frames /\ Ahead(M, Begin(i)) = Ahead(N, Begin(i)) - l
    <3>1. i \in Waiting /\ first < i /\ i \in DOMAIN frames
      BY <2>5, <2>8
    <3>2. Ahead(N, Begin(first)) + frames[first].len + 1 <= Ahead(N, Begin(i))
      BY <2>2, <2>6, <2>9, <3>1 DEF Apart
    <3>3. frames[first].len \in Nat /\ Begin(i) \in RX
      BY <1>0, <2>6, <2>14, <3>1, BeginToNext
    <3>4. l <= Ahead(N, Begin(i))
      BY <2>6, <2>9, <2>12, <2>16, <3>2, <3>3
    <3> QED BY <2>15, <3>1, <3>3, <3>4
  <2>18. Ahead(M, W) = Ahead(N, W) - l
    <3>1. Ahead(N, Begin(first)) + frames[first].len + 1 <= Ahead(N, W)
      BY <2>2, <2>6, <2>9, <2>11 DEF Apart
    <3>2. frames[first].len \in Nat
      BY <1>0, <2>6, BeginToNext
    <3>3. l <= Ahead(N, W)
      BY <2>6, <2>9, <2>12, <2>16, <3>1, <3>2
    <3> QED BY <2>15, <3>3
  <2>19. LastOnes'
    <3>1. EPKTCNT = n + skipped /\ EPKTCNT \in Nat /\ skipped \in Nat
      BY <1>0, <2>2, <2>3 DEF LastOnes, RingTypeOK
    <3>2. EPKTCNT' = n - 1 + skipped'
      <4>1. CASE h.len > MaxLen /\ skipped' = skipped + 1 /\ EPKTCNT' = EPKTCNT
        BY <3>1, <4>1
      <4>2. CASE EPKTCNT' = EPKTCNT - 1 /\ skipped' = skipped
        BY <3>1, <4>2
      <4>3. \/ skipped' = skipped + 1 /\ EPKTCNT' = EPKTCNT /\ h.len > MaxLen
            \/ EPKTCNT' = EPKTCNT - 1 /\ skipped' = skipped
        BY <2>1 DEF Reads
      <4> QED BY <4>1, <4>2, <4>3
    <3>3. ASSUME NEW i \in 1 .. n - 1 PROVE unread'[i] = m - (n - 1) + i
      <4>1. unread[i + 1] = m - n + (i + 1)
        <5>1. i + 1 \in 1 .. Len(unread)
          BY <2>3
        <5> QED BY <2>2, <2>3, <2>4, <5>1 DEF LastOnes
      <4> QED BY <2>3, <2>4, <2>7, <4>1
    <3>4. Len(frames') = m /\ n - 1 <= m
      BY <1>1, <2>3, <2>4
    <3> QED BY <2>7, <3>2, <3>3, <3>4 DEF LastOnes
  <2>20. Chained'
    <3>1. CASE n = 1
      <4>0. first = m /\ frames[m].next = W
        BY <2>1, <2>2, <2>4, <2>5, <2>11, <3>1 DEF Chained
      <4>1. first = m /\ frames[m].next = W /\ unread' = <<>>
        <5>1. unread' \in Seq(Nat) /\ Len(unread') = 0
          BY <1>2, <2>7, <3>1 DEF RingTypeOK
        <5> QED BY <4>0, <5>1
      <4>2. M = W
        BY <2>6, <2>10, <4>1
      <4>3. Waiting' = {}
        BY <2>4, <2>5, <2>8, <4>1
      <4> QED BY <2>10, <2>11, <4>1, <4>2, <4>3 DEF Chained
    <3>2. CASE n > 1
      <4>1. first + 1 \in Waiting /\ first + 1 \in DOMAIN frames
        BY <2>3, <2>4, <2>5, <2>8, <3>2
      <4>2. frames[first].next = Begin(first + 1)
        BY <2>2, <2>6, <4>1 DEF Chained
      <4>3. Begin(first + 1)' = M
        BY <2>6, <2>10, <2>14, <4>1, <4>2
      <4>4. Len(frames') - Len(unread') + 1 = first + 1
        <5>1. Len(frames') = m
          BY <1>1, <2>4
        <5> QED BY <2>3, <2>5, <2>7, <5>1
      <4>5. Begin(Len(frames) - Len(unread) + 1)' = M
        BY <4>3, <4>4 DEF Begin
      <4>6. frames'[Len(frames')].next = ERXWRPT'
        BY <1>1, <2>1, <2>2 DEF Chained
      <4>7. ASSUME NEW i \in Waiting', i + 1 \in Waiting' PROVE frames'[i].next = Begin(i + 1)'
        <5>1. i \in Waiting /\ i + 1 \in Waiting /\ i + 1 \in DOMAIN frames
          BY <2>17, <4>7
        <5>2. frames[i].next = Begin(i + 1)
          BY <2>2, <5>1 DEF Chained
        <5> QED BY <1>1, <2>14, <5>1, <5>2
      <4>8. unread' # <<>>
        BY <2>7, <3>2, <2>3
      <4> QED BY <2>10, <4>5, <4>6, <4>7, <4>8 DEF Chained
    <3> QED BY <2>3, <3>1, <3>2
  <2>21. Apart'
    <3>1. ASSUME NEW i \in Waiting'
          PROVE  Ahead(M, Begin(i)') + frames'[i].len + 1 <= Ahead(M, W)
      <4>1. Ahead(N, Begin(i)) + frames[i].len + 1 <= Ahead(N, W)
        BY <2>2, <2>9, <2>11, <2>17 DEF Apart
      <4>2. Begin(i)' = Begin(i) /\ frames'[i] = frames[i] /\ Ahead(M, Begin(i)) = Ahead(N, Begin(i)) - l
        BY <1>1, <2>14, <2>17
      <4>3. Ahead(N, Begin(i)) \in Int /\ Ahead(N, W) \in Int /\ frames[i].len \in Int
        BY <1>0, <2>14, <2>17, AheadIs, BeginToNext
      <4> QED BY <2>18, <4>1, <4>2, <4>3
    <3>2. ASSUME NEW i \in Waiting', NEW j \in Waiting', i < j
          PROVE  Ahead(M, Begin(i)') + frames'[i].len + 1 <= Ahead(M, Begin(j)')
      <4>1. Ahead(N, Begin(i)) + frames[i].len + 1 <= Ahead(N, Begin(j))
        BY <2>2, <2>9, <2>17, <3>2 DEF Apart
      <4>2. Begin(i)' = Begin(i) /\ frames'[i] = frames[i] /\ Ahead(M, Begin(i)) = Ahead(N, Begin(i)) - l
        BY <1>1, <2>14, <2>17
      <4>3. Begin(j)' = Begin(j) /\ Ahead(M, Begin(j)) = Ahead(N, Begin(j)) - l
        BY <2>14, <2>17
      <4>4. Ahead(N, Begin(i)) \in Int /\ Ahead(N, Begin(j)) \in Int /\ frames[i].len \in Int
        BY <1>0, <2>14, <2>17, AheadIs, BeginToNext
      <4> QED BY <4>1, <4>2, <4>3, <4>4
    <3> QED BY <2>10, <2>11, <3>1, <3>2 DEF Apart
  <2>22. ASSUME NEW i \in Waiting' PROVE Intact(i)'
    BY <1>1, <2>2, <2>17 DEF Intact, Begin
  <2> QED BY <2>19, <2>20, <2>21, <2>22 DEF InRow
<1>4. ASSUME NoneTooBig' PROVE AllDelivered'
  <2>1. NoneTooBig
    BY <1>1, <1>4 DEF NoneTooBig
  <2>2. synced = TRUE /\ InRow /\ AllDelivered /\ unread # <<>>
    BY <2>1, ReadsFrames
  <2>3. PICK first \in Nat : first = Len(frames) - Len(unread) + 1
    <3>1. Len(unread) \in Nat /\ Len(frames) \in Nat /\ Len(unread) <= Len(frames)
      BY <1>0, <2>2 DEF RingTypeOK, InRow, LastOnes
    <3>2. Len(frames) - Len(unread) + 1 \in Nat
      BY <3>1
    <3> QED BY <3>2
  <2>4. AtFrame /\ h = frames[first] /\ first \in DOMAIN frames /\ Contents(h) = first
    BY <1>0, <2>2, <2>3, ReadInStep DEF Reads
  <2>5. h.len <= MaxLen
    BY <2>1, <2>4 DEF NoneTooBig
  <2>6. h.len \in Nat
    BY <1>0, <2>4, BeginToNext
  <2>7. delivered' = Append(delivered, first) /\ skipped' = skipped
    BY <2>4, <2>5, <2>6, RingSizes DEF Reads
  <2>8. first = Len(delivered) + 1 /\ Len(delivered') = Len(delivered) + 1
    <3>1. delivered \in Seq(Int) /\ Len(frames) \in Nat /\ Len(unread) \in Nat
      BY <1>0 DEF RingTypeOK
    <3>2. Len(delivered) = Len(frames) - Len(unread)
      BY <2>2 DEF AllDelivered
    <3>3. Len(delivered') = Len(delivered) + 1
      BY <2>3, <2>7, <3>1
    <3> QED BY <2>3, <3>1, <3>2, <3>3
  <2>9. Len(unread') = Len(unread) - 1
    BY <1>0, <1>1, <2>2 DEF RingTypeOK
  <2>10. ASSUME NEW i \in 1 .. Len(delivered') PROVE delivered'[i] = i
    <3>1. CASE i = Len(delivered) + 1
      BY <1>0, <2>7, <2>8, <3>1 DEF RingTypeOK
    <3>2. CASE i # Len(delivered) + 1
      <4>1. i \in 1 .. Len(delivered)
        BY <1>0, <2>8, <3>2 DEF RingTypeOK
      <4>2. delivered'[i] = delivered[i]
        BY <1>0, <2>7, <4>1 DEF RingTypeOK
      <4> QED BY <2>2, <4>1, <4>2 DEF AllDelivered
    <3> QED BY <3>1, <3>2
  <2>11. synced' = TRUE
    BY <1>1, <2>4
  <2>12. Len(delivered') = Len(frames') - Len(unread')
    BY <1>0, <1>1, <2>2, <2>8, <2>9 DEF AllDelivered, RingTypeOK
  <2> QED BY <2>2, <2>7, <2>10, <2>11, <2>12 DEF AllDelivered
<1> QED BY <1>2, <1>3, <1>4 DEF RingInv

\* After a reset nothing is waiting.  It comes only after a frame that was too big.
LEMMA StepReset ==
  ASSUME RingInv, Insane
  PROVE  RingInv'
<1>0. RingTypeOK
  BY DEF RingInv
<1>1. /\ NextPacketPtr' = RXSTART /\ ERXWRPT' = RXSTART /\ EPKTCNT' = 0
      /\ unread' = <<>> /\ skipped' = 0 /\ synced' = TRUE
      /\ UNCHANGED <<rxMem, frames, delivered>>
  BY DEF Insane, enc28j60_init
<1>2. RXSTART \in RX
  BY RingSizes
<1>3. RingTypeOK'
  BY <1>0, <1>1, <1>2 DEF RingTypeOK
<1>4. InRow'
  <2>1. Len(frames') \in Nat /\ Len(unread') = 0
    BY <1>0, <1>1 DEF RingTypeOK
  <2>2. Waiting' = {}
    BY <2>1 DEF Waiting
  <2> QED BY <1>1, <2>1, <2>2 DEF InRow, LastOnes, Chained, Apart
<1>5. ~NoneTooBig'
  <2> SUFFICES ASSUME NoneTooBig PROVE FALSE
    BY <1>1 DEF NoneTooBig
  <2>1. EPKTCNT > 0
    BY DEF Insane
  <2>2. synced = TRUE /\ InRow /\ unread # <<>>
    BY <2>1, ReadsFrames
  <2>3. PICK first \in Nat : first = Len(frames) - Len(unread) + 1
    <3>1. Len(unread) \in Nat /\ Len(frames) \in Nat /\ Len(unread) <= Len(frames)
      BY <1>0, <2>2 DEF RingTypeOK, InRow, LastOnes
    <3>2. Len(frames) - Len(unread) + 1 \in Nat
      BY <3>1
    <3> QED BY <3>2
  <2>4. Header = {frames[first]} /\ first \in DOMAIN frames
    BY <1>0, <2>2, <2>3, ReadInStep
  <2>5. frames[first].next \in RX
    BY <1>0, <2>4, BeginToNext
  <2>6. frames[first].next > RXSTOP
    BY <2>4 DEF Insane
  <2> QED BY <2>5, <2>6, RingSizes
<1> QED BY <1>3, <1>4, <1>5 DEF RingInv

LEMMA NextRing == ASSUME Polite PROVE RingInv /\ [RingNext]_ringVars => RingInv'
<1> SUFFICES ASSUME RingInv, [RingNext]_ringVars PROVE RingInv'
  OBVIOUS
<1>1. ASSUME NEW len \in 1 .. MaxFrame, Arrive(len) PROVE RingInv'
  <2>1. CASE UNCHANGED ringVars
    BY <2>1 DEF ringVars, chip, ringDriver, RingInv, RingTypeOK, InRow, LastOnes, Chained, Apart, Waiting, Intact, Begin,
                NoneTooBig, AllDelivered
  <2>2. CASE Store(len) /\ Pending + len + 1 < Cells /\ UNCHANGED <<NextPacketPtr, delivered, skipped, synced>>
    BY <2>2, StepStore
  <2> QED BY <1>1, <2>1, <2>2 DEF Arrive
<1>2. CASE NoPacket
  BY <1>2 DEF NoPacket, chip, ringDriver, RingInv, RingTypeOK, InRow, LastOnes, Chained, Apart, Waiting, Intact, Begin,
              NoneTooBig, AllDelivered
<1>3. CASE TooBig
  <2>1. PICK h \in Header : h.next <= RXSTOP /\ h.len > MaxLen /\ Passed(h)
    BY <1>3 DEF TooBig
  <2>2. Reads(h)
    BY <1>3, <2>1 DEF TooBig, chip, Reads
  <2> QED BY <1>3, <2>2, StepRead DEF TooBig
<1>4. CASE Deliver
  <2>1. PICK h \in Header : h.next <= RXSTOP /\ h.len <= MaxLen /\ Passed(h) /\ delivered' = Append(delivered, Contents(h))
    BY <1>4 DEF Deliver
  <2>2. Reads(h)
    BY <1>4, <2>1 DEF Deliver, Reads
  <2> QED BY <1>4, <2>2, StepRead DEF Deliver
<1>5. CASE Insane
  BY <1>5, StepReset
<1>6. CASE UNCHANGED ringVars
  BY <1>6 DEF ringVars, chip, ringDriver, RingInv, RingTypeOK, InRow, LastOnes, Chained, Apart, Waiting, Intact, Begin,
              NoneTooBig, AllDelivered
<1> QED BY <1>1, <1>2, <1>3, <1>4, <1>5, <1>6 DEF RingNext

\* The invariant says what the run checks.
LEMMA RingInvReads == RingInv => ReadsTheRing
<1> SUFFICES ASSUME RingInv PROVE ReadsTheRing
  OBVIOUS
<1>0. RingTypeOK /\ (synced = TRUE => InRow) /\ synced \in BOOLEAN
  BY DEF RingInv, RingTypeOK
<1>1. ASSUME synced
      PROVE  /\ EPKTCNT = Len(unread) + skipped
             /\ NextPacketPtr = IF unread = <<>> THEN ERXWRPT
                                ELSE Wrap(frames[Head(unread)].next - frames[Head(unread)].len - 1)
  <2>1. synced = TRUE /\ InRow
    BY <1>0, <1>1
  <2>2. CASE unread = <<>>
    BY <2>1, <2>2 DEF InRow, LastOnes, Chained
  <2>3. CASE unread # <<>>
    <3>1. Len(unread) > 0 /\ Head(unread) = unread[1] /\ 1 \in 1 .. Len(unread)
      BY <1>0, <2>3 DEF RingTypeOK
    <3>2. Head(unread) = Len(frames) - Len(unread) + 1
      BY <2>1, <3>1 DEF InRow, LastOnes
    <3> QED BY <2>1, <2>3, <3>2 DEF InRow, LastOnes, Chained, Begin
  <2> QED BY <2>2, <2>3
<1>2. ASSUME NoneTooBig PROVE delivered \o unread = [i \in DOMAIN frames |-> i]
  <2>1. AllDelivered /\ InRow
    BY <1>0, <1>2 DEF RingInv, AllDelivered
  <2>2. /\ delivered \in Seq(Int) /\ unread \in Seq(Nat) /\ frames \in Seq(StoredFrame)
        /\ Len(delivered) + Len(unread) = Len(frames)
        /\ \A i \in 1 .. Len(delivered) : delivered[i] = i
        /\ \A i \in 1 .. Len(unread) : unread[i] = Len(delivered) + i
    BY <1>0, <2>1 DEF RingTypeOK, AllDelivered, InRow, LastOnes
  <2>3. DOMAIN (delivered \o unread) = 1 .. Len(frames) /\ DOMAIN frames = 1 .. Len(frames)
    BY <2>2
  <2>4. ASSUME NEW i \in 1 .. Len(frames) PROVE (delivered \o unread)[i] = i
    <3>1. Len(delivered) \in Nat /\ Len(unread) \in Nat /\ i \in Int /\ Len(frames) \in Nat
      BY <2>2
    <3>2. CASE i <= Len(delivered)
      BY <2>2, <3>1, <3>2
    <3>3. CASE i > Len(delivered)
      <4>1. (delivered \o unread)[i] = unread[i - Len(delivered)]
        BY <2>2, <3>1, <3>3
      <4>2. i - Len(delivered) \in 1 .. Len(unread)
        BY <2>2, <3>1, <3>3
      <4>3. unread[i - Len(delivered)] = Len(delivered) + (i - Len(delivered))
        BY <2>2, <4>2
      <4> QED BY <3>1, <4>1, <4>3
    <3>4. i <= Len(delivered) \/ i > Len(delivered)
      BY <3>1
    <3> QED BY <3>2, <3>3, <3>4
  <2>5. delivered \o unread \in Seq(Int)
    <3>1. unread \in Seq(Int) /\ delivered \in Seq(Int)
      BY <2>2
    <3> QED BY <3>1
  <2>6. delivered \o unread = [i \in DOMAIN (delivered \o unread) |-> (delivered \o unread)[i]]
    <3> DEFINE s == delivered \o unread
    <3>1. s \in Seq(Int)
      BY <2>5
    <3> HIDE DEF s
    <3>2. s = [i \in DOMAIN s |-> s[i]]
      BY <3>1
    <3> QED BY <3>2 DEF s
  <2> QED BY <2>3, <2>4, <2>6
<1> QED BY <1>1, <1>2 DEF ReadsTheRing, InStep, FramesInOrder, NoneTooBig

\* Driver and chip stay in step around a ring of any size: every frame is handed over
\* whole, once and in order (enc28j60_packet_receive), although ERXRDPT is set from
\* registers that are read in the wrong order, as long as the unread frames fit
\* in the ring.
THEOREM DriverFollowsChip == ASSUME Polite PROVE RingSpec => []ReadsTheRing
<1>1. RingInv /\ [RingNext]_ringVars => RingInv'
  BY NextRing
<1>2. RingSpec => []RingInv
  BY <1>1, InitRing, PTL DEF RingSpec
<1> QED BY <1>2, RingInvReads, PTL
-----------------------------------------------------------------------------
(* Sending. *)

Cell    == Nat \X Nat
Sending == [id : Nat, cells : Seq(Cell), alone : BOOLEAN]

\* The first n bytes of the frame are in the transmit buffer.
Holds(id, n) == \A k \in 1 .. n : txMem[TXSTART + k] = <<id, k>>

\* The driver stands behind the bytes it has copied, and the chip, if it is
\* sending at all, is not left alone.
Copying ==
    /\ frame.id = Len(lengths) /\ frame.id > 0 /\ frame.len = lengths[frame.id]
    /\ frame.copied \in 0 .. frame.len
    /\ EWRPT = TXSTART + 1 + frame.copied
    /\ ETXND = TXSTART + frame.len
    /\ Holds(frame.id, frame.copied)
    /\ sending = Idle \/ ~sending.alone

\* The chip sends the last frame, which is in the buffer, and has sent its first cells.
SendingAlone ==
    /\ frame = NoFrame
    /\ sending.id = Len(lengths) /\ sending.id > 0
    /\ ETXND = TXSTART + lengths[sending.id]
    /\ Holds(sending.id, lengths[sending.id])
    /\ Len(sending.cells) <= lengths[sending.id]
    /\ \A k \in 1 .. Len(sending.cells) : sending.cells[k] = <<sending.id, k>>

\* What the chip is sending, as far as it is left alone.
Undisturbed == sending # Idle /\ sending.alone => SendingAlone

SentWhole ==
    \A i \in DOMAIN onWire : onWire[i].alone =>
        onWire[i].id \in DOMAIN lengths /\ onWire[i].cells = CellsOf(onWire[i].id)

SendInv ==
    /\ lengths \in Seq(SendLen)
    /\ txMem \in [TX -> Cell]
    /\ ETXND \in TX
    /\ sending \in Sending
    /\ onWire \in Seq(Sending)
    /\ frame \in [id : Nat, len : Nat, copied : Nat]
    /\ frame # NoFrame => Copying
    /\ Undisturbed
    /\ SentWhole

transmitVars == <<txVars, banks>>

\* The buffer has room for the control byte and a frame.
LEMMA Room ==
  /\ TXSTART \in Nat /\ TXSTOP \in Nat /\ TXSTART <= TXSTOP
  /\ \A len \in SendLen : len \in Nat /\ len > 0 /\ TXSTART + len <= TXSTOP
<1>1. TXSTART \in Nat /\ TXSTOP \in Nat /\ TXSTART <= TXSTOP
  BY EncSendAssumption
<1>2. ASSUME NEW len \in SendLen PROVE len \in Nat /\ len > 0 /\ TXSTART + len <= TXSTOP
  <2>1. len \in 1 .. TXSTOP - TXSTART
    BY EncSendAssumption
  <2> QED BY <1>1, <2>1
<1> QED BY <1>1, <1>2

LEMMA InitSend == TransmitInit => SendInv
<1> SUFFICES ASSUME TransmitInit PROVE SendInv
  OBVIOUS
<1>1. TXSTART \in TX
  BY Room DEF TX
<1>2. Idle \in Sending /\ NoFrame \in [id : Nat, len : Nat, copied : Nat]
  BY DEF Idle, Sending, NoFrame
<1>3. txMem \in [TX -> Cell]
  BY DEF TransmitInit, Cell
<1> QED BY <1>1, <1>2, <1>3 DEF TransmitInit, SendInv, Undisturbed, SentWhole

\* packet_send: the buffer is written anew, and what the chip is sending is disturbed.
LEMMA StepPacketSend ==
  ASSUME SendInv, NEW len \in SendLen, packet_send(len)
  PROVE  SendInv'
<1>1. TXSTART \in TX /\ len \in Nat \ {0} /\ TXSTART + len \in TX
  BY Room DEF TX
<1>2. lengths' \in Seq(SendLen) /\ Len(lengths') = Len(lengths) + 1 /\ lengths'[Len(lengths')] = len
  BY DEF SendInv, packet_send
<1>3. \A k \in DOMAIN lengths : k \in DOMAIN lengths' /\ lengths'[k] = lengths[k]
  BY DEF SendInv, packet_send
<1>4. txMem' \in [TX -> Cell] /\ ETXND' \in TX
  BY <1>1 DEF SendInv, packet_send, Cell
<1>5. sending' \in Sending /\ (sending' = Idle \/ ~sending'.alone)
  BY DEF SendInv, packet_send, Disturbed, Sending
<1>6. frame' = [id |-> Len(lengths) + 1, len |-> len, copied |-> 0] /\ Len(lengths) \in Nat
  BY DEF SendInv, packet_send
<1>7. Copying'
  BY <1>1, <1>2, <1>5, <1>6 DEF packet_send, Copying, Holds
<1>8. SentWhole'
  BY <1>3 DEF SendInv, SentWhole, CellsOf, packet_send
<1>9. Undisturbed'
  BY <1>5 DEF Undisturbed
<1>10. onWire' \in Seq(Sending) /\ frame' \in [id : Nat, len : Nat, copied : Nat]
  BY <1>1, <1>6 DEF SendInv, packet_send
<1> QED BY <1>2, <1>4, <1>5, <1>7, <1>8, <1>9, <1>10 DEF SendInv

\* write_buffer: one more byte is where it belongs, within the buffer.
LEMMA StepWriteBuffer ==
  ASSUME SendInv, write_buffer
  PROVE  SendInv'
<1>1. frame # NoFrame /\ Copying
  BY DEF SendInv, write_buffer, NoFrame
<1>2. frame.len \in SendLen /\ frame.copied \in Nat /\ frame.id \in Nat /\ frame.len \in Nat
  BY <1>1 DEF SendInv, Copying
<1>3. EWRPT = TXSTART + frame.copied + 1 /\ EWRPT \in TX
  <2>1. EWRPT = TXSTART + 1 + frame.copied /\ frame.copied < frame.len
    BY <1>1 DEF Copying, write_buffer
  <2>2. TXSTART \in Nat /\ TXSTOP \in Nat /\ TXSTART + frame.len <= TXSTOP
    BY <1>2, Room
  <2> QED BY <1>2, <2>1, <2>2 DEF TX
<1>4. txMem' \in [TX -> Cell]
  BY <1>2, <1>3 DEF SendInv, write_buffer, Cell
<1>5. sending' \in Sending /\ (sending' = Idle \/ ~sending'.alone)
  BY DEF SendInv, write_buffer, Disturbed, Sending
<1>6. frame' = [frame EXCEPT !.copied = frame.copied + 1]
  BY DEF write_buffer
<1>7. frame'.id = frame.id /\ frame'.len = frame.len /\ frame'.copied = frame.copied + 1
  BY <1>6 DEF SendInv
<1>8. Holds(frame.id, frame.copied)'
  <2> SUFFICES ASSUME NEW k \in 1 .. frame.copied + 1
               PROVE  txMem'[TXSTART + k] = <<frame.id, k>>
    BY <1>7 DEF Holds
  <2>1. CASE k = frame.copied + 1
    <3>1. TXSTART + k = EWRPT
      BY <1>2, <1>3, <2>1, Room
    <3>2. txMem'[EWRPT] = <<frame.id, frame.copied + 1>>
      BY <1>3 DEF SendInv, write_buffer
    <3> QED BY <2>1, <3>1, <3>2
  <2>2. CASE k \in 1 .. frame.copied
    <3>1. txMem[TXSTART + k] = <<frame.id, k>>
      BY <1>1, <2>2 DEF Copying, Holds
    <3>2. TXSTART + k \in TX /\ TXSTART + k # EWRPT
      BY <1>2, <1>3, <2>2, Room DEF TX
    <3> QED BY <3>1, <3>2 DEF SendInv, write_buffer
  <2> QED BY <1>2, <2>1, <2>2
<1>9. Copying'
  <2>1. frame'.copied \in 0 .. frame'.len
    BY <1>2, <1>7 DEF write_buffer
  <2>2. EWRPT' = TXSTART + 1 + frame'.copied /\ ETXND' = TXSTART + frame'.len
    BY <1>1, <1>2, <1>3, <1>7, Room DEF Copying, write_buffer
  <2> QED BY <1>1, <1>5, <1>7, <1>8, <2>1, <2>2 DEF Copying, Holds, write_buffer
<1>10. Undisturbed'
  BY <1>5 DEF Undisturbed
<1>11. frame' \in [id : Nat, len : Nat, copied : Nat]
  BY <1>2, <1>6 DEF SendInv
<1>12. SentWhole'
  BY DEF SendInv, SentWhole, CellsOf, write_buffer
<1> QED BY <1>4, <1>5, <1>9, <1>10, <1>11, <1>12 DEF SendInv, write_buffer

\* RequestToSend: an idle chip begins with the frame that was copied.
LEMMA StepRequest ==
  ASSUME SendInv, RequestToSend
  PROVE  SendInv'
<1>1. frame # NoFrame /\ Copying /\ frame.copied = frame.len /\ frame' = NoFrame
  BY DEF SendInv, RequestToSend
<1>2. UNCHANGED <<txMem, EWRPT, ETXND, lengths, onWire>>
  BY DEF RequestToSend
<1>3. NoFrame \in [id : Nat, len : Nat, copied : Nat]
  BY DEF NoFrame
<1>4. CASE sending = Idle
  <2>1. sending' = [id |-> frame.id, cells |-> <<>>, alone |-> TRUE]
    BY <1>4 DEF RequestToSend
  <2>2. sending' \in Sending
    BY <2>1 DEF SendInv, Sending
  <2>3. SendingAlone'
    BY <1>1, <1>2, <2>1 DEF SendInv, SendingAlone, Copying, Holds
  <2> QED BY <1>1, <1>2, <1>3, <2>2, <2>3 DEF SendInv, Undisturbed, SentWhole, CellsOf
<1>5. CASE sending # Idle
  <2>1. sending' = sending /\ ~sending.alone
    BY <1>1, <1>5 DEF RequestToSend, Copying
  <2> QED BY <1>1, <1>2, <1>3, <2>1 DEF SendInv, Undisturbed, SentWhole, CellsOf
<1> QED BY <1>4, <1>5

\* Transmit: a frame left alone goes out byte by byte, and is whole when it is done.
LEMMA StepTransmit ==
  ASSUME SendInv, Transmit
  PROVE  SendInv'
<1> DEFINE n  == Len(sending.cells)
           at == TXSTART + 1 + n
<1>0. n = Len(sending.cells)
  OBVIOUS
<1>1. sending \in Sending /\ n \in Nat /\ sending # Idle
  BY DEF SendInv, Sending, Transmit
<1>2. at = TXSTART + 1 + n /\ n \in Nat
  BY <1>1
<1> HIDE DEF n, at
<1>3. UNCHANGED <<txMem, EWRPT, ETXND, frame, lengths>>
  BY DEF Transmit
<1>4. CASE at <= ETXND
  <2>1. sending' = [sending EXCEPT !.cells = Append(sending.cells, txMem[at])] /\ onWire' = onWire
    BY <1>0, <1>2, <1>4 DEF Transmit
  <2>2. at \in TX /\ txMem[at] \in Cell
    <3>1. ETXND \in TX /\ txMem \in [TX -> Cell]
      BY DEF SendInv
    <3>2. at \in TX
      BY <1>2, <1>4, <3>1, Room DEF TX
    <3> QED BY <3>1, <3>2
  <2>3. sending'.cells = Append(sending.cells, txMem[at]) /\ sending'.id = sending.id
            /\ sending'.alone = sending.alone
    BY <1>0, <1>1, <2>1 DEF Sending
  <2>4. sending.cells \in Seq(Cell)
    BY <1>0, <1>1 DEF Sending
  <2>5. sending'.cells \in Seq(Cell)
    BY <2>2, <2>3, <2>4
  <2>6. sending' \in Sending
    BY <1>0, <1>1, <2>1, <2>5, <2>3 DEF Sending
  <2>7. ASSUME sending.alone PROVE SendingAlone'
    <3>1. SendingAlone
      BY <1>0, <1>1, <2>7 DEF SendInv, Undisturbed
    <3>2. sending.id \in DOMAIN lengths /\ lengths[sending.id] \in Nat
      BY <1>0, <1>1, <3>1, Room DEF SendInv, SendingAlone, Sending
    <3>3. n + 1 \in 1 .. lengths[sending.id] /\ TXSTART + (n + 1) = at
      <4>1. ETXND = TXSTART + lengths[sending.id]
        BY <3>1 DEF SendingAlone
      <4> QED BY <1>2, <1>4, <3>2, <4>1, Room
    <3>4. txMem[at] = <<sending.id, n + 1>>
      BY <3>1, <3>3 DEF SendingAlone, Holds
    <3>5. Len(sending'.cells) = n + 1 /\ \A k \in 1 .. n + 1 : sending'.cells[k] = <<sending.id, k>>
      <4>1. \A k \in 1 .. n : sending.cells[k] = <<sending.id, k>>
        BY <1>0, <3>1 DEF SendingAlone
      <4>2. Len(sending'.cells) = n + 1 /\ sending'.cells[n + 1] = txMem[at]
        BY <1>0, <1>1, <2>2, <2>3, <2>4
      <4>3. \A k \in 1 .. n : sending'.cells[k] = sending.cells[k]
        BY <1>0, <1>1, <2>2, <2>3, <2>4
      <4> QED BY <1>0, <1>1, <3>4, <4>1, <4>2, <4>3
    <3>6. /\ frame' = NoFrame
          /\ sending'.id = Len(lengths') /\ sending'.id > 0
          /\ ETXND' = TXSTART + lengths'[sending'.id]
      BY <1>3, <2>3, <3>1 DEF SendingAlone
    <3>7. Holds(sending.id, lengths[sending.id])'
      BY <1>3, <2>3, <3>1 DEF SendingAlone, Holds
    <3>8. Len(sending'.cells) <= lengths'[sending'.id]
      BY <1>3, <2>3, <3>3, <3>5
    <3>9. \A k \in 1 .. Len(sending'.cells) : sending'.cells[k] = <<sending'.id, k>>
      BY <2>3, <3>5
    <3> QED BY <1>3, <2>3, <3>6, <3>7, <3>8, <3>9 DEF SendingAlone
  <2>8. frame # NoFrame => Copying'
    <3> SUFFICES ASSUME frame # NoFrame PROVE Copying'
      OBVIOUS
    <3>1. Copying /\ ~sending.alone
      BY <1>0, <1>1 DEF SendInv, Copying
    <3> QED BY <1>3, <2>3, <3>1 DEF Copying, Holds
  <2>9. SentWhole' /\ Undisturbed'
    BY <1>3, <2>1, <2>3, <2>7 DEF SendInv, SentWhole, Undisturbed, CellsOf
  <2> QED BY <1>3, <2>1, <2>6, <2>8, <2>9 DEF SendInv
<1>5. CASE ~(at <= ETXND)
  <2>1. sending' = Idle /\ onWire' = Append(onWire, sending)
    BY <1>0, <1>2, <1>5 DEF Transmit
  <2>2. Idle \in Sending
    BY DEF Idle, Sending
  <2>3. ASSUME sending.alone
        PROVE  sending.id \in DOMAIN lengths /\ sending.cells = CellsOf(sending.id)
    <3>1. SendingAlone
      BY <1>0, <1>1, <2>3 DEF SendInv, Undisturbed
    <3>2. sending.id \in DOMAIN lengths /\ lengths[sending.id] \in Nat
      BY <1>0, <1>1, <3>1, Room DEF SendInv, SendingAlone, Sending
    <3>3. n = lengths[sending.id]
      <4>1. ETXND = TXSTART + lengths[sending.id] /\ n <= lengths[sending.id]
        BY <1>0, <3>1 DEF SendingAlone
      <4> QED BY <1>2, <1>5, <3>2, <4>1, Room
    <3>4. sending.cells = [k \in 1 .. n |-> sending.cells[k]]
      BY <1>0, <1>1 DEF Sending
    <3>5. [k \in 1 .. n |-> sending.cells[k]] = [k \in 1 .. n |-> <<sending.id, k>>]
      BY <1>0, <3>1 DEF SendingAlone
    <3> QED BY <3>2, <3>3, <3>4, <3>5 DEF CellsOf
  <2>4. onWire' \in Seq(Sending)
    BY <1>0, <1>1, <2>1 DEF SendInv
  <2>5. SentWhole'
    <3> SUFFICES ASSUME NEW i \in DOMAIN onWire', onWire'[i].alone
                 PROVE  onWire'[i].id \in DOMAIN lengths /\ onWire'[i].cells = CellsOf(onWire'[i].id)
      BY <1>3 DEF SentWhole, CellsOf
    <3>1. CASE i \in DOMAIN onWire
      <4>1. onWire'[i] = onWire[i]
        BY <2>1, <3>1 DEF SendInv
      <4> QED BY <3>1, <4>1 DEF SendInv, SentWhole
    <3>2. CASE i \notin DOMAIN onWire
      <4>1. onWire'[i] = sending
        BY <2>1, <3>2 DEF SendInv
      <4> QED BY <2>3, <4>1
    <3> QED BY <3>1, <3>2
  <2>6. frame # NoFrame => Copying'
    BY <1>3, <2>1 DEF SendInv, Copying, Holds
  <2>7. Undisturbed'
    BY <2>1 DEF Undisturbed
  <2> QED BY <1>3, <2>1, <2>2, <2>4, <2>5, <2>6, <2>7 DEF SendInv
<1> QED BY <1>4, <1>5

LEMMA NextSend == SendInv /\ [TransmitNext]_transmitVars => SendInv'
<1> SUFFICES ASSUME SendInv, [TransmitNext]_transmitVars PROVE SendInv'
  OBVIOUS
<1>1. CASE UNCHANGED transmitVars
  BY <1>1 DEF transmitVars, txVars, txChip, SendInv, Copying, Undisturbed, SendingAlone, SentWhole,
              CellsOf, Holds
<1> QED BY <1>1, StepPacketSend, StepWriteBuffer, StepRequest, StepTransmit DEF TransmitNext

LEMMA SendInvariant == TransmitSpec => []SendInv
  BY InitSend, NextSend, PTL DEF TransmitSpec, transmitVars

-----------------------------------------------------------------------------
\* The frames the driver has asked the chip to send.
Asked == Len(lengths) - (IF frame = NoFrame THEN 0 ELSE 1)

AllAlone == \A i \in DOMAIN onWire : onWire[i].alone

\* As long as the driver disturbed no frame, those on the wire are the first ones, and the
\* one being sent is the last that was asked for.
InOrder ==
    AllAlone =>
        /\ \A i \in DOMAIN onWire : onWire[i].id = i
        /\ sending = Idle => Len(onWire) = Asked
        /\ sending # Idle /\ sending.alone => sending.id = Asked /\ Len(onWire) + 1 = Asked

LEMMA OrderPacketSend ==
  ASSUME SendInv, InOrder, NEW len \in SendLen, packet_send(len)
  PROVE  InOrder'
<1>1. Len(lengths') = Len(lengths) + 1 /\ Len(lengths) \in Nat
  BY DEF SendInv, packet_send
<1>2. frame = NoFrame /\ frame' # NoFrame
  BY <1>1 DEF packet_send, NoFrame
<1>3. Asked' = Asked
  BY <1>1, <1>2 DEF Asked
<1>4. sending' = Disturbed /\ onWire' = onWire
  BY DEF packet_send
<1>5. sending = Idle => sending' = Idle
  BY <1>4 DEF Disturbed
<1>6. sending # Idle => sending' # Idle /\ ~sending'.alone
  BY <1>4 DEF Disturbed, SendInv, Sending, Idle
<1> QED BY <1>3, <1>4, <1>5, <1>6 DEF InOrder, AllAlone

LEMMA OrderWriteBuffer ==
  ASSUME SendInv, InOrder, write_buffer
  PROVE  InOrder'
<1>1. frame # NoFrame /\ frame'.copied = frame.copied + 1 /\ frame.copied \in Nat
  BY DEF SendInv, write_buffer, NoFrame
<1>2. frame' # NoFrame
  BY <1>1 DEF NoFrame
<1>3. Asked' = Asked
  BY <1>1, <1>2 DEF Asked, write_buffer
<1>4. sending' = Disturbed /\ onWire' = onWire
  BY DEF write_buffer
<1>5. sending = Idle => sending' = Idle
  BY <1>4 DEF Disturbed
<1>6. sending # Idle => sending' # Idle /\ ~sending'.alone
  BY <1>4 DEF Disturbed, SendInv, Sending, Idle
<1> QED BY <1>3, <1>4, <1>5, <1>6 DEF InOrder, AllAlone

LEMMA OrderRequest ==
  ASSUME SendInv, InOrder, RequestToSend
  PROVE  InOrder'
<1>1. Copying /\ frame # NoFrame /\ frame' = NoFrame
  BY DEF SendInv, RequestToSend
<1>2. lengths' = lengths /\ onWire' = onWire /\ Len(lengths) \in Nat /\ Len(onWire) \in Nat
  BY DEF SendInv, RequestToSend
<1>3. Asked = Len(lengths) - 1 /\ Asked' = Len(lengths)
  BY <1>1, <1>2 DEF Asked
<1>4. CASE sending = Idle
  <2>1. sending' = [id |-> frame.id, cells |-> <<>>, alone |-> TRUE]
    BY <1>4 DEF RequestToSend
  <2>2. sending'.id = Len(lengths) /\ sending' # Idle
    BY <1>1, <2>1 DEF Copying, Idle
  <2> QED BY <1>2, <1>3, <1>4, <2>2 DEF InOrder, AllAlone
<1>5. CASE sending # Idle
  <2>1. sending' = sending /\ ~sending.alone
    BY <1>1, <1>5 DEF RequestToSend, Copying
  <2> QED BY <1>2, <1>5, <2>1 DEF InOrder, AllAlone
<1> QED BY <1>4, <1>5

LEMMA OrderTransmit ==
  ASSUME SendInv, InOrder, Transmit
  PROVE  InOrder'
<1> DEFINE at == TXSTART + 1 + Len(sending.cells)
<1>1. Asked' = Asked
  BY DEF Asked, Transmit
<1>2. sending # Idle /\ sending \in Sending
  BY DEF SendInv, Transmit
<1>3. CASE at <= ETXND
  <2>1. onWire' = onWire /\ sending' = [sending EXCEPT !.cells = Append(sending.cells, txMem[at])]
    BY <1>3 DEF Transmit
  <2> HIDE DEF at
  <2>2. /\ sending'.id = sending.id /\ sending'.alone = sending.alone
        /\ sending'.cells = Append(sending.cells, txMem[at])
    BY <1>2, <2>1 DEF Sending
  <2>3. sending'.cells # <<>>
    BY <1>2, <2>2 DEF Sending
  <2>4. sending' # Idle
    BY <2>3 DEF Idle
  <2> QED BY <1>1, <1>2, <2>1, <2>2, <2>4 DEF InOrder, AllAlone
<1>4. CASE ~(at <= ETXND)
  <2>1. sending' = Idle /\ onWire' = Append(onWire, sending)
    BY <1>4 DEF Transmit
  <2> SUFFICES ASSUME AllAlone'
               PROVE  (\A i \in DOMAIN onWire' : onWire'[i].id = i) /\ Len(onWire') = Asked
    BY <1>1, <2>1 DEF InOrder
  <2>2. onWire \in Seq(Sending) /\ Len(onWire) \in Nat /\ DOMAIN onWire = 1 .. Len(onWire)
    BY DEF SendInv
  <2>3. /\ Len(onWire') = Len(onWire) + 1 /\ DOMAIN onWire' = 1 .. Len(onWire) + 1
        /\ onWire'[Len(onWire) + 1] = sending
        /\ \A i \in DOMAIN onWire : onWire'[i] = onWire[i]
    BY <1>2, <2>1, <2>2
  <2>4. sending.alone /\ AllAlone
    BY <2>2, <2>3 DEF AllAlone
  <2>5. /\ \A i \in DOMAIN onWire : onWire[i].id = i
        /\ sending.id = Asked /\ Len(onWire) + 1 = Asked
    BY <1>2, <2>4 DEF InOrder
  <2>6. ASSUME NEW i \in DOMAIN onWire' PROVE onWire'[i].id = i
    <3>1. CASE i \in DOMAIN onWire
      BY <2>3, <2>5, <3>1
    <3>2. CASE i \notin DOMAIN onWire
      <4>1. i = Len(onWire) + 1
        BY <2>2, <2>3, <3>2
      <4> QED BY <2>3, <2>5, <4>1
    <3> QED BY <3>1, <3>2
  <2> QED BY <2>3, <2>5, <2>6
<1> QED BY <1>3, <1>4

LEMMA OrderInvariant == TransmitSpec => []InOrder
<1>1. TransmitInit => InOrder
  BY DEF TransmitInit, InOrder, AllAlone, Asked, Idle
<1>2. SendInv /\ InOrder /\ [TransmitNext]_transmitVars => InOrder'
  <2>1. ASSUME InOrder, UNCHANGED transmitVars PROVE InOrder'
    BY <2>1 DEF transmitVars, txVars, txChip, InOrder, AllAlone, Asked
  <2> QED BY <2>1, OrderPacketSend, OrderWriteBuffer, OrderRequest, OrderTransmit DEF TransmitNext
<1> QED BY <1>1, <1>2, SendInvariant, PTL DEF TransmitSpec, transmitVars

\* A frame that the driver leaves alone goes out as enc28j60_packet_send was given
\* it: ETXND counts the control byte, and the pointers start anew with each frame.
\* While every frame is left alone, all go out, in order.
THEOREM FramesGoOut == TransmitSpec => []SendsTheFrames
<1>1. SendInv => WholeFrames
  BY DEF SendInv, SentWhole, WholeFrames
<1>2. SendInv /\ InOrder => AllGoOut
  <2> SUFFICES ASSUME SendInv, InOrder PROVE AllGoOut
    OBVIOUS
  <2> DEFINE out == IF sending = Idle THEN onWire ELSE Append(onWire, sending)
  <2> SUFFICES ASSUME \A i \in DOMAIN out : out[i].alone
               PROVE  [i \in DOMAIN out |-> out[i].id] = [i \in 1 .. Asked |-> i]
    BY DEF AllGoOut, Asked
  <2>1. onWire \in Seq(Sending) /\ Len(onWire) \in Nat /\ DOMAIN onWire = 1 .. Len(onWire) /\ sending \in Sending
    BY DEF SendInv
  <2>2. CASE sending = Idle
    <3>1. out = onWire
      BY <2>2
    <3> HIDE DEF out
    <3>2. AllAlone
      BY <3>1 DEF AllAlone
    <3>3. DOMAIN out = 1 .. Asked /\ \A i \in DOMAIN out : out[i].id = i
      BY <2>1, <2>2, <3>1, <3>2 DEF InOrder
    <3> QED BY <3>3
  <2>3. CASE sending # Idle
    <3>1. out = Append(onWire, sending)
      BY <2>3
    <3> HIDE DEF out
    <3>2. /\ DOMAIN out = 1 .. Len(onWire) + 1
          /\ out[Len(onWire) + 1] = sending
          /\ \A i \in DOMAIN onWire : out[i] = onWire[i]
      BY <2>1, <3>1
    <3>3. AllAlone /\ sending.alone
      BY <2>1, <3>2 DEF AllAlone
    <3>4. /\ \A i \in DOMAIN onWire : onWire[i].id = i
          /\ sending.id = Asked /\ Len(onWire) + 1 = Asked
      BY <2>3, <3>3 DEF InOrder
    <3>5. DOMAIN out = 1 .. Asked
      BY <3>2, <3>4
    <3>6. ASSUME NEW i \in DOMAIN out PROVE out[i].id = i
      <4>1. CASE i \in DOMAIN onWire
        BY <3>2, <3>4, <4>1
      <4>2. CASE i \notin DOMAIN onWire
        <5>1. i = Len(onWire) + 1
          BY <2>1, <3>2, <4>2
        <5> QED BY <3>2, <3>4, <5>1
      <4> QED BY <4>1, <4>2
    <3> QED BY <3>5, <3>6
  <2> QED BY <2>2, <2>3
<1>3. SendInv /\ InOrder => SendsTheFrames
  BY <1>1, <1>2 DEF SendsTheFrames
<1> QED BY <1>3, SendInvariant, OrderInvariant, PTL
=============================================================================
