------------------------------- MODULE EncRing -------------------------------
(***************************************************************************)
(* The receive buffer of the Ethernet chip and the driver that empties it.   *)
(* The chip writes frames one after another into a ring of its memory,       *)
(* each behind a header with its length and the address of the next one;     *)
(* the driver reads the frame at NextPacketPtr and moves the chip's read     *)
(* pointer ERXRDPT, which the chip's write pointer never passes.             *)
(*                                                                           *)
(* An address is a number of two bytes, each below ByteSize: the driver reads*)
(* the two registers of RXSTART in the wrong order and only one of those     *)
(* of RXSTOP.  A header takes one cell of memory, a frame of length n        *)
(* takes n cells.  The chip is external.                                     *)
(***************************************************************************)
EXTENDS Integers, Sequences

CONSTANTS
    RXSTART,   \* RXSTART_INIT
    RXSTOP,    \* RXSTOP_INIT
    ByteSize,  \* the number of values of a byte
    MaxLen,    \* the length network_read accepts
    MaxFrame,  \* MAX_FRAMELEN, the length the chip accepts
    Polite,    \* environment: no burst is longer than the ring
    MaxFrames  \* bound: how many frames arrive

ASSUME EncRingAssumption ==
    /\ RXSTART \in Nat /\ RXSTOP \in Nat /\ RXSTART < RXSTOP
    /\ ByteSize \in Nat \ {0, 1}
    /\ MaxLen \in Nat \ {0} /\ MaxFrame \in Nat /\ MaxLen <= MaxFrame
    /\ MaxFrame + 1 < RXSTOP - RXSTART
    /\ Polite \in BOOLEAN
    /\ MaxFrames \in Nat

VARIABLES
    rxMem,         \* per cell: the number of its frame, and whether it is a header
    frames,        \* the frames that were stored: length and next pointer
    ERXWRPT, ERXRDPT, EPKTCNT,
    BSEL,          \* the bank of registers the chip has selected
    Enc28j60Bank,  \* the bank the driver believes it has
    misplaced,     \* history: a register was accessed in a bank it is not in
    NextPacketPtr,
    delivered,     \* history: the frames handed to uIP; Spoiled for one whose
                   \* cells were written over, Phantom for what was none
    unread,        \* history: the frames the driver has not come to yet
    skipped,       \* history: frames that were too big, while synced
    synced         \* history: the driver has read headers only where they are

chip       == <<rxMem, frames, ERXWRPT, ERXRDPT, EPKTCNT>>
banks      == <<BSEL, Enc28j60Bank, misplaced>>
ringDriver == <<NextPacketPtr, delivered, unread, skipped, synced>>
ringVars   == <<chip, banks, ringDriver>>

RX      == RXSTART .. RXSTOP
Cells   == RXSTOP - RXSTART + 1
Wrap(a) == RXSTART + ((a - RXSTART) % Cells)
Junk    == [of |-> 0, head |-> FALSE]
Spoiled == 0
Phantom == -1
-----------------------------------------------------------------------------
(* The chip: external *)

\* The write pointer would reach the read pointer within n cells.
Blocked(n) == \E k \in 1 .. n : Wrap(ERXWRPT + k) = ERXRDPT

Pending == IF unread = <<>> THEN 0 ELSE (ERXWRPT - NextPacketPtr) % Cells

Store(len) ==
    LET id   == Len(frames) + 1
        size == len + 1
    IN  /\ rxMem' = [a \in RX |->
             IF (a - ERXWRPT) % Cells < size
             THEN [of |-> id, head |-> a = ERXWRPT]
             ELSE rxMem[a]]
        /\ frames' = Append(frames, [len |-> len, next |-> Wrap(ERXWRPT + size)])
        /\ ERXWRPT' = Wrap(ERXWRPT + size)
        /\ EPKTCNT' = EPKTCNT + 1
        /\ unread' = Append(unread, id)

\* A frame arrives.  It is dropped when there is no room: as far as the chip
\* can tell from ERXRDPT.
Arrive(len) ==
    /\ Len(frames) < MaxFrames
    /\ \/ Blocked(len + 1) /\ UNCHANGED ringVars
       \/ /\ ~Blocked(len + 1)
          /\ Polite => Pending + len + 1 < Cells
          /\ Store(len)
          /\ UNCHANGED <<ERXRDPT, banks, NextPacketPtr, delivered, skipped, synced>>
-----------------------------------------------------------------------------
(* Registers *)

\* Mutant of set_bank: the bank is not remembered.
set_bankForgets(bank) ==
    /\ BSEL' = IF bank # Enc28j60Bank THEN bank ELSE BSEL
    /\ UNCHANGED <<Enc28j60Bank, misplaced>>

\* The bank is selected only if the driver believes it is another one.
set_bank(bank) ==
    /\ BSEL' = IF bank # Enc28j60Bank THEN bank ELSE BSEL
    /\ Enc28j60Bank' = bank
    /\ UNCHANGED misplaced

\* Reading the two bytes of a register in the order of the driver.
read16(value) == ((value % ByteSize) * ByteSize) + (value \div ByteSize)

\* An access to a register, in the bank it is in: enc28j60_write and enc28j60_read
\* select the bank, enc28j60_write_op leaves it as it is.
write(bank)     == [bank |-> bank, selects |-> TRUE]
write_op(bank)  == [bank |-> bank, selects |-> FALSE]
write16(bank)   == <<write(bank), write(bank)>>
phy_write       == <<write(2)>> \o write16(2) \o <<write(3)>>
set_mac_address == [i \in 1 .. 6 |-> write(3)]

\* Mutant of BankedAccesses: MACON3 is set up before any register of bank 2.
BankedAccessesEarly ==
    <<write(0)>> \o write16(0) \o write16(0) \o write16(0) \o write16(0)
    \o <<write_op(2), write_op(2), write(2), write(2)>> \o write16(2) \o <<write(2), write(2)>> \o write16(2)
    \o set_mac_address \o phy_write
    \o <<write(1)>>

\* What enc28j60_init accesses: ESTAT; ERXST, ERXRDPT, ERXND and ETXST; MACON2, MACON1,
\* MACON3 twice, MAIPG, MABBIPG, MACON4 and MAMXFL; the address; PHCON1; ERXFCON.
\* ECON1, ECON2, EIE and EIR are in every bank.
BankedAccesses ==
    <<write(0)>> \o write16(0) \o write16(0) \o write16(0) \o write16(0)
    \o <<write(2), write(2), write_op(2), write_op(2)>> \o write16(2) \o <<write(2), write(2)>> \o write16(2)
    \o set_mac_address \o phy_write
    \o <<write(1)>>

\* The bank that is selected at the i-th access, the first of which selects one.
BankAt(accesses, i) ==
    accesses[CHOOSE j \in 1 .. i : accesses[j].selects /\ \A k \in j + 1 .. i : ~accesses[k].selects].bank

\* enc28j60_init, once the PHY is ready: the reset line restarts the chip, with bank
\* 0 selected, and its registers are written.
enc28j60_init ==
    LET last == Len(BankedAccesses)
    IN  /\ NextPacketPtr' = RXSTART
        /\ ERXWRPT' = RXSTART
        /\ ERXRDPT' = RXSTART
        /\ EPKTCNT' = 0
        /\ BSEL' = BankAt(BankedAccesses, last)
        /\ Enc28j60Bank' = BankAt(BankedAccesses, last)
        /\ misplaced' = (misplaced \/ \E i \in 1 .. last : BankAt(BankedAccesses, i) # BankedAccesses[i].bank)
        /\ unread' = <<>>
        /\ skipped' = 0
        /\ synced' = TRUE
        /\ UNCHANGED <<rxMem, frames, delivered>>
-----------------------------------------------------------------------------
(* enc28j60_packet_receive *)

\* EPKTCNT is zero.
NoPacket ==
    /\ EPKTCNT = 0
    /\ set_bank(1)
    /\ UNCHANGED <<chip, ringDriver>>

\* What the header at NextPacketPtr can say: anything, if there is none.
Header ==
    LET cell == rxMem[NextPacketPtr]
    IN  IF cell.head THEN {frames[cell.of]}
        ELSE [len : {1, MaxLen + 1}, next : {RXSTART, RXSTOP + 1}]

\* The driver is in step and reads the oldest frame it has not read.
AtFrame ==
    synced /\ unread # <<>> /\ rxMem[NextPacketPtr] = [of |-> Head(unread), head |-> TRUE]

Contents(h) ==
    LET id == rxMem[NextPacketPtr].of
    IN  IF ~AtFrame THEN Phantom
        ELSE IF \A k \in 1 .. h.len : rxMem[Wrap(NextPacketPtr + k)] = [of |-> id, head |-> FALSE]
        THEN id
        ELSE Spoiled

\* The history goes on with the next frame.
Passed(h) ==
    /\ NextPacketPtr' = h.next
    /\ unread' = IF unread = <<>> THEN unread ELSE Tail(unread)
    /\ synced' = AtFrame

\* Errata workaround #13: the odd address before the next frame, or the end.
NewReadPtr(next) ==
    LET rs == read16(RXSTART)
        re == RXSTOP % ByteSize
    IN  IF next - 1 < rs \/ next - 1 > re THEN re ELSE next - 1

\* Mutant of TooBig: the next frame is not found.
TooBigStays ==
    /\ EPKTCNT > 0
    /\ \E h \in Header :
        /\ h.next <= RXSTOP
        /\ h.len > MaxLen
        /\ Passed([h EXCEPT !.next = Wrap(NextPacketPtr + 1)])
    /\ skipped' = IF synced THEN skipped + 1 ELSE skipped
    /\ set_bank(0)
    /\ UNCHANGED <<chip, delivered>>

\* A frame too big for the buffer: it is read to the end and that is all.
TooBig ==
    /\ EPKTCNT > 0
    /\ \E h \in Header :
        /\ h.next <= RXSTOP
        /\ h.len > MaxLen
        /\ Passed(h)
    /\ skipped' = IF synced THEN skipped + 1 ELSE skipped
    /\ set_bank(0)
    /\ UNCHANGED <<chip, delivered>>

\* Mutant of Deliver: the packet counter is not decremented.
DeliverKeepsCount ==
    /\ EPKTCNT > 0
    /\ \E h \in Header :
        /\ h.next <= RXSTOP
        /\ h.len <= MaxLen
        /\ Passed(h)
        /\ delivered' = Append(delivered, Contents(h))
        /\ ERXRDPT' = NewReadPtr(h.next)
    /\ set_bank(0)
    /\ UNCHANGED <<rxMem, frames, ERXWRPT, EPKTCNT, skipped>>

Deliver ==
    /\ EPKTCNT > 0
    /\ \E h \in Header :
        /\ h.next <= RXSTOP
        /\ h.len <= MaxLen
        /\ Passed(h)
        /\ delivered' = Append(delivered, Contents(h))
        /\ ERXRDPT' = NewReadPtr(h.next)
    /\ EPKTCNT' = EPKTCNT - 1
    /\ set_bank(0)
    /\ UNCHANGED <<rxMem, frames, ERXWRPT, skipped>>

\* The sanity check of the next pointer fails: the chip is initialised again.
Insane ==
    /\ EPKTCNT > 0
    /\ \E h \in Header : h.next > RXSTOP
    /\ enc28j60_init
-----------------------------------------------------------------------------
RingInit ==
    /\ rxMem = [a \in RX |-> Junk]
    /\ frames = <<>>
    /\ ERXWRPT = RXSTART
    /\ ERXRDPT = RXSTART
    /\ EPKTCNT = 0
    /\ BSEL = 1
    /\ Enc28j60Bank = 1
    /\ misplaced = FALSE
    /\ NextPacketPtr = RXSTART
    /\ delivered = <<>>
    /\ unread = <<>>
    /\ skipped = 0
    /\ synced = TRUE

RingNext ==
    \/ \E len \in 1 .. MaxFrame : Arrive(len)
    \/ NoPacket
    \/ TooBig
    \/ Deliver
    \/ Insane

RingSpec == RingInit /\ [][RingNext]_ringVars
-----------------------------------------------------------------------------
(* Properties *)

\* While the driver is in step with the chip, it stands at the oldest frame it
\* has not read and the chip counts the frames to come, plus one for each that
\* was too big and is never taken off the count.
InStep ==
    synced =>
        /\ EPKTCNT = Len(unread) + skipped
        /\ NextPacketPtr = IF unread = <<>> THEN ERXWRPT
                           ELSE Wrap(frames[Head(unread)].next - frames[Head(unread)].len - 1)

\* Without bursts, and as long as no frame too big arrives, uIP gets every frame
\* that was stored: whole, in their order and each once.
FramesInOrder ==
    (\A i \in DOMAIN frames : frames[i].len <= MaxLen) =>
        delivered \o unread = [i \in DOMAIN frames |-> i]

\* Driver and chip agree on where the next frame begins, and no frame is lost,
\* repeated or cut between them.
ReadsTheRing == InStep /\ FramesInOrder

\* Every register is accessed in the bank it is in, also after the chip was reset
\* and selected bank 0 behind the driver's back, and where enc28j60_init writes
\* MACON3 without selecting its bank.
RightBank == BSEL = Enc28j60Bank /\ ~misplaced
=============================================================================
