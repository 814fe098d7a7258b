------------------------------- MODULE EncSend -------------------------------
(***************************************************************************)
(* Sending through the Ethernet chip: the driver copies a frame, byte by   *)
(* byte, to the transmit buffer in the chip's memory and asks the chip to  *)
(* send the cells from ETXST to ETXND.  It does not look whether the chip  *)
(* is still sending the frame before.  The chip is external: it sends a    *)
(* cell at a time while the driver goes on.                                *)
(***************************************************************************)
EXTENDS EncRing

CONSTANTS
    TXSTART,   \* TXSTART_INIT
    TXSTOP,    \* TXSTOP_INIT
    SendLen,   \* the lengths of the frames
    MaxSent    \* bound: how many frames are sent

ASSUME EncSendAssumption ==
    /\ TXSTART \in Nat /\ TXSTOP \in Nat /\ RXSTOP < TXSTART /\ TXSTART <= TXSTOP
    /\ SendLen \subseteq 1 .. TXSTOP - TXSTART
    /\ MaxSent \in Nat

VARIABLES
    txMem,    \* the transmit buffer: per cell <<frame, byte>>, the control byte is <<0, 0>>
    EWRPT,    \* the write pointer of the buffer memory
    ETXND,    \* the last cell to send
    sending,  \* what the chip is sending: the frame, the cells it has sent, and
              \* whether the driver left it alone meanwhile; Idle if TXRTS is clear
    frame,    \* the frame in packet_send, its length and the bytes copied
    lengths,  \* history: the length of every frame that was sent
    onWire    \* history: what the chip has sent

txChip  == <<txMem, EWRPT, ETXND, sending>>
txVars  == <<txChip, frame, lengths, onWire>>

TX      == TXSTART .. TXSTOP
Idle    == [id |-> 0, cells |-> <<>>, alone |-> TRUE]
NoFrame == [id |-> 0, len |-> 0, copied |-> 0]

CellsOf(id) == [k \in 1 .. lengths[id] |-> <<id, k>>]
Disturbed   == IF sending = Idle THEN Idle ELSE [sending EXCEPT !.alone = FALSE]
-----------------------------------------------------------------------------
(* enc28j60_packet_send *)

\* Mutant of packet_send: the control byte is forgotten in ETXND.
packet_sendShort(len) ==
    /\ frame = NoFrame
    /\ Len(lengths) < MaxSent
    /\ set_bank(0)
    /\ EWRPT' = TXSTART + 1
    /\ ETXND' = TXSTART + len - 1
    /\ txMem' = [txMem EXCEPT ![TXSTART] = <<0, 0>>]
    /\ frame' = [id |-> Len(lengths) + 1, len |-> len, copied |-> 0]
    /\ lengths' = Append(lengths, len)
    /\ sending' = Disturbed
    /\ UNCHANGED onWire

\* The pointers and the control byte are written.
packet_send(len) ==
    /\ frame = NoFrame
    /\ Len(lengths) < MaxSent
    /\ set_bank(0)
    /\ EWRPT' = TXSTART + 1
    /\ ETXND' = TXSTART + len
    /\ txMem' = [txMem EXCEPT ![TXSTART] = <<0, 0>>]
    /\ frame' = [id |-> Len(lengths) + 1, len |-> len, copied |-> 0]
    /\ lengths' = Append(lengths, len)
    /\ sending' = Disturbed
    /\ UNCHANGED onWire

\* A byte of the frame is copied.
write_buffer ==
    /\ frame.copied < frame.len
    /\ txMem' = [txMem EXCEPT ![EWRPT] = <<frame.id, frame.copied + 1>>]
    /\ EWRPT' = EWRPT + 1
    /\ frame' = [frame EXCEPT !.copied = @ + 1]
    /\ sending' = Disturbed
    /\ UNCHANGED <<ETXND, banks, lengths, onWire>>

\* Mutant of RequestToSend: a chip that has sent a frame before is not asked again.
RequestOnce ==
    /\ frame # NoFrame /\ frame.copied = frame.len
    /\ sending' = IF onWire = <<>> THEN [id |-> frame.id, cells |-> <<>>, alone |-> TRUE] ELSE sending
    /\ frame' = NoFrame
    /\ UNCHANGED <<txMem, EWRPT, ETXND, banks, lengths, onWire>>

\* TXRTS is set, which changes nothing for a chip that is sending.
RequestToSend ==
    /\ frame # NoFrame /\ frame.copied = frame.len
    /\ sending' = IF sending = Idle THEN [id |-> frame.id, cells |-> <<>>, alone |-> TRUE] ELSE sending
    /\ frame' = NoFrame
    /\ UNCHANGED <<txMem, EWRPT, ETXND, banks, lengths, onWire>>

\* The chip: external.  It sends the next cell, or is done and clears TXRTS.
Transmit ==
    LET at == TXSTART + 1 + Len(sending.cells)
    IN  /\ sending # Idle
        /\ IF at <= ETXND
           THEN sending' = [sending EXCEPT !.cells = Append(@, txMem[at])] /\ UNCHANGED onWire
           ELSE sending' = Idle /\ onWire' = Append(onWire, sending)
        /\ UNCHANGED <<txMem, EWRPT, ETXND, banks, frame, lengths>>

TransmitInit ==
    /\ txMem = [a \in TX |-> <<0, 0>>]
    /\ EWRPT = TXSTART
    /\ ETXND = TXSTART
    /\ sending = Idle
    /\ frame = NoFrame
    /\ lengths = <<>>
    /\ onWire = <<>>

TransmitNext ==
    \/ \E len \in SendLen : packet_send(len)
    \/ write_buffer
    \/ RequestToSend
    \/ Transmit

TransmitSpec == TransmitInit /\ [][TransmitNext]_<<txVars, banks>>

AllTransmitted == frame = NoFrame /\ sending = Idle /\ Len(lengths) = MaxSent
-----------------------------------------------------------------------------
(* Properties *)

\* A frame that the driver does not disturb goes out as it was sent, whole and
\* with nothing of the longer frame before it.
WholeFrames ==
    \A i \in DOMAIN onWire : onWire[i].alone => onWire[i].cells = CellsOf(onWire[i].id)

\* As long as no frame was disturbed, every frame that was asked for has gone out
\* or is going out, in order and once.
AllGoOut ==
    LET out   == IF sending = Idle THEN onWire ELSE Append(onWire, sending)
        asked == Len(lengths) - (IF frame = NoFrame THEN 0 ELSE 1)
    IN  (\A i \in DOMAIN out : out[i].alone) =>
            [i \in DOMAIN out |-> out[i].id] = [i \in 1 .. asked |-> i]

\* What enc28j60_packet_send was given leaves the chip, whole and in order, as long as
\* it does not write into a frame on its way.
SendsTheFrames == WholeFrames /\ AllGoOut
=============================================================================
