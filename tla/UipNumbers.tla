----------------------------- MODULE UipNumbers -----------------------------
(* The arithmetic of uip.c: sequence numbers of four bytes, the checksum of    *)
(* the Internet protocols in two, the checksum of an echo reply, and the       *)
(* estimate of the round trip time in one.                                     *)
EXTENDS Integers, Sequences

CONSTANTS
    B,        \* the values of a byte: 256
    Bytes,    \* byte strings to sum
    Numbers,  \* sequence numbers, most significant byte first
    Lengths,  \* what is added to them
    MaxAcks   \* bound: segments of one connection that are acknowledged

ASSUME UipNumbersAssumption ==
    /\ B \in Nat /\ B > 8
    /\ Bytes \subseteq Seq(0 .. B - 1)
    /\ Numbers \subseteq [1 .. 4 -> 0 .. B - 1]
    /\ Lengths \subseteq 0 .. B * B - 1
    /\ MaxAcks \in Nat

VARIABLES
    op,   \* a sequence number, a length to add, and bytes to sum
    rtt   \* uip_conn: the retransmission timer and the estimate behind it

numbersVars == <<op, rtt>>

-----------------------------------------------------------------------------
(* Sums.                                                                       *)

\* Mutant of uip_add32: the carry of the third byte gets lost if the lowest had none.
uip_add32Stops(op32, op16) ==
    LET low    == (op32[4] + op16) % B
        carry  == low < op16 % B
        third  == (op32[3] + (op16 \div B)) % B
        bumped == (third + 1) % B
        ripple == carry /\ bumped = 0
        second == (op32[2] + 1) % B
    IN  [k \in 1 .. 4 |->
            CASE k = 4 -> low
              [] k = 3 -> IF carry THEN bumped ELSE third
              [] k = 2 -> IF ripple THEN second ELSE op32[2]
              [] k = 1 -> IF ripple /\ second = 0 THEN (op32[1] + 1) % B ELSE op32[1]]

\* The carries go from byte to byte, as uip_add32 hands them on.
uip_add32(op32, op16) ==
    LET low    == (op32[4] + op16) % B
        carry  == low < op16 % B
        third  == (op32[3] + (op16 \div B)) % B
        over   == third < op16 \div B
        bumped == (third + 1) % B
        ripple == over \/ (carry /\ bumped = 0)
        second == (op32[2] + 1) % B
    IN  [k \in 1 .. 4 |->
            CASE k = 4 -> low
              [] k = 3 -> IF carry THEN bumped ELSE third
              [] k = 2 -> IF ripple THEN second ELSE op32[2]
              [] k = 1 -> IF ripple /\ second = 0 THEN (op32[1] + 1) % B ELSE op32[1]]

WordSize == B * B

\* Mutant of AddWord: the carry is dropped.
AddWordDrops(sum, t) == (sum + t) % WordSize

\* One word more: the carry out of the word comes in again.
AddWord(sum, t) ==
    LET s == (sum + t) % WordSize IN IF s < t THEN (s + 1) % WordSize ELSE s

\* An odd byte at the end is the high byte of a word.
WordCount(data) == (Len(data) + 1) \div 2
WordAt(data, k) == data[2 * k - 1] * B + (IF 2 * k <= Len(data) THEN data[2 * k] ELSE 0)

chksum(sum, data) ==
    LET upto[k \in 0 .. WordCount(data)] ==
            IF k = 0 THEN sum ELSE AddWord(upto[k - 1], WordAt(data, k))
    IN  upto[WordCount(data)]

ipchksum(data) == LET sum == chksum(0, data) IN IF sum = 0 THEN WordSize - 1 ELSE sum

\* A word with its bytes swapped, as the processor sees a field of the packet.
HTONS(w) == (w % B) * B + (w \div B)

\* Mutant of EchoReply: the carry is dropped.
EchoReplyDrops(icmpchksum) == (icmpchksum + HTONS(8 * B)) % WordSize

\* The type of an echo request, 8, becomes 0 in the high byte of its first word:
\* the checksum, a complement, grows by that.
ICMP_ECHO == 8
EchoReply(icmpchksum) ==
    IF icmpchksum >= HTONS(WordSize - 1 - ICMP_ECHO * B)
    THEN (icmpchksum + HTONS(ICMP_ECHO * B) + 1) % WordSize
    ELSE (icmpchksum + HTONS(ICMP_ECHO * B)) % WordSize

-----------------------------------------------------------------------------
(* The round trip time: a connection of this program has at most three         *)
(* segments acknowledged, the SYN, the report and the FIN.                     *)

UIP_RTO == 3
S8(x) == ((x + 128) % 256) - 128
Abs(x) == IF x < 0 THEN -x ELSE x

\* uip_connect sets the timer to 1 and the variance to 16, found_listen to 3 and 4.
Estimate(timer, sv) == [rto |-> UIP_RTO, timer |-> timer, sa |-> 0, sv |-> sv, acks |-> 0]

\* A tick of the periodic timer before it runs out; a segment sent again is not
\* measured.
Tick ==
    /\ rtt.timer > 0
    /\ rtt' = [rtt EXCEPT !.timer = @ - 1]
    /\ UNCHANGED op

\* Mutant of Ack: the variance is not scaled.
AckUnscaled ==
    LET m1 == S8(S8(rtt.rto - rtt.timer) - (rtt.sa \div 8))
        sa == (rtt.sa + m1) % 256
        sv == (rtt.sv + S8(Abs(m1)) - rtt.sv) % 256
        rto == ((sa \div 8) + sv) % 256
    IN  /\ rtt.acks < MaxAcks
        /\ rtt' = [rto |-> rto, timer |-> rto, sa |-> sa, sv |-> sv, acks |-> rtt.acks + 1]
        /\ UNCHANGED op

\* The acknowledgement of a segment sent once, and the next segment sent.
Ack ==
    LET m1 == S8(S8(rtt.rto - rtt.timer) - (rtt.sa \div 8))
        sa == (rtt.sa + m1) % 256
        m2 == S8(S8(Abs(m1)) - (rtt.sv \div 4))
        sv == (rtt.sv + m2) % 256
        rto == ((sa \div 8) + sv) % 256
    IN  /\ rtt.acks < MaxAcks
        /\ rtt' = [rto |-> rto, timer |-> rto, sa |-> sa, sv |-> sv, acks |-> rtt.acks + 1]
        /\ UNCHANGED op

NumbersInit ==
    /\ \/ /\ op \in [number : Numbers, length : Lengths, data : {<<>>}]
          /\ rtt = Estimate(UIP_RTO, 4)
       \/ /\ op \in [number : {<<0, 0, 0, 0>>}, length : {0}, data : Bytes]
          /\ rtt = Estimate(UIP_RTO, 4)
       \/ /\ op = [number |-> <<0, 0, 0, 0>>, length |-> 0, data |-> <<>>]
          /\ rtt \in {Estimate(1, 16), Estimate(UIP_RTO, 4)}

NumbersNext == op.length = 0 /\ op.data = <<>> /\ (Tick \/ Ack)

NumbersSpec == NumbersInit /\ [][NumbersNext]_numbersVars

-----------------------------------------------------------------------------
(* Properties.                                                                 *)

Value(n) == ((n[1] * B + n[2]) * B + n[3]) * B + n[4]

\* Sequence numbers add up, through every carry and around the end.
AddsUp ==
    Value(uip_add32(op.number, op.length)) =
        (Value(op.number) + op.length) % (WordSize * WordSize)

WordsTotal(data) ==
    LET upto[k \in 0 .. WordCount(data)] ==
            IF k = 0 THEN 0 ELSE upto[k - 1] + WordAt(data, k)
    IN  upto[WordCount(data)]

\* The checksum is the sum that every other host computes, in whatever order and
\* width: the words added up, modulo all ones; and zero for zeroes only.  An odd
\* byte counts as a word.
SumsWords ==
    LET data == op.data
    IN  /\ (chksum(0, data) - WordsTotal(data)) % (WordSize - 1) = 0
        /\ chksum(0, data) = 0 <=> WordsTotal(data) = 0

\* An echo reply made by changing the checksum has the checksum of its bytes.
ReplySums ==
    Len(op.data) >= 2 /\ op.data[1] = ICMP_ECHO =>
        LET sum   == WordSize - 1 - chksum(0, op.data)
            reply == HTONS(EchoReply(HTONS(sum)))
            again == WordSize - 1 - chksum(0, [op.data EXCEPT ![1] = 0])
        IN  (reply - again) % (WordSize - 1) = 0

\* The timer never becomes so short that a segment is sent again at once, nor so
\* long that the next measurement does not fit a signed char.
RtoInRange == rtt.rto \in 1 .. 127

\* The numbers uIP computes by hand are those that arithmetic gives.
NumbersRight == AddsUp /\ SumsWords /\ ReplySums /\ RtoInRange
=============================================================================
