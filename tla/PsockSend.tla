------------------------------ MODULE PsockSend ------------------------------
(* The sending side of protosockets (psock.c) on a connection of uIP, which has *)
(* one segment outstanding and keeps no copy of it: the protosocket must send   *)
(* the same bytes again when asked, and must know what was acknowledged.        *)
EXTENDS Rounds, Sequences

CONSTANTS
    Texts,        \* the lengths of the texts sent one after the other
    InitialMss,   \* the peer's maximum segment size
    Window,       \* the windows the peer advertises, 0 too
    OneSegment    \* environment: every text fits one segment, as "OK\n" does

ASSUME PsockSendAssumption ==
    /\ Texts \in Seq(Nat \ {0})
    /\ InitialMss \in Nat \ {0}
    /\ Window \subseteq Nat
    /\ OneSegment \in BOOLEAN

VARIABLES
    sout,       \* the protosocket: the text it sends (Len(Texts) + 1 at the end), its
                \* state, sendptr as the number of a byte, sendlen
    conn,       \* uip_conn: mss, the bytes outstanding, and the bytes acknowledged
    wire,       \* the segments on their way to the peer
    got         \* the bytes the peer has received, in their order

sendVars == <<sout, conn, wire, got>>

Smaller(a, b) == IF a < b THEN a ELSE b

\* Bytes are numbered through all texts.
FirstByte(k) == LET sum[i \in 0 .. Len(Texts)] == IF i = 0 THEN 0 ELSE sum[i - 1] + Texts[i] IN sum[k - 1] + 1
Total     == FirstByte(Len(Texts) + 1) - 1
AllSent(p) == p.text > Len(Texts)

\* psock_send up to its loop.
SendBegins(k) ==
    [text |-> k, state |-> "none", ptr |-> FirstByte(k), len |-> IF k <= Len(Texts) THEN Texts[k] ELSE 0]

\* Where the protothread can stand: the protosocket, what it sends in this call, and
\* whether it need not wait.
Sending ==
    [sock : [text : Nat, state : {"none", "sent", "acked"}, ptr : Nat, len : Nat],
     out  : [ptr : Nat, len : Nat],
     on   : BOOLEAN]

\* uip_send: what is to be sent, replaced by a later call, but not by an empty one.
uip_send(out, ptr, len) == IF len > 0 THEN [ptr |-> ptr, len |-> len] ELSE out

\* Mutant of send_data: nothing is sent again.
send_dataOnce(r, flags, mss) ==
    IF r.sock.state # "sent"
    THEN [sock |-> [r.sock EXCEPT !.state = "sent"],
          out |-> uip_send(r.out, r.sock.ptr, Smaller(r.sock.len, mss)), on |-> r.on]
    ELSE [r EXCEPT !.on = FALSE]

send_data(r, flags, mss) ==
    IF r.sock.state # "sent" \/ "rexmit" \in flags
    THEN [sock |-> [r.sock EXCEPT !.state = "sent"],
          out |-> uip_send(r.out, r.sock.ptr, Smaller(r.sock.len, mss)), on |-> r.on]
    ELSE [r EXCEPT !.on = FALSE]

\* Mutant of data_acked: any call of the application is taken for an acknowledgement.
data_ackedByAny(r, flags, mss) ==
    LET n == Smaller(r.sock.len, mss) IN
    IF r.sock.state = "sent" /\ "rexmit" \notin flags
    THEN [r EXCEPT !.sock.ptr = @ + n, !.sock.len = @ - n, !.sock.state = "acked", !.on = TRUE]
    ELSE [r EXCEPT !.on = FALSE]

\* What was acknowledged is taken to be as long as what would be sent now.
data_acked(r, flags, mss) ==
    LET n == Smaller(r.sock.len, mss) IN
    IF r.sock.state = "sent" /\ "acked" \in flags
    THEN [r EXCEPT !.sock.ptr = @ + n, !.sock.len = @ - n, !.sock.state = "acked", !.on = TRUE]
    ELSE [r EXCEPT !.on = FALSE]

\* One round of the loop of psock_send, and the begin of the next text at its end.
SendRound(r, flags, mss) ==
    LET next == send_data(data_acked(r, flags, mss), flags, mss)
    IN  IF AllSent(r.sock) \/ ~r.on THEN r
        ELSE IF next.on /\ next.sock.len = 0 THEN [next EXCEPT !.sock = SendBegins(@.text + 1)]
        ELSE next

\* The protothread until it waits: by then, as every round before counts a byte as
\* acknowledged.  The flags stay as they are while it runs: of a text of several
\* segments the first acknowledgement counts for all.
psock_send(sock, flags, mss) ==
    LET round[r \in Sending] == SendRound(r, flags, mss)
    IN  AfterRounds(Total + 1, round, [sock |-> sock, out |-> [ptr |-> 0, len |-> 0], on |-> TRUE])

\* uip_connr->mss from the window of a segment.
MssOf(window) == IF window = 0 \/ window > InitialMss THEN InitialMss ELSE window

Segment(ptr, len, seq) == [seq |-> seq, bytes |-> [i \in 1 .. len |-> ptr + i - 1]]

\* The application is called, and uIP sends what it was given: all of it, or as
\* much as is outstanding.
appcall(flags, mss) ==
    LET run   == psock_send(sout, flags, mss)
        acked == IF "acked" \in flags THEN conn.acked + conn.len ELSE conn.acked
        free  == "acked" \in flags \/ conn.len = 0
        len   == IF free THEN Smaller(run.out.len, mss) ELSE conn.len
    IN  /\ sout' = run.sock
        /\ conn' = [mss |-> mss, len |-> len, acked |-> acked]
        /\ wire' = IF run.out.len = 0 THEN wire ELSE wire \cup {Segment(run.out.ptr, len, acked)}

\* The windows that are considered.
MaySend(mss) == OneSegment => \A k \in DOMAIN Texts : Texts[k] <= mss

\* uip_connected.
Connected ==
    /\ sout = SendBegins(1)
    /\ MaySend(conn.mss)
    /\ appcall({"connected"}, conn.mss)
    /\ UNCHANGED got

\* The peer acknowledges what is outstanding.
Acked(window) ==
    /\ conn.len > 0 /\ Len(got) = conn.acked + conn.len
    /\ MaySend(MssOf(window))
    /\ appcall({"acked"}, MssOf(window))
    /\ UNCHANGED got

\* The peer sends data of its own, or only a window.
OtherSegment(window, data) ==
    /\ sout # SendBegins(1)
    /\ MaySend(MssOf(window))
    /\ IF data THEN appcall({"newdata"}, MssOf(window))
               ELSE conn' = [conn EXCEPT !.mss = MssOf(window)] /\ UNCHANGED <<sout, wire>>
    /\ UNCHANGED got

\* The timer of the connection: a retransmission while something is outstanding.
Rexmit == conn.len > 0 /\ appcall({"rexmit"}, conn.mss) /\ UNCHANGED got

\* The network and the peer's TCP: a segment arrives, and counts if it comes next.
Received(s) ==
    /\ s \in wire
    /\ wire' = wire \ {s}
    /\ got' = IF s.seq = Len(got) THEN got \o s.bytes ELSE got
    /\ UNCHANGED <<sout, conn>>

Lose(s) == s \in wire /\ wire' = wire \ {s} /\ UNCHANGED <<sout, conn, got>>

SendInit ==
    /\ sout = SendBegins(1)
    /\ conn = [mss |-> InitialMss, len |-> 0, acked |-> 0]
    /\ wire = {}
    /\ got = <<>>

SendNext ==
    \/ Connected \/ Rexmit
    \/ \E w \in Window : Acked(w) \/ \E data \in BOOLEAN : OtherSegment(w, data)
    \/ \E s \in wire : Received(s) \/ Lose(s)

SendSpec == SendInit /\ [][SendNext]_sendVars

\* The timer is served, and the peer answers; of segments sent
\* again and again one arrives.
SendFairness ==
    /\ WF_sendVars(Rexmit)
    /\ WF_sendVars(\E w \in Window : Acked(w))
    /\ SF_sendVars(\E s \in wire : s.seq = Len(got) /\ Received(s))

-----------------------------------------------------------------------------
(* Properties, for texts of one segment.                                       *)

\* The peer gets the bytes of the texts in their order, each once, and all of a text
\* before the protosocket goes on to the next one.
TextsInOrder ==
    OneSegment =>
        /\ got = [i \in 1 .. Len(got) |-> i]
        /\ Len(got) >= FirstByte(sout.text) - 1

\* However many segments are lost: once the first is under way, all texts arrive.
TextsArrive == (conn.len > 0) ~> (Len(got) = Total)
=============================================================================
