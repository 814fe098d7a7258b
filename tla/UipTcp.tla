------------------------------- MODULE UipTcp -------------------------------
(* The TCP of uip.c with the two applications of httpd.c: the command port the *)
(* Dispatcher connects to, and the report of user and password the clock sends *)
(* it once.  The network loses, repeats, delays and reorders segments.         *)
(*                                                                             *)
(* A command is N pieces, the first one the password.  Sequence numbers count  *)
(* pieces: a peer's SYN is 0, its pieces follow, then its FIN.  The clock's    *)
(* are <<connection, n>>: the initial number of uip.c, which advances with     *)
(* every tick, is a number of its own for every connection accepted (two       *)
(* connections of one port are at least a tick apart).  A retransmission timer *)
(* may run out at every tick.                                                  *)
EXTENDS Integers, Sequences, SequencesExt, FiniteSetsExt

CONSTANTS
    Client,                  \* the Dispatcher's connections to the command port
    Good,                    \* those that send the right password
    Srv,                     \* the Dispatcher's own port, for the report
    N,                       \* the pieces of a command
    Setup,                   \* sizes of the connection table with the peers there are
    UIP_MAXRTX, UIP_MAXSYNRTX, UIP_TIME_WAIT_TIMEOUT,
    IdleLimit,               \* polls without data until a client is cut off: 20
    MaxIss                   \* bound: connections opened

ASSUME UipTcpAssumption ==
    /\ Good \subseteq Client
    /\ Srv \notin Client
    /\ N \in Nat \ {0, 1}
    /\ Setup \subseteq [UIP_CONNS : Nat \ {0}, peers : SUBSET (Client \cup {Srv})]
    /\ {UIP_MAXRTX, UIP_MAXSYNRTX, UIP_TIME_WAIT_TIMEOUT, IdleLimit, MaxIss}
            \subseteq Nat \ {0}

VARIABLES
    conns,     \* uip_conns with the application's part of each
    iss,       \* the number of the last connection opened
    hosts,     \* the other ends
    out,       \* the clock's segments that oblige the peer, ever sent
    executed,  \* the commands carried out, oldest first
    refused    \* the clients told off for a wrong password

tcpVars == <<conns, iss, hosts, out, executed, refused>>

Slot == DOMAIN conns
Peer == DOMAIN hosts

Whole(p)  == [k \in 1 .. N |-> <<p, k>>]
NoAck     == <<0, 0>>
NewApp    == [got |-> <<>>, timer |-> 0]
Unused    == [st |-> "CLOSED", peer |-> Srv, rcv_nxt |-> 0, iss |-> 0, snd |-> 0,
              len |-> 0, nrtx |-> 0, timer |-> 0, app |-> NewApp]

-----------------------------------------------------------------------------
(* The other ends: TCP of their own, external to this code.  A client is one   *)
(* send_packet of the Dispatcher: connect, sendall and close at once.          *)

\* Its kernel may send any run of pieces it was given, and the FIN with the last.
Segment(p, seq, len, fin, ack) ==
    [peer |-> p, seq |-> seq, len |-> len, syn |-> FALSE, fin |-> fin, rst |-> FALSE, ack |-> ack]

Syn(p, ack) == [Segment(p, 0, 0, FALSE, ack) EXCEPT !.syn = TRUE]
Rst(p)      == [Segment(p, 0, 0, FALSE, NoAck) EXCEPT !.rst = TRUE]

Acks(p) == {<<hosts[p].iss, n>> : n \in 1 .. hosts[p].acked}

ClientSegments(c) ==
    LET runs == {Segment(c, s, l, f, a) : s \in 1 .. N + 1, l \in 0 .. N, f \in BOOLEAN, a \in Acks(c)}
    IN  {Syn(c, NoAck)}
        \cup {g \in runs : /\ g.seq + g.len <= N + 1
                           /\ g.fin => g.seq + g.len = N + 1
                           /\ ~g.fin /\ g.len = 0 => g.seq = 1}
        \cup (IF hosts[c].phase = "gone" THEN {Rst(c)} ELSE {})

\* The accept loop reads the report and closes.  Where the clock was restarted
\* in between, the kernel may still hold the connection of the report before,
\* which had the same ports, and answers for that one.
SrvSegments ==
    LET runs == {Segment(Srv, 1, 0, f, a) : f \in BOOLEAN, a \in Acks(Srv)}
    IN  IF hosts[Srv].phase = "stale" THEN {Segment(Srv, 1, 0, FALSE, <<0, 2>>)}
        ELSE {g \in runs : g.fin => hosts[Srv].acked > 1}
             \cup (IF hosts[Srv].acked > 0 THEN {Syn(Srv, <<hosts[Srv].iss, 1>>)} ELSE {})
             \cup (IF hosts[Srv].phase = "gone" THEN {Rst(Srv)} ELSE {})

Segments(p) == IF p = Srv THEN SrvSegments ELSE ClientSegments(p)

\* The clock answers the SYN: connect() returns, and sendall and close() hand
\* the kernel everything at once; accept() returns.
Opened(p) ==
    \E o \in out :
        /\ o.to = p
        /\ o.kind = (IF p = Srv THEN "syn" ELSE "synack")
        /\ hosts[p].phase = "connecting"
        /\ hosts' = [hosts EXCEPT ![p] = [phase |-> "open", iss |-> o.iss, acked |-> 1]]
        /\ UNCHANGED <<conns, iss, out, executed, refused>>

\* The kernel acknowledges the FIN of the clock or the report, and the FIN of the
\* clock again when the Dispatcher has read the report and closed.
Acknowledges(p) ==
    \E o \in out :
        /\ o.to = p
        /\ o.iss = hosts[p].iss
        /\ hosts[p].phase = "open"
        /\ o.kind = (IF p = Srv /\ hosts[p].acked = 1 THEN "data" ELSE "fin")
        /\ hosts[p].acked < (IF p = Srv THEN 3 ELSE 2)
        /\ hosts' = [hosts EXCEPT ![p].acked = @ + 1]
        /\ UNCHANGED <<conns, iss, out, executed, refused>>

\* The kernel's time-outs, a reset from the clock, or the end of the host; the
\* kernel forgets an old connection.
GivesUp(p) ==
    /\ hosts[p].phase \in {"connecting", "open", "stale"}
    /\ hosts' = [hosts EXCEPT ![p].phase = IF @ = "stale" THEN "connecting" ELSE "gone"]
    /\ UNCHANGED <<conns, iss, out, executed, refused>>

-----------------------------------------------------------------------------
(* The applications: the slot c, the event flags, the pieces in uip_appdata.   *)
(* The result is the application's state, the flags it leaves in uip_flags,    *)
(* what it sends, and what it did to the clock.                                *)

Answer(app, flags, slen, act) == [app |-> app, flags |-> flags, slen |-> slen, act |-> act]

\* handle_input gathers the pieces; the "OK" of handle_output is never sent, for
\* UIP_CLOSE is set when uip_process looks.
handle_connection(c, app, flags, data) ==
    LET got == IF "NEWDATA" \in flags THEN app.got \o data ELSE app.got
    IN  CASE got # <<>> /\ c.peer \notin Good -> Answer([app EXCEPT !.got = got], {"CLOSE"}, 0, "refuse")
          [] c.peer \in Good /\ Len(got) >= N -> Answer([app EXCEPT !.got = got], {"CLOSE"}, 0, "execute")
          [] OTHER                            -> Answer([app EXCEPT !.got = got], flags, 0, "none")

\* Mutant of HandleWatchServer: a new connection does not start afresh.
HandleWatchServerGoesOn(c, flags, data) ==
    LET poll  == "POLL" \in flags
        timer == IF poll THEN c.app.timer + 1 ELSE 0
    IN  IF flags \cap {"CLOSE", "ABORT", "TIMEDOUT"} # {} THEN Answer(c.app, flags, 0, "none")
        ELSE handle_connection(c, [c.app EXCEPT !.timer = timer],
                               IF poll /\ timer >= IdleLimit THEN {"ABORT"} ELSE flags, data)

\* Mutant of HandleWatchServer: an idle client is closed, not aborted.
HandleWatchServerCloses(c, flags, data) ==
    LET poll  == "POLL" \in flags
        timer == IF poll THEN c.app.timer + 1 ELSE 0
    IN  IF flags \cap {"CLOSE", "ABORT", "TIMEDOUT"} # {} THEN Answer(c.app, flags, 0, "none")
        ELSE IF "CONNECTED" \in flags THEN handle_connection(c, NewApp, flags, data)
        ELSE handle_connection(c, [c.app EXCEPT !.timer = timer],
                               IF poll /\ timer >= IdleLimit THEN {"CLOSE"} ELSE flags, data)

\* Mutant of HandleWatchServer: idle clients are kept.
HandleWatchServerWaits(c, flags, data) ==
    IF flags \cap {"CLOSE", "ABORT", "TIMEDOUT"} # {} THEN Answer(c.app, flags, 0, "none")
    ELSE handle_connection(c, IF "CONNECTED" \in flags THEN NewApp ELSE c.app, flags, data)

HandleWatchServer(c, flags, data) ==
    LET poll  == "POLL" \in flags
        timer == IF poll THEN c.app.timer + 1 ELSE 0
    IN  IF flags \cap {"CLOSE", "ABORT", "TIMEDOUT"} # {} THEN Answer(c.app, flags, 0, "none")
        ELSE IF "CONNECTED" \in flags THEN handle_connection(c, NewApp, flags, data)
        ELSE handle_connection(c, [c.app EXCEPT !.timer = timer],
                               IF poll /\ timer >= IdleLimit THEN {"ABORT"} ELSE flags, data)

SendUserPassword(c, flags) ==
    Answer(c.app, flags, IF flags \cap {"CONNECTED", "REXMIT"} # {} THEN 1 ELSE 0, "none")

httpd_appcall(c, flags, data) ==
    IF c.peer = Srv THEN SendUserPassword(c, flags) ELSE HandleWatchServer(c, flags, data)

-----------------------------------------------------------------------------
(* uip_process.                                                                *)

\* A closed slot keeps the application's state only.
Closed(c) == [Unused EXCEPT !.app = c.app]

\* The application is told that it was closed.
Ends(c, event) == Closed([c EXCEPT !.app = httpd_appcall(c, {event}, <<>>).app])

\* What a slot has unacknowledged, and sends again until it is.
Outstanding(c) ==
    LET kind == CASE c.st = "SYN_RCVD" -> "synack"
                  [] c.st = "SYN_SENT" -> "syn"
                  [] c.st = "ESTABLISHED" -> "data"
                  [] OTHER -> "fin"
    IN  IF c.len = 0 THEN {} ELSE {[to |-> c.peer, kind |-> kind, iss |-> c.iss]}

StartsFin(c, st) == [c EXCEPT !.st = st, !.len = 1, !.nrtx = 0]

\* The label appsend: what becomes of the slot after the application's answer.
AppSend(c, r) ==
    LET d == [c EXCEPT !.app = r.app, !.nrtx = 0]
    IN  IF "ABORT" \in r.flags THEN Closed(d)
        ELSE IF "CLOSE" \in r.flags THEN StartsFin(d, "FIN_WAIT_1")
        ELSE IF r.slen > 0 /\ (d.len = 0 \/ "ACKDATA" \in r.flags) THEN [d EXCEPT !.len = r.slen]
        ELSE d

\* Mutant of Periodic: one retransmission more.
PeriodicLater(c) ==
    IF c.st \in {"TIME_WAIT", "FIN_WAIT_2"} THEN
        IF c.timer + 1 = UIP_TIME_WAIT_TIMEOUT THEN Closed(c) ELSE [c EXCEPT !.timer = @ + 1]
    ELSE IF c.st # "CLOSED" /\ c.len > 0 THEN
        IF \/ c.nrtx > UIP_MAXRTX
           \/ c.st \in {"SYN_SENT", "SYN_RCVD"} /\ c.nrtx = UIP_MAXSYNRTX
        THEN Ends(c, "TIMEDOUT")
        ELSE [c EXCEPT !.nrtx = @ + 1]
    ELSE IF c.st = "ESTABLISHED" THEN AppSend(c, httpd_appcall(c, {"POLL"}, <<>>))
    ELSE c

\* One slot at the periodic timer (UIP_TIMER).
Periodic(c) ==
    IF c.st \in {"TIME_WAIT", "FIN_WAIT_2"} THEN
        IF c.timer + 1 = UIP_TIME_WAIT_TIMEOUT THEN Closed(c) ELSE [c EXCEPT !.timer = @ + 1]
    ELSE IF c.st # "CLOSED" /\ c.len > 0 THEN
        IF \/ c.nrtx = UIP_MAXRTX
           \/ c.st \in {"SYN_SENT", "SYN_RCVD"} /\ c.nrtx = UIP_MAXSYNRTX
        THEN Ends(c, "TIMEDOUT")
        ELSE [c EXCEPT !.nrtx = @ + 1]
    ELSE IF c.st = "ESTABLISHED" THEN AppSend(c, httpd_appcall(c, {"POLL"}, <<>>))
    ELSE c

\* The slots are served one after the other, and nothing comes in between.
uip_periodic ==
    /\ conns' = [i \in Slot |-> Periodic(conns[i])]
    /\ out' = out \cup UNION {Outstanding(conns'[i]) : i \in Slot}
    /\ UNCHANGED <<iss, hosts, executed, refused>>

\* The first closed slot, or else the one that has been in TIME_WAIT longest.
FreeSlot ==
    LET closed  == {i \in Slot : conns[i].st = "CLOSED"}
        waiting == {i \in Slot : conns[i].st = "TIME_WAIT"}
        longest == {i \in waiting : \A j \in waiting : conns[j].timer <= conns[i].timer}
    IN  IF closed # {} THEN {Min(closed)} ELSE IF longest # {} THEN {Min(longest)} ELSE {}

Opens(i, c) ==
    /\ iss < MaxIss
    /\ iss' = iss + 1
    /\ conns' = [conns EXCEPT ![i] = [c EXCEPT !.iss = iss', !.len = 1, !.app = conns[i].app]]
    /\ out' = out \cup Outstanding(conns'[i])
    /\ UNCHANGED <<hosts, executed, refused>>

\* httpd_init: the report, before anything else.
uip_connect ==
    /\ iss = 0
    /\ Srv \in Peer
    /\ \E i \in FreeSlot : Opens(i, [Unused EXCEPT !.st = "SYN_SENT", !.peer = Srv])

\* Mutant of Found: only established connections are looked at.
FoundOpen(seg) ==
    LET mine == {i \in Slot : conns[i].st \notin {"CLOSED", "SYN_RCVD"} /\ conns[i].peer = seg.peer}
    IN  IF mine = {} THEN {} ELSE {Min(mine)}

\* The segment finds its connection; the label found.
Found(seg) ==
    LET mine == {i \in Slot : conns[i].st # "CLOSED" /\ conns[i].peer = seg.peer}
    IN  IF mine = {} THEN {} ELSE {Min(mine)}

\* The label found_listen: a SYN for no connection opens one, if there is room.
Listen(seg) ==
    /\ Found(seg) = {}
    /\ seg.syn /\ seg.ack = NoAck
    /\ \E i \in FreeSlot :
          Opens(i, [Unused EXCEPT !.st = "SYN_RCVD", !.peer = seg.peer, !.rcv_nxt = seg.seq + 1])

IsSynAck(seg) == seg.syn /\ seg.ack # NoAck

\* Data, SYN or FIN out of turn is answered with an acknowledgement and no more.
InTurn(c, seg) ==
    \/ c.st = "SYN_SENT" /\ IsSynAck(seg)
    \/ seg.len > 0 \/ seg.syn \/ seg.fin => seg.seq = c.rcv_nxt

AckData(c, seg) == c.len > 0 /\ seg.ack = <<c.iss, c.snd + c.len>>

AckProcess(c, seg) == IF AckData(c, seg) THEN [c EXCEPT !.snd = @ + c.len, !.len = 0] ELSE c

\* The slot after the segment, and what the application did.
Outcome(c, act) == [conn |-> c, act |-> act]
Data(seg)    == [k \in 1 .. seg.len |-> <<seg.peer, seg.seq + k - 1>>]
NewData(seg) == IF seg.len > 0 THEN {"NEWDATA"} ELSE {}
Called(c, r) == Outcome(AppSend(c, r), r.act)

\* Mutant of SynRcvd: the SYN of the clock need not be acknowledged.
SynRcvdAny(c, acked, seg) ==
    LET d == [c EXCEPT !.st = "ESTABLISHED", !.rcv_nxt = @ + seg.len]
    IN  Called(d, httpd_appcall(d, {"CONNECTED"} \cup NewData(seg), Data(seg)))

SynRcvd(c, acked, seg) ==
    LET d == [c EXCEPT !.st = "ESTABLISHED", !.rcv_nxt = @ + seg.len]
    IN  IF acked THEN Called(d, httpd_appcall(d, {"CONNECTED"} \cup NewData(seg), Data(seg)))
        ELSE Outcome(c, "none")

SynSent(c, acked, seg) ==
    LET d == [c EXCEPT !.st = "ESTABLISHED", !.rcv_nxt = seg.seq + 1]
    IN  IF acked /\ IsSynAck(seg)
        THEN Called(d, httpd_appcall(d, {"CONNECTED", "NEWDATA"}, <<>>))
        ELSE Outcome(Ends(c, "ABORT"), "none")

Established(c, acked, seg) ==
    LET ackdata == IF acked THEN {"ACKDATA"} ELSE {}
        flags   == ackdata \cup NewData(seg)
        d       == [c EXCEPT !.rcv_nxt = @ + seg.len + (IF seg.fin THEN 1 ELSE 0)]
        r       == httpd_appcall(d, flags \cup {"CLOSE"}, Data(seg))
    IN  CASE seg.fin /\ c.len > 0  -> Outcome(c, "none")
          [] seg.fin /\ c.len = 0  -> Outcome(StartsFin([d EXCEPT !.app = r.app], "LAST_ACK"), r.act)
          [] ~seg.fin /\ flags # {} -> Called(d, httpd_appcall(d, flags, Data(seg)))
          [] OTHER                 -> Outcome(c, "none")

\* LAST_ACK, FIN_WAIT_1, FIN_WAIT_2, CLOSING and TIME_WAIT: data is acknowledged
\* and thrown away.
Closing(c, acked, seg) ==
    LET takes == c.st \in {"FIN_WAIT_1", "FIN_WAIT_2"}
        d     == [c EXCEPT !.rcv_nxt = @ + seg.len + (IF seg.fin THEN 1 ELSE 0)]
        e     == IF takes THEN d ELSE c
        next  == CASE c.st = "LAST_ACK" /\ acked              -> "CLOSED"
                   [] c.st = "FIN_WAIT_1" /\ seg.fin /\ acked -> "TIME_WAIT"
                   [] c.st = "FIN_WAIT_1" /\ seg.fin /\ ~acked -> "CLOSING"
                   [] c.st = "FIN_WAIT_1" /\ ~seg.fin /\ acked -> "FIN_WAIT_2"
                   [] c.st = "FIN_WAIT_2" /\ seg.fin          -> "TIME_WAIT"
                   [] c.st = "CLOSING" /\ acked               -> "TIME_WAIT"
                   [] OTHER                                   -> c.st
        told  == IF next # c.st /\ (seg.fin \/ next = "CLOSED")
                 THEN httpd_appcall(e, {"CLOSE"}, <<>>).app ELSE c.app
    IN  Outcome(IF next = "CLOSED" THEN Closed([e EXCEPT !.app = told])
             ELSE [e EXCEPT !.st = next, !.app = told,
                            !.timer = IF next = "TIME_WAIT" /\ next # c.st THEN 0 ELSE @],
             "none")

\* A segment for connection i in turn.
Process(c, seg) ==
    LET acked == AckData(c, seg)
        d     == AckProcess(c, seg)
    IN  CASE c.st = "SYN_RCVD"    -> SynRcvd(d, acked, seg)
          [] c.st = "SYN_SENT"    -> SynSent(d, acked, seg)
          [] c.st = "ESTABLISHED" -> Established(d, acked, seg)
          [] OTHER                -> Closing(d, acked, seg)

\* Any reset is believed.
Reset(seg) ==
    /\ seg.rst
    /\ \E i \in Found(seg) : conns' = [conns EXCEPT ![i] = Ends(@, "ABORT")]
    /\ UNCHANGED <<iss, hosts, out, executed, refused>>

Receive(seg) ==
    /\ ~seg.rst
    /\ \E i \in Found(seg) :
          LET step == Process(conns[i], seg)
          IN  /\ InTurn(conns[i], seg)
              /\ conns' = [conns EXCEPT ![i] = step.conn]
              /\ out' = out \cup Outstanding(step.conn)
              /\ executed' = IF step.act = "execute" THEN Append(executed, step.conn.app.got)
                             ELSE executed
              /\ refused' = IF step.act = "refuse" THEN refused \cup {seg.peer} ELSE refused
    /\ UNCHANGED <<iss, hosts>>

tcp_input == \E p \in Peer : \E seg \in Segments(p) : Listen(seg) \/ Reset(seg) \/ Receive(seg)

-----------------------------------------------------------------------------
\* Without the Dispatcher's port the report is over.
TcpInit ==
    /\ \E setup \in Setup :
          /\ conns = [i \in 0 .. setup.UIP_CONNS - 1 |-> Unused]
          /\ hosts \in [setup.peers -> [phase : {"connecting", "stale"}, iss : {0}, acked : {0}]]
          /\ iss = IF Srv \in setup.peers THEN 0 ELSE 1
    /\ \A p \in Peer : p # Srv => hosts[p].phase = "connecting"
    /\ out = {}
    /\ executed = <<>>
    /\ refused = {}

OtherEnds == \E p \in Peer : Opened(p) \/ Acknowledges(p) \/ GivesUp(p)

TcpNext == uip_connect \/ (iss > 0 /\ (uip_periodic \/ tcp_input)) \/ OtherEnds

\* The main loop serves the periodic timer for ever.
TcpFairness == WF_tcpVars(iss > 0 /\ uip_periodic)

TcpSpec == TcpInit /\ [][TcpNext]_tcpVars

-----------------------------------------------------------------------------
(* Properties.                                                                 *)

\* The shape of the table, and a number of its own for every connection.
TcpTypeOK ==
    /\ \A i \in Slot :
          /\ conns[i].st # "CLOSED" => conns[i].peer \in Peer
          /\ conns[i].rcv_nxt \in 0 .. N + 2
          /\ conns[i].len \in {0, 1}
          /\ conns[i].nrtx \in 0 .. UIP_MAXRTX
          /\ conns[i].timer \in 0 .. UIP_TIME_WAIT_TIMEOUT - 1
          /\ conns[i].app.timer \in 0 .. IdleLimit
          /\ Len(conns[i].app.got) <= N
    /\ \A i, j \in Slot : i # j /\ conns[i].iss = conns[j].iss => conns[i].iss = 0

\* A command is carried out at most once, whole, as its client sent it, and only
\* with the password, whatever the network does to the segments.
Commands == INSTANCE CommandService
CommandsService == Commands!Service

\* A peer has one connection: a repeated SYN opens no second one beside it.
OneSlotPerPeer ==
    \A i, j \in Slot :
        i # j /\ conns[i].st # "CLOSED" /\ conns[j].st # "CLOSED" => conns[i].peer # conns[j].peer

\* The clock closes a client's connection from its own side only after it has
\* carried the command out or refused it.
ClosesAfterAnswer ==
    \A i \in Slot :
        conns[i].st \in {"FIN_WAIT_1", "FIN_WAIT_2", "CLOSING", "TIME_WAIT"} =>
            Contains(executed, Whole(conns[i].peer)) \/ conns[i].peer \in refused

\* What the clock acknowledged of an open connection its application has read.
AcknowledgedIsRead ==
    \A i \in Slot :
        conns[i].st = "ESTABLISHED" /\ conns[i].peer # Srv =>
            conns[i].app.got = [k \in 1 .. conns[i].rcv_nxt - 1 |-> <<conns[i].peer, k>>]

\* A connection is a peer's only one, what it acknowledged has been read, and it is
\* not closed on a client that waits.
ConnectionsInv == TcpTypeOK /\ OneSlotPerPeer /\ ClosesAfterAnswer /\ AcknowledgedIsRead

\* Every client's connection ends, also where the client never closes it.
Alive(x) == \E i \in Slot : conns[i].st # "CLOSED" /\ conns[i].iss = x /\ conns[i].peer # Srv
ConnectionsEnd == \A x \in 1 .. MaxIss : <>[]~Alive(x)

\* A command whose send_packet returned 1, and whose every piece and FIN the clock
\* took, has been carried out.
SentIsExecuted ==
    \A i \in Slot :
        /\ conns[i].st = "LAST_ACK"
        /\ conns[i].peer \in Good
        /\ conns[i].rcv_nxt = N + 2
        => Contains(executed, Whole(conns[i].peer))
=============================================================================
