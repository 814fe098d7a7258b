----------------------------- MODULE UipTcpProofs -----------------------------
(* The command port for any number of clients and slots and any length of a    *)
(* command.                                                                    *)
EXTENDS UipTcp, SequenceTheorems, WellFoundedInduction, TLAPS

\* The first n pieces of a command.
Pieces(p, n) == [k \in 1 .. n |-> <<p, k>>]

Piece == (Client \cup {Srv}) \X Nat

\* A set of slots has a smallest one.
LEMMA MinIsLeast ==
    ASSUME NEW S \in SUBSET Nat, S # {}
    PROVE  Min(S) \in S
<1>1. IsWellFoundedOn(OpToRel(<, Nat), Nat)
    BY NatLessThanWellFounded
<1>2. PICK x \in S : \A y \in S : <<y, x>> \notin OpToRel(<, Nat)
    BY <1>1, WFMin
<1>3. \A y \in S : ~(y < x)
    BY <1>2 DEF OpToRel
<1>4. \A y \in S : x <= y
    BY <1>3
<1> QED
    BY <1>4 DEF Min

LEMMA WholeIsPieces == \A p : Whole(p) = Pieces(p, N)
BY DEF Whole, Pieces

LEMMA PiecesAreSeq ==
    ASSUME NEW p \in Client \cup {Srv}, NEW n \in Nat
    PROVE  Pieces(p, n) \in Seq(Piece) /\ Len(Pieces(p, n)) = n
<1>1. Pieces(p, n) \in [1 .. n -> Piece]
    BY DEF Pieces, Piece
<1> QED
    BY <1>1

\* Pieces that follow the ones that are there continue them.
LEMMA PiecesGrow ==
    ASSUME NEW p \in Client \cup {Srv}, NEW n \in Nat, NEW l \in Nat
    PROVE  Pieces(p, n) \o [k \in 1 .. l |-> <<p, n + 1 + k - 1>>] = Pieces(p, n + l)
<1> DEFINE more == [k \in 1 .. l |-> <<p, n + 1 + k - 1>>]
<1>1. Pieces(p, n) \in Seq(Piece) /\ Len(Pieces(p, n)) = n
    BY PiecesAreSeq
<1>2. Pieces(p, n + l) \in Seq(Piece) /\ Len(Pieces(p, n + l)) = n + l
    BY PiecesAreSeq
<1>3. more \in Seq(Piece) /\ Len(more) = l
    <2>1. more \in [1 .. l -> Piece]
        BY DEF Piece
    <2> QED
        BY <2>1
<1>4. /\ Pieces(p, n) \o more \in Seq(Piece)
      /\ Len(Pieces(p, n) \o more) = n + l
      /\ \A i \in 1 .. n + l : (Pieces(p, n) \o more)[i] =
             IF i <= n THEN Pieces(p, n)[i] ELSE more[i - n]
    <2> HIDE DEF more
    <2> QED
        BY <1>1, <1>3, ConcatProperties
<1>5. \A i \in 1 .. n + l : (Pieces(p, n) \o more)[i] = Pieces(p, n + l)[i]
    BY <1>4 DEF Pieces
<1> HIDE DEF more
<1> QED
    BY <1>2, <1>4, <1>5, SeqEqual DEF more

\* Commands of different clients differ.
LEMMA WholeDiffers ==
    ASSUME NEW p, NEW q, Whole(p) = Whole(q)
    PROVE  p = q
<1>1. 1 \in 1 .. N
    BY UipTcpAssumption
<1>2. Whole(p)[1] = <<p, 1>> /\ Whole(q)[1] = <<q, 1>>
    BY <1>1 DEF Whole
<1> QED
    BY <1>2
-----------------------------------------------------------------------------
States == {"CLOSED", "SYN_RCVD", "SYN_SENT", "ESTABLISHED", "LAST_ACK", "FIN_WAIT_1", "FIN_WAIT_2",
           "CLOSING", "TIME_WAIT"}

\* The states of a connection that the clock closed from its own side.
Finishing == {"FIN_WAIT_1", "FIN_WAIT_2", "CLOSING", "TIME_WAIT"}

App  == [got : Seq(Piece), timer : 0 .. IdleLimit]
Conn == [st : States, peer : Client \cup {Srv}, rcv_nxt : 0 .. N + 2, iss : Nat, snd : Nat,
         len : {0, 1}, nrtx : 0 .. UIP_MAXRTX, timer : 0 .. UIP_TIME_WAIT_TIMEOUT - 1, app : App]

\* An open connection of a client has read what it acknowledged, less than a command,
\* none of it without the password, and waits for nothing but more of it.
Reading(c) ==
    /\ c.rcv_nxt \in 1 .. N
    /\ c.app.got = Pieces(c.peer, c.rcv_nxt - 1)
    /\ c.app.got # <<>> => c.peer \in Good
    /\ c.app.timer < IdleLimit
    /\ c.len = 0

\* What is true of a slot by itself.
Sound(c) ==
    /\ c \in Conn
    /\ Len(c.app.got) <= N
    /\ c.st = "CLOSED" => c.iss = 0 /\ c.len = 0
    /\ c.st = "SYN_SENT" => c.peer = Srv
    /\ c.st = "SYN_RCVD" => c.peer \in Client /\ c.rcv_nxt = 1
    /\ c.st = "ESTABLISHED" /\ c.peer # Srv => Reading(c)
    /\ c.st \in Finishing => c.peer \in Client

\* A segment a peer may send.
Sane(seg, p) ==
    /\ seg.peer = p
    /\ seg.seq \in 0 .. N + 1 /\ seg.len \in 0 .. N /\ seg.seq + seg.len <= N + 1
    /\ seg.fin \in BOOLEAN
    /\ seg.syn => seg.seq = 0 /\ seg.len = 0 /\ ~seg.fin
    /\ p = Srv => seg.seq <= 1 /\ seg.len = 0
    /\ p # Srv /\ seg.fin => seg.seq + seg.len = N + 1
    /\ p # Srv /\ seg.syn => seg.ack = NoAck
    /\ p = Srv /\ seg.syn => seg.ack # NoAck
-----------------------------------------------------------------------------
(* The applications                                                            *)

\* Told of an end, either application does nothing more.
LEMMA CallAtEnd ==
    ASSUME NEW c, NEW flags, NEW data, flags \cap {"CLOSE", "ABORT", "TIMEDOUT"} # {}, c.peer # Srv
    PROVE  httpd_appcall(c, flags, data) = Answer(c.app, flags, 0, "none")
BY DEF httpd_appcall, HandleWatchServer

\* The report is sent, and sent again, and nothing else is done.
LEMMA CallSrv ==
    ASSUME NEW c, NEW flags, NEW data, c.peer = Srv
    PROVE  \E n \in {0, 1} : httpd_appcall(c, flags, data) = Answer(c.app, flags, n, "none")
<1>1. (IF flags \cap {"CONNECTED", "REXMIT"} # {} THEN 1 ELSE 0) \in {0, 1}
    OBVIOUS
<1> QED
    BY <1>1 DEF httpd_appcall, SendUserPassword

\* The end of a connection leaves the application's state.
LEMMA EndLeavesApp ==
    ASSUME NEW c, NEW flags, NEW data, flags \cap {"CLOSE", "ABORT", "TIMEDOUT"} # {}
    PROVE  /\ httpd_appcall(c, flags, data).app = c.app
           /\ httpd_appcall(c, flags, data).act = "none"
<1>1. CASE c.peer = Srv
    BY <1>1, CallSrv DEF Answer
<1>2. CASE c.peer # Srv
    BY <1>2, CallAtEnd DEF Answer
<1> QED
    BY <1>1, <1>2

LEMMA ClosedFits ==
    ASSUME NEW c, c.app \in App, Len(c.app.got) <= N
    PROVE  Sound(Closed(c)) /\ Closed(c).st = "CLOSED"
<1>1. Closed(c) = [st |-> "CLOSED", peer |-> Srv, rcv_nxt |-> 0, iss |-> 0, snd |-> 0,
                   len |-> 0, nrtx |-> 0, timer |-> 0, app |-> c.app]
    BY DEF Closed, Unused
<1>2. Closed(c) \in Conn
    BY <1>1, UipTcpAssumption DEF Conn, States
<1>3. Closed(c).st = "CLOSED" /\ Closed(c).iss = 0 /\ Closed(c).len = 0 /\ Closed(c).app = c.app
    BY <1>1
<1> QED
    BY <1>2, <1>3 DEF Sound, Finishing

LEMMA ClosedSound ==
    ASSUME NEW c, Sound(c)
    PROVE  Sound(Closed(c)) /\ Closed(c).st = "CLOSED"
BY ClosedFits DEF Sound, Conn

LEMMA EndsIsClosed ==
    ASSUME NEW c, Sound(c), NEW event \in {"ABORT", "TIMEDOUT"}
    PROVE  Ends(c, event) = Closed(c)
<1>1. httpd_appcall(c, {event}, <<>>).app = c.app
    BY EndLeavesApp
<1>2. [c EXCEPT !.app = c.app] = c
    BY DEF Sound, Conn
<1> QED
    BY <1>1, <1>2 DEF Ends

\* A poll counts an idle client's turns and cuts it off in the end.
LEMMA PollCall ==
    ASSUME NEW c, Sound(c), c.st = "ESTABLISHED", c.peer # Srv
    PROVE  LET r == httpd_appcall(c, {"POLL"}, <<>>)
           IN  /\ r.app = [got |-> c.app.got, timer |-> c.app.timer + 1]
               /\ r.app \in App
               /\ r.slen = 0
               /\ \/ r.flags = {"ABORT"}
                  \/ r.flags = {"POLL"} /\ c.app.timer + 1 < IdleLimit
<1> DEFINE flags == IF c.app.timer + 1 >= IdleLimit THEN {"ABORT"} ELSE {"POLL"}
           app == [c.app EXCEPT !.timer = c.app.timer + 1]
<1>1. /\ c.app \in App /\ Reading(c) /\ c.app.timer + 1 \in 0 .. IdleLimit
    BY UipTcpAssumption DEF Sound, Conn, App, Reading
<1>2. httpd_appcall(c, {"POLL"}, <<>>) = handle_connection(c, app, flags, <<>>)
    BY DEF httpd_appcall, HandleWatchServer
<1>3. app = [got |-> c.app.got, timer |-> c.app.timer + 1] /\ app \in App
    BY <1>1 DEF App
<1>4. "NEWDATA" \notin flags
    OBVIOUS
<1>5. ~(app.got # <<>> /\ c.peer \notin Good)
    BY <1>1, <1>3 DEF Reading
<1>6. ~(Len(app.got) >= N)
    <2>1. c.peer \in Client \cup {Srv} /\ c.rcv_nxt - 1 \in Nat
        BY <1>1 DEF Sound, Conn, Reading
    <2>2. Len(app.got) = c.rcv_nxt - 1
        BY <1>1, <1>3, <2>1, PiecesAreSeq DEF Reading
    <2> QED
        BY <1>1, <2>2, UipTcpAssumption DEF Reading
<1>7. [app EXCEPT !.got = app.got] = app
    BY <1>3
<1>8. handle_connection(c, app, flags, <<>>) = Answer(app, flags, 0, "none")
    <2> HIDE DEF app, flags
    <2> QED
        BY <1>4, <1>5, <1>6, <1>7 DEF handle_connection
<1>9. \/ flags = {"ABORT"}
      \/ flags = {"POLL"} /\ c.app.timer + 1 < IdleLimit
    <2>1. c.app.timer + 1 \in Int /\ IdleLimit \in Int
        BY <1>1, UipTcpAssumption
    <2> QED
        BY <2>1
<1> HIDE DEF app, flags
<1>10. /\ httpd_appcall(c, {"POLL"}, <<>>).app = app
       /\ httpd_appcall(c, {"POLL"}, <<>>).flags = flags
       /\ httpd_appcall(c, {"POLL"}, <<>>).slen = 0
    BY <1>2, <1>8 DEF Answer
<1> QED
    BY <1>3, <1>9, <1>10

\* The pieces of a client's answered segment complete its command, or show that it
\* has no password, or are gathered.
Gathers(p, r, flags, n, timer) ==
    /\ r.app = [got |-> Pieces(p, n), timer |-> timer]
    /\ r.app \in App
    /\ r.slen = 0
    /\ \/ r.act = "refuse" /\ r.flags = {"CLOSE"} /\ p \notin Good
       \/ r.act = "execute" /\ r.flags = {"CLOSE"} /\ p \in Good /\ n = N
       \/ /\ r.act = "none" /\ r.flags = flags /\ n < N
          /\ Pieces(p, n) # <<>> => p \in Good

LEMMA Gather ==
    ASSUME NEW c, c.peer \in Client, NEW app \in App, NEW flags, NEW data, NEW n \in Nat,
           NEW l \in Nat, n + l <= N,
           app.got = Pieces(c.peer, n),
           data = [k \in 1 .. l |-> <<c.peer, n + 1 + k - 1>>],
           "NEWDATA" \in flags <=> l > 0
    PROVE  Gathers(c.peer, handle_connection(c, app, flags, data), flags, n + l, app.timer)
<1> DEFINE got == IF "NEWDATA" \in flags THEN app.got \o data ELSE app.got
           r   == handle_connection(c, app, flags, data)
           new == [app EXCEPT !.got = got]
<1>1. got = Pieces(c.peer, n + l)
    <2>1. CASE l > 0
        BY <2>1, PiecesGrow
    <2>2. CASE ~(l > 0)
        <3>1. l = 0 /\ n + l = n
            BY <2>2
        <3> QED
            BY <2>2, <3>1
    <2> QED
        BY <2>1, <2>2
<1>2. Pieces(c.peer, n + l) \in Seq(Piece) /\ Len(Pieces(c.peer, n + l)) = n + l
    <2>1. n + l \in Nat
        OBVIOUS
    <2> QED
        BY <2>1, PiecesAreSeq
<1>3. new = [got |-> Pieces(c.peer, n + l), timer |-> app.timer]
    <2> HIDE DEF got
    <2> QED
        BY <1>1 DEF App
<1>4. new \in App
    <2> HIDE DEF new
    <2> QED
        BY <1>2, <1>3 DEF App
<1> HIDE DEF got, new
<1>5. r = CASE got # <<>> /\ c.peer \notin Good -> Answer(new, {"CLOSE"}, 0, "refuse")
            [] c.peer \in Good /\ Len(got) >= N -> Answer(new, {"CLOSE"}, 0, "execute")
            [] OTHER                            -> Answer(new, flags, 0, "none")
    BY DEF handle_connection, got, new
<1> HIDE DEF r
<1>6. N \in Nat /\ N > 1
    BY UipTcpAssumption
<1>7. Len(got) >= N => got # <<>>
    <2>1. Len(got) = n + l
        BY <1>1, <1>2
    <2>2. Len(got) >= N => Len(got) # 0
        BY <1>6, <2>1
    <2> QED
        BY <1>6, <2>1, <2>2
<1>8. CASE got # <<>> /\ c.peer \notin Good
    <2>1. r = Answer(new, {"CLOSE"}, 0, "refuse")
        BY <1>5, <1>8
    <2> QED
        BY <1>3, <1>4, <1>8, <2>1 DEF Answer, Gathers, r
<1>9. CASE c.peer \in Good /\ Len(got) >= N
    <2>1. r = Answer(new, {"CLOSE"}, 0, "execute")
        BY <1>5, <1>9
    <2>2. n + l = N
        BY <1>1, <1>2, <1>6, <1>9
    <2> QED
        BY <1>3, <1>4, <1>9, <2>1, <2>2 DEF Answer, Gathers, r
<1>10. CASE ~(got # <<>> /\ c.peer \notin Good) /\ ~(Len(got) >= N)
    <2>1. r = Answer(new, flags, 0, "none")
        BY <1>5, <1>10
    <2>2. n + l < N
        BY <1>1, <1>2, <1>6, <1>10, <1>7
    <2> QED
        BY <1>1, <1>3, <1>4, <1>10, <2>1, <2>2 DEF Answer, Gathers, r
<1> QED
    BY <1>7, <1>8, <1>9, <1>10

LEMMA CallClient ==
    ASSUME NEW c, c.peer \in Client, c.app \in App,
           NEW flags \in SUBSET {"CONNECTED", "NEWDATA", "ACKDATA"}, NEW data,
           NEW n \in Nat, NEW l \in Nat, n + l <= N,
           "CONNECTED" \in flags => n = 0,
           "CONNECTED" \notin flags => c.app.got = Pieces(c.peer, n),
           data = [k \in 1 .. l |-> <<c.peer, n + 1 + k - 1>>],
           "NEWDATA" \in flags <=> l > 0
    PROVE  Gathers(c.peer, httpd_appcall(c, flags, data), flags, n + l, 0)
<1>1. flags \cap {"CLOSE", "ABORT", "TIMEDOUT"} = {} /\ "POLL" \notin flags
    OBVIOUS
<1>2. c.peer # Srv
    BY UipTcpAssumption
<1>3. CASE "CONNECTED" \in flags
    <2>1. httpd_appcall(c, flags, data) = handle_connection(c, NewApp, flags, data)
        BY <1>1, <1>2, <1>3 DEF httpd_appcall, HandleWatchServer
    <2>2. Pieces(c.peer, 0) = <<>>
        <3>1. Pieces(c.peer, 0) \in Seq(Piece) /\ Len(Pieces(c.peer, 0)) = 0
            BY PiecesAreSeq
        <3> QED
            BY <3>1
    <2>3. NewApp \in App /\ NewApp.got = Pieces(c.peer, n) /\ NewApp.timer = 0
        BY <1>3, <2>2, UipTcpAssumption DEF NewApp, App
    <2> QED
        BY <2>1, <2>3, Gather
<1>4. CASE "CONNECTED" \notin flags
    <2> DEFINE app == [c.app EXCEPT !.timer = 0]
    <2>1. httpd_appcall(c, flags, data) = handle_connection(c, app, flags, data)
        BY <1>1, <1>2, <1>4 DEF httpd_appcall, HandleWatchServer
    <2>2. app \in App /\ app.got = Pieces(c.peer, n) /\ app.timer = 0
        BY <1>4, UipTcpAssumption DEF App
    <2> HIDE DEF app
    <2> QED
        BY <2>1, <2>2, Gather
<1> QED
    BY <1>3, <1>4

\* What a segment makes of a slot and what the application did.
Steps(c, e, act) ==
    /\ Sound(e)
    /\ e.st # "CLOSED" => e.peer = c.peer /\ e.iss = c.iss
    /\ act \in {"none", "execute", "refuse"}
    /\ act = "execute" => e.app.got = Whole(c.peer) /\ c.peer \in Good
    /\ act = "refuse" => c.peer \in Client \ Good
    /\ act # "none" => e.st = "FIN_WAIT_1"
    /\ e.st \in Finishing => c.st \in Finishing \/ act # "none"
    /\ e.st = "SYN_RCVD" => c.st = "SYN_RCVD"

LEMMA FinIsStarted ==
    ASSUME NEW c \in Conn, NEW st \in States
    PROVE  /\ StartsFin(c, st) \in Conn
           /\ StartsFin(c, st).st = st
           /\ StartsFin(c, st).app = c.app
           /\ StartsFin(c, st).peer = c.peer
           /\ StartsFin(c, st).iss = c.iss
<1>1. 0 \in 0 .. UIP_MAXRTX
    BY UipTcpAssumption
<1> QED
    BY <1>1 DEF Conn, StartsFin

\* A client's pieces in turn.
LEMMA ClientStep ==
    ASSUME NEW c \in Conn, c.peer \in Client, c.st = "ESTABLISHED", c.len = 0,
           NEW flags \in SUBSET {"CONNECTED", "NEWDATA", "ACKDATA"},
           NEW n \in Nat, NEW r, Gathers(c.peer, r, flags, n, 0), n <= N, c.rcv_nxt = n + 1
    PROVE  Steps(c, AppSend(c, r), r.act)
<1> DEFINE d == [c EXCEPT !.app = r.app, !.nrtx = 0]
<1>1. /\ d \in Conn /\ d.app = r.app /\ d.st = "ESTABLISHED" /\ d.peer = c.peer /\ d.len = 0
      /\ d.rcv_nxt = n + 1 /\ d.iss = c.iss
    <2>1. r.app \in App /\ 0 \in 0 .. UIP_MAXRTX
        BY UipTcpAssumption DEF Gathers
    <2>2. d \in Conn
        BY <2>1 DEF Conn
    <2> QED
        BY <2>2 DEF Conn
<1> HIDE DEF d
<1>2. c.peer # Srv /\ N \in Nat
    BY UipTcpAssumption
<1>3. Pieces(c.peer, n) \in Seq(Piece) /\ Len(Pieces(c.peer, n)) = n
    BY PiecesAreSeq
<1>4. CASE r.flags = {"CLOSE"} /\ r.act # "none"
    <2> DEFINE e == StartsFin(d, "FIN_WAIT_1")
    <2>1. AppSend(c, r) = e
        BY <1>4 DEF AppSend, d
    <2>2. e \in Conn /\ e.st = "FIN_WAIT_1" /\ e.app = r.app /\ e.peer = c.peer /\ e.iss = c.iss
        BY <1>1, FinIsStarted DEF States
    <2> HIDE DEF e
    <2>3. r.app.got = Pieces(c.peer, n) /\ Len(e.app.got) <= N
        BY <1>3, <2>2 DEF Gathers
    <2>4. Sound(e)
        BY <2>2, <2>3 DEF Sound
    <2>5. r.act = "execute" => e.app.got = Whole(c.peer) /\ c.peer \in Good
        BY <2>2, <2>3, WholeIsPieces DEF Gathers
    <2>6. r.act \in {"execute", "refuse"} /\ (r.act = "refuse" => c.peer \notin Good)
        BY <1>4 DEF Gathers
    <2> QED
        BY <2>1, <2>2, <2>4, <2>5, <2>6 DEF Steps
<1>5. CASE r.flags = flags /\ r.act = "none" /\ n < N /\ (Pieces(c.peer, n) # <<>> => c.peer \in Good)
    <2>1. AppSend(c, r) = d
        BY <1>5 DEF AppSend, d, Gathers
    <2>2. d.app.got = Pieces(c.peer, d.rcv_nxt - 1) /\ d.app.timer = 0
        BY <1>1 DEF Gathers
    <2>3. Reading(d)
        BY <1>1, <1>2, <1>5, <2>2, UipTcpAssumption DEF Reading
    <2>4. Sound(d)
        BY <1>1, <1>2, <1>3, <2>2, <2>3 DEF Sound, Finishing
    <2> QED
        BY <1>1, <1>5, <2>1, <2>4 DEF Steps, Finishing
<1> QED
    BY <1>4, <1>5 DEF Gathers
-----------------------------------------------------------------------------
(* A segment in turn, state by state                                           *)

LEMMA AckedSame ==
    ASSUME NEW c, Sound(c), NEW seg
    PROVE  LET d == AckProcess(c, seg)
           IN  /\ d \in Conn /\ Sound(d)
               /\ d.st = c.st /\ d.peer = c.peer /\ d.rcv_nxt = c.rcv_nxt
               /\ d.iss = c.iss /\ d.app = c.app
               /\ AckData(c, seg) => d.len = 0
               /\ ~AckData(c, seg) => d = c
<1> DEFINE d == [c EXCEPT !.snd = @ + c.len, !.len = 0]
<1>1. c \in Conn
    BY DEF Sound
<1>2. CASE AckData(c, seg)
    <2>1. AckProcess(c, seg) = d
        BY <1>2 DEF AckProcess
    <2>2. c.snd + c.len \in Nat
        BY <1>1 DEF Conn
    <2>3. /\ d \in Conn /\ d.st = c.st /\ d.peer = c.peer /\ d.rcv_nxt = c.rcv_nxt
          /\ d.iss = c.iss /\ d.app = c.app /\ d.len = 0
        BY <1>1, <2>2 DEF Conn
    <2> HIDE DEF d
    <2>4. Sound(d)
        BY <2>3 DEF Sound, Reading
    <2> QED
        BY <1>2, <2>1, <2>3, <2>4
<1>3. CASE ~AckData(c, seg)
    BY <1>1, <1>3 DEF AckProcess
<1> QED
    BY <1>2, <1>3

\* A slot that a segment leaves as it is.
LEMMA StepsSame ==
    ASSUME NEW c, Sound(c), NEW d, Sound(d), d.st = c.st, d.peer = c.peer, d.iss = c.iss
    PROVE  Steps(c, d, "none")
BY DEF Steps

\* A slot that is closed.
LEMMA StepsClosed ==
    ASSUME NEW c, NEW e, Sound(e), e.st = "CLOSED"
    PROVE  Steps(c, e, "none")
BY DEF Steps, Finishing

LEMMA SynRcvdStep ==
    ASSUME NEW c, Sound(c), c.st = "SYN_RCVD", NEW seg, Sane(seg, c.peer), InTurn(c, seg)
    PROVE  LET s == SynRcvd(AckProcess(c, seg), AckData(c, seg), seg)
           IN  /\ Steps(c, s.conn, s.act)
               /\ ~AckData(c, seg) => s.conn.st = "SYN_RCVD" /\ s.act = "none"
<1> DEFINE b == AckProcess(c, seg)
           d == [b EXCEPT !.st = "ESTABLISHED", !.rcv_nxt = @ + seg.len]
           flags == {"CONNECTED"} \cup NewData(seg)
           r == httpd_appcall(d, flags, Data(seg))
           s == SynRcvd(b, AckData(c, seg), seg)
<1> SUFFICES /\ Steps(c, s.conn, s.act)
             /\ ~AckData(c, seg) => s.conn.st = "SYN_RCVD" /\ s.act = "none"
    OBVIOUS
<1>1. /\ b \in Conn /\ Sound(b) /\ b.st = "SYN_RCVD" /\ b.peer = c.peer /\ b.rcv_nxt = 1
      /\ b.iss = c.iss
      /\ AckData(c, seg) => b.len = 0
    <2>1. c.rcv_nxt = 1
        BY DEF Sound
    <2> QED
        BY <2>1, AckedSame
<1>2. c.peer \in Client /\ c.rcv_nxt = 1 /\ c.iss = c.iss
    BY DEF Sound
<1> HIDE DEF b, s
<1>3. CASE ~AckData(c, seg)
    <2>1. s.conn = b /\ s.act = "none"
        BY <1>3 DEF SynRcvd, Outcome, s
    <2>2. Steps(c, b, "none")
        BY <1>1, StepsSame
    <2> QED
        BY <1>1, <2>1, <2>2
<1>4. CASE AckData(c, seg)
    <2>1. seg.len \in Nat /\ seg.len <= N /\ N \in Nat /\ seg.seq \in Nat
        BY UipTcpAssumption DEF Sane
    <2>2. 1 + seg.len \in 0 .. N + 2 /\ "ESTABLISHED" \in States
        BY <2>1 DEF States
    <2>3. /\ d \in Conn /\ d.peer = c.peer /\ d.st = "ESTABLISHED" /\ d.len = 0 /\ d.iss = c.iss
          /\ d.rcv_nxt = seg.len + 1 /\ d.app \in App
        <3>1. b.rcv_nxt + seg.len = seg.len + 1 /\ seg.len + 1 \in 0 .. N + 2
            BY <1>1, <2>1, <2>2
        <3>2. d = [b EXCEPT !.st = "ESTABLISHED", !.rcv_nxt = seg.len + 1]
            BY <3>1
        <3>3. d \in Conn
            BY <1>1, <2>2, <3>1, <3>2 DEF Conn
        <3> QED
            BY <1>1, <1>4, <3>2, <3>3 DEF Conn
    <2> HIDE DEF d
    <2>4. Data(seg) = [k \in 1 .. seg.len |-> <<c.peer, 0 + 1 + k - 1>>]
        <3>1. seg.peer = c.peer
            BY DEF Sane
        <3>2. \A k \in 1 .. seg.len : seg.seq + k - 1 = 0 + 1 + k - 1
            <4>1. seg.len > 0 => seg.seq = 1
                BY <1>1, <1>2 DEF InTurn
            <4> QED
                BY <2>1, <4>1
        <3> QED
            BY <3>1, <3>2 DEF Data
    <2>5. /\ flags \in SUBSET {"CONNECTED", "NEWDATA", "ACKDATA"}
          /\ "CONNECTED" \in flags
          /\ "NEWDATA" \in flags <=> seg.len > 0
        BY DEF NewData
    <2> HIDE DEF flags
    <2>6. 0 \in Nat /\ 0 + seg.len <= N /\ 0 + seg.len = seg.len
        BY <2>1
    <2>7. Gathers(d.peer, r, flags, 0 + seg.len, 0)
        BY <1>2, <2>1, <2>3, <2>4, <2>5, <2>6, CallClient
    <2> HIDE DEF r
    <2>8. Steps(d, AppSend(d, r), r.act)
        BY <1>2, <2>1, <2>3, <2>5, <2>6, <2>7, ClientStep
    <2>9. s.conn = AppSend(d, r) /\ s.act = r.act
        BY <1>4 DEF SynRcvd, d, r, flags, Called, Outcome, s
    <2>10. Steps(c, AppSend(d, r), r.act)
        BY <2>3, <2>8 DEF Steps, Finishing
    <2> QED
        BY <1>4, <2>9, <2>10
<1> QED
    BY <1>3, <1>4

\* The report goes out, or nothing does.
LEMMA SrvStep ==
    ASSUME NEW c \in Conn, c.peer = Srv, c.st = "ESTABLISHED", Len(c.app.got) <= N,
           NEW flags \in SUBSET {"CONNECTED", "NEWDATA", "ACKDATA", "POLL"}, NEW data
    PROVE  LET r == httpd_appcall(c, flags, data)
           IN  Steps(c, AppSend(c, r), r.act)
<1> DEFINE d == [c EXCEPT !.app = c.app, !.nrtx = 0]
           r == httpd_appcall(c, flags, data)
<1>1. PICK n \in {0, 1} : r = Answer(c.app, flags, n, "none")
    BY CallSrv
<1> HIDE DEF r
<1>2. 0 \in 0 .. UIP_MAXRTX /\ Srv \notin Client
    BY UipTcpAssumption
<1>3. /\ d \in Conn /\ d.st = "ESTABLISHED" /\ d.peer = Srv /\ d.iss = c.iss /\ d.app = c.app
    BY <1>2 DEF Conn
<1>4. AppSend(c, r) = d \/ AppSend(c, r) = [d EXCEPT !.len = n]
    <2>1. r.app = c.app /\ r.flags = flags /\ r.slen = n
        BY <1>1 DEF Answer
    <2>2. "ABORT" \notin flags /\ "CLOSE" \notin flags
        OBVIOUS
    <2> QED
        BY <2>1, <2>2 DEF AppSend
<1>5. r.act = "none"
    BY <1>1 DEF Answer
<1> HIDE DEF d
<1>6. /\ AppSend(c, r) \in Conn
      /\ AppSend(c, r).st = "ESTABLISHED" /\ AppSend(c, r).peer = Srv
      /\ AppSend(c, r).iss = c.iss /\ AppSend(c, r).app = c.app
    <2>1. [d EXCEPT !.len = n] \in Conn
        BY <1>3 DEF Conn
    <2> QED
        BY <1>3, <1>4, <2>1 DEF Conn
<1>7. Sound(AppSend(c, r))
    BY <1>2, <1>6 DEF Sound, Finishing
<1> QED
    BY <1>5, <1>6, <1>7 DEF Steps, Finishing, r

LEMMA SynSentStep ==
    ASSUME NEW c, Sound(c), c.st = "SYN_SENT", NEW seg, Sane(seg, c.peer), InTurn(c, seg)
    PROVE  LET s == SynSent(AckProcess(c, seg), AckData(c, seg), seg)
           IN  Steps(c, s.conn, s.act) /\ s.act = "none" /\ c.peer = Srv
<1> DEFINE b == AckProcess(c, seg)
           d == [b EXCEPT !.st = "ESTABLISHED", !.rcv_nxt = seg.seq + 1]
           r == httpd_appcall(d, {"CONNECTED", "NEWDATA"}, <<>>)
           s == SynSent(b, AckData(c, seg), seg)
<1> SUFFICES Steps(c, s.conn, s.act) /\ s.act = "none" /\ c.peer = Srv
    OBVIOUS
<1>1. /\ b \in Conn /\ Sound(b) /\ b.st = "SYN_SENT" /\ b.peer = Srv /\ c.peer = Srv
      /\ b.iss = c.iss
    <2>1. c.peer = Srv
        BY DEF Sound
    <2> QED
        BY <2>1, AckedSame
<1> HIDE DEF b, s
<1>2. CASE AckData(c, seg) /\ IsSynAck(seg)
    <2>1. seg.seq + 1 \in 0 .. N + 2 /\ "ESTABLISHED" \in States
        BY <1>1, UipTcpAssumption DEF Sane, States
    <2>2. d \in Conn /\ d.peer = Srv /\ d.st = "ESTABLISHED" /\ d.iss = c.iss /\ d.app = b.app
        BY <1>1, <2>1 DEF Conn
    <2> HIDE DEF d
    <2>3. Len(d.app.got) <= N
        BY <1>1, <2>2 DEF Sound
    <2>4. Steps(d, AppSend(d, r), r.act)
        BY <2>2, <2>3, SrvStep
    <2>5. r.act = "none"
        BY <2>2, CallSrv DEF Answer
    <2> HIDE DEF r
    <2>6. s.conn = AppSend(d, r) /\ s.act = r.act
        BY <1>2 DEF SynSent, d, r, Called, Outcome, s
    <2>7. Steps(c, AppSend(d, r), r.act)
        BY <1>1, <2>2, <2>4 DEF Steps, Finishing
    <2> QED
        BY <1>1, <2>5, <2>6, <2>7
<1>3. CASE ~(AckData(c, seg) /\ IsSynAck(seg))
    <2>1. s.conn = Ends(b, "ABORT") /\ s.act = "none"
        BY <1>3 DEF SynSent, Outcome, s
    <2>2. Ends(b, "ABORT") = Closed(b)
        BY <1>1, EndsIsClosed
    <2> QED
        BY <1>1, <2>1, <2>2, ClosedSound, StepsClosed
<1> QED
    BY <1>2, <1>3

LEMMA EstablishedStep ==
    ASSUME NEW c, Sound(c), c.st = "ESTABLISHED", NEW seg, Sane(seg, c.peer), InTurn(c, seg)
    PROVE  LET s == Established(AckProcess(c, seg), AckData(c, seg), seg)
           IN  Steps(c, s.conn, s.act) /\ (c.peer = Srv => s.act = "none")
<1> DEFINE b == AckProcess(c, seg)
           ackdata == IF AckData(c, seg) THEN {"ACKDATA"} ELSE {}
           flags == ackdata \cup NewData(seg)
           d == [b EXCEPT !.rcv_nxt = @ + seg.len + (IF seg.fin THEN 1 ELSE 0)]
           q == httpd_appcall(d, flags \cup {"CLOSE"}, Data(seg))
           r == httpd_appcall(d, flags, Data(seg))
           s == Established(b, AckData(c, seg), seg)
<1> SUFFICES Steps(c, s.conn, s.act) /\ (c.peer = Srv => s.act = "none")
    OBVIOUS
<1>1. /\ b \in Conn /\ Sound(b) /\ b.st = "ESTABLISHED" /\ b.peer = c.peer /\ b.rcv_nxt = c.rcv_nxt
      /\ b.iss = c.iss /\ b.app = c.app
      /\ ~AckData(c, seg) => b = c
    BY AckedSame
<1>2. /\ N \in Nat /\ seg.seq \in 0 .. N + 1 /\ seg.len \in 0 .. N /\ seg.seq + seg.len <= N + 1
      /\ c.rcv_nxt \in 0 .. N + 2 /\ seg.peer = c.peer
    BY UipTcpAssumption DEF Sane, Sound, Conn
<1>3. seg.len > 0 \/ seg.fin => seg.seq = c.rcv_nxt
    BY DEF InTurn
<1>4. c.peer # Srv => c.len = 0 /\ ~AckData(c, seg) /\ Reading(c) /\ c.peer \in Client
    <2>1. c.peer # Srv => c.peer \in Client
        BY DEF Sound, Conn
    <2> QED
        BY <2>1 DEF Sound, Reading, AckData
<1>5. c.peer = Srv => seg.len = 0 /\ seg.seq <= 1
    BY DEF Sane
<1> HIDE DEF b, s
<1>6. CASE seg.fin /\ b.len > 0
    <2>1. s.conn = b /\ s.act = "none"
        BY <1>6 DEF Established, Outcome, s
    <2> QED
        BY <1>1, <2>1, StepsSame
<1>7. CASE seg.fin /\ ~(b.len > 0)
    <2>1. b.rcv_nxt + seg.len + 1 \in 0 .. N + 2
        BY <1>1, <1>2, <1>3, <1>7
    <2>2. d = [b EXCEPT !.rcv_nxt = b.rcv_nxt + seg.len + 1]
        BY <1>7
    <2>3. d \in Conn /\ d.peer = c.peer /\ d.iss = c.iss /\ d.app = c.app
        BY <1>1, <2>1, <2>2 DEF Conn
    <2> HIDE DEF d
    <2>4. q.app = c.app /\ q.act = "none"
        <3>1. (flags \cup {"CLOSE"}) \cap {"CLOSE", "ABORT", "TIMEDOUT"} # {}
            OBVIOUS
        <3> QED
            BY <2>3, <3>1, EndLeavesApp
    <2>5. b.len = 0
        BY <1>1, <1>7 DEF Conn
    <2> DEFINE e == StartsFin([d EXCEPT !.app = q.app], "LAST_ACK")
    <2>6. s.conn = e /\ s.act = "none"
        BY <1>7, <2>4, <2>5 DEF Established, Outcome, s, d
    <2>7. [d EXCEPT !.app = q.app] = d
        BY <2>3, <2>4 DEF Conn
    <2>8. e \in Conn /\ e.st = "LAST_ACK" /\ e.app = c.app /\ e.peer = c.peer /\ e.iss = c.iss
        BY <2>3, <2>7, FinIsStarted DEF States
    <2> HIDE DEF e
    <2>9. Sound(e)
        BY <2>8 DEF Sound, Finishing
    <2> QED
        BY <2>6, <2>8, <2>9 DEF Steps, Finishing
<1>8. CASE ~seg.fin /\ flags # {}
    <2>1. b.rcv_nxt + seg.len \in 0 .. N + 2
        BY <1>1, <1>2, <1>3
    <2>2. d = [b EXCEPT !.rcv_nxt = b.rcv_nxt + seg.len]
        <3>1. b.rcv_nxt + seg.len + 0 = b.rcv_nxt + seg.len
            BY <2>1, <1>1, <1>2
        <3> QED
            BY <1>8, <3>1
    <2>3. /\ d \in Conn /\ d.peer = c.peer /\ d.iss = c.iss /\ d.app = c.app /\ d.st = "ESTABLISHED"
          /\ d.rcv_nxt = c.rcv_nxt + seg.len /\ d.len = b.len
        BY <1>1, <2>1, <2>2 DEF Conn
    <2>4. s.conn = AppSend(d, r) /\ s.act = r.act
        BY <1>8 DEF Established, Outcome, Called, s
    <2> HIDE DEF d
    <2>5. flags \in SUBSET {"CONNECTED", "NEWDATA", "ACKDATA", "POLL"}
        BY DEF NewData
    <2>6. CASE c.peer = Srv
        <3>1. Len(d.app.got) <= N
            BY <2>3 DEF Sound
        <3>2. Steps(d, AppSend(d, r), r.act)
            BY <2>3, <2>5, <2>6, <3>1, SrvStep
        <3>3. r.act = "none"
            BY <2>3, <2>6, CallSrv DEF Answer
        <3> HIDE DEF r
        <3>4. Steps(c, AppSend(d, r), r.act)
            BY <2>3, <3>2 DEF Steps, Finishing
        <3> QED
            BY <2>4, <3>3, <3>4
    <2>7. CASE c.peer # Srv
        <3> DEFINE n == c.rcv_nxt - 1
        <3>1. flags = {"NEWDATA"} /\ seg.len > 0
            BY <1>4, <1>8, <2>7 DEF NewData
        <3>2. n \in Nat /\ n + seg.len \in Nat /\ n + seg.len <= N
            BY <1>2, <1>3, <1>4, <2>7, <3>1 DEF Reading
        <3>3. Data(seg) = [k \in 1 .. seg.len |-> <<c.peer, n + 1 + k - 1>>]
            <4>1. \A k \in 1 .. seg.len : seg.seq + k - 1 = n + 1 + k - 1
                BY <1>2, <1>3, <3>1
            <4> QED
                BY <1>2, <4>1 DEF Data
        <3>4. d.app.got = Pieces(d.peer, n)
            BY <1>4, <2>3, <2>7 DEF Reading
        <3>5. d.rcv_nxt = (n + seg.len) + 1
            BY <1>2, <2>3
        <3>6. d.app \in App /\ d.len = 0 /\ d.peer \in Client
            BY <1>1, <1>4, <2>3, <2>7 DEF Conn
        <3> HIDE DEF n, flags
        <3>7. Gathers(d.peer, r, flags, n + seg.len, 0)
            <4>1. /\ flags \in SUBSET {"CONNECTED", "NEWDATA", "ACKDATA"}
                  /\ "CONNECTED" \notin flags /\ "NEWDATA" \in flags
                BY <3>1
            <4>2. Data(seg) = [k \in 1 .. seg.len |-> <<d.peer, n + 1 + k - 1>>]
                BY <2>3, <3>3
            <4>3. seg.len \in Nat
                BY <1>2
            <4> QED
                BY <3>1, <3>2, <3>4, <3>6, <4>1, <4>2, <4>3, CallClient
        <3> HIDE DEF r
        <3>8. Steps(d, AppSend(d, r), r.act)
            BY <2>3, <3>1, <3>2, <3>5, <3>6, <3>7, ClientStep
        <3>9. Steps(c, AppSend(d, r), r.act)
            BY <2>3, <3>8 DEF Steps, Finishing
        <3> QED
            BY <2>4, <2>7, <3>9
    <2> QED
        BY <2>6, <2>7
<1>9. CASE ~seg.fin /\ flags = {}
    <2>1. s.conn = b /\ s.act = "none"
        BY <1>9 DEF Established, Outcome, s
    <2> QED
        BY <1>1, <2>1, StepsSame
<1> QED
    BY <1>6, <1>7, <1>8, <1>9

LEMMA ClosingStep ==
    ASSUME NEW c, Sound(c), c.st \in {"LAST_ACK"} \cup Finishing,
           NEW seg, Sane(seg, c.peer), InTurn(c, seg)
    PROVE  LET s == Closing(AckProcess(c, seg), AckData(c, seg), seg)
           IN  /\ Steps(c, s.conn, s.act)
               /\ s.act = "none" /\ s.conn.st # "ESTABLISHED"
<1> DEFINE b     == AckProcess(c, seg)
           acked == AckData(c, seg)
           takes == b.st \in {"FIN_WAIT_1", "FIN_WAIT_2"}
           d     == [b EXCEPT !.rcv_nxt = @ + seg.len + (IF seg.fin THEN 1 ELSE 0)]
           e     == IF takes THEN d ELSE b
           next  == CASE b.st = "LAST_ACK" /\ acked              -> "CLOSED"
                      [] b.st = "FIN_WAIT_1" /\ seg.fin /\ acked -> "TIME_WAIT"
                      [] b.st = "FIN_WAIT_1" /\ seg.fin /\ ~acked -> "CLOSING"
                      [] b.st = "FIN_WAIT_1" /\ ~seg.fin /\ acked -> "FIN_WAIT_2"
                      [] b.st = "FIN_WAIT_2" /\ seg.fin          -> "TIME_WAIT"
                      [] b.st = "CLOSING" /\ acked               -> "TIME_WAIT"
                      [] OTHER                                   -> b.st
           told  == IF next # b.st /\ (seg.fin \/ next = "CLOSED")
                    THEN httpd_appcall(e, {"CLOSE"}, <<>>).app ELSE b.app
           timer == IF next = "TIME_WAIT" /\ next # b.st THEN 0 ELSE e.timer
           s     == Closing(b, acked, seg)
<1> SUFFICES /\ Steps(c, s.conn, s.act)
             /\ s.act = "none" /\ s.conn.st # "ESTABLISHED"
    OBVIOUS
<1>1. /\ b \in Conn /\ Sound(b) /\ b.st = c.st /\ b.peer = c.peer /\ b.rcv_nxt = c.rcv_nxt
      /\ b.iss = c.iss /\ b.app = c.app
    BY AckedSame
<1>2. /\ N \in Nat /\ seg.seq \in 0 .. N + 1 /\ seg.len \in 0 .. N /\ seg.seq + seg.len <= N + 1
      /\ c.rcv_nxt \in 0 .. N + 2 /\ seg.fin \in BOOLEAN
    BY UipTcpAssumption DEF Sane, Sound, Conn
<1>3. seg.len > 0 \/ seg.fin => seg.seq = c.rcv_nxt
    BY DEF InTurn, Finishing
<1>4. \/ next = "CLOSED"
      \/ next \in States \ {"CLOSED", "ESTABLISHED", "SYN_RCVD", "SYN_SENT"}
         /\ (next \in Finishing => c.st \in Finishing)
    <2>1. b.st \in {"LAST_ACK", "FIN_WAIT_1", "FIN_WAIT_2", "CLOSING", "TIME_WAIT"}
        BY <1>1 DEF Finishing
    <2> HIDE DEF b
    <2>2. CASE b.st = "LAST_ACK"
        <3>1. next \in {"CLOSED", "LAST_ACK"}
            BY <2>2
        <3> HIDE DEF next
        <3> QED
            BY <3>1 DEF Finishing, States
    <2>3. CASE b.st \in {"FIN_WAIT_1", "FIN_WAIT_2", "CLOSING", "TIME_WAIT"}
        <3>1. next \in {"FIN_WAIT_1", "FIN_WAIT_2", "CLOSING", "TIME_WAIT"}
            BY <1>2, <2>3
        <3> HIDE DEF next
        <3> QED
            BY <1>1, <2>3, <3>1 DEF Finishing, States
    <2> QED
        BY <2>1, <2>2, <2>3
<1> HIDE DEF b, s, next
<1>5. /\ e \in Conn /\ e.peer = c.peer /\ e.iss = c.iss /\ e.app = c.app
    <2>1. CASE takes
        <3> DEFINE rcv == b.rcv_nxt + seg.len + (IF seg.fin THEN 1 ELSE 0)
        <3>1. rcv \in 0 .. N + 2
            BY <1>1, <1>2, <1>3
        <3>2. d = [b EXCEPT !.rcv_nxt = rcv]
            OBVIOUS
        <3> HIDE DEF rcv
        <3>3. d \in Conn /\ d.peer = c.peer /\ d.iss = c.iss /\ d.app = c.app
            BY <1>1, <3>1, <3>2 DEF Conn
        <3> QED
            BY <2>1, <3>3
    <2>2. CASE ~takes
        BY <1>1, <2>2
    <2> QED
        BY <2>1, <2>2
<1> HIDE DEF e
<1>6. told = c.app
    <2>1. httpd_appcall(e, {"CLOSE"}, <<>>).app = c.app
        <3>1. {"CLOSE"} \cap {"CLOSE", "ABORT", "TIMEDOUT"} # {}
            OBVIOUS
        <3> QED
            BY <1>5, <3>1, EndLeavesApp
    <2> QED
        BY <1>1, <2>1
<1> HIDE DEF told
<1>7. s = Outcome(IF next = "CLOSED" THEN Closed([e EXCEPT !.app = told])
                  ELSE [e EXCEPT !.st = next, !.app = told, !.timer = timer], "none")
    BY DEF s, Closing, next, told, e
<1>8. s.act = "none"
    BY <1>7 DEF Outcome
<1>9. CASE next = "CLOSED"
    <2>1. s.conn = Closed([e EXCEPT !.app = told])
        BY <1>7, <1>9 DEF Outcome
    <2>2. Closed([e EXCEPT !.app = told]) = Closed(b)
        <3>1. [e EXCEPT !.app = told].app = b.app
            BY <1>1, <1>5, <1>6 DEF Conn
        <3> QED
            BY <3>1 DEF Closed
    <2> QED
        BY <1>1, <1>8, <2>1, <2>2, ClosedSound, StepsClosed
<1>10. CASE next # "CLOSED"
    <2> DEFINE f == [e EXCEPT !.st = next, !.app = told, !.timer = timer]
    <2>1. s.conn = f
        BY <1>7, <1>10 DEF Outcome
    <2>2. timer \in 0 .. UIP_TIME_WAIT_TIMEOUT - 1
        <3>1. 0 \in 0 .. UIP_TIME_WAIT_TIMEOUT - 1 /\ e.timer \in 0 .. UIP_TIME_WAIT_TIMEOUT - 1
            BY <1>5, UipTcpAssumption DEF Conn
        <3> QED
            BY <3>1
    <2> HIDE DEF timer
    <2>3. f \in Conn
        <3>1. told \in App /\ next \in States
            BY <1>4, <1>5, <1>6, <1>10 DEF Conn
        <3> QED
            BY <1>5, <2>2, <3>1 DEF Conn
    <2>4. f.st = next /\ f.peer = c.peer /\ f.iss = c.iss /\ f.app = c.app
        BY <1>5, <1>6 DEF Conn
    <2> HIDE DEF f
    <2>5. Sound(f)
        <3>1. Len(c.app.got) <= N /\ (c.st \in Finishing => c.peer \in Client)
            BY DEF Sound
        <3> QED
            BY <1>4, <1>10, <2>3, <2>4, <3>1 DEF Sound
    <2> QED
        BY <1>4, <1>8, <1>10, <2>1, <2>4, <2>5 DEF Steps
<1> QED
    BY <1>9, <1>10

LEMMA ProcessStep ==
    ASSUME NEW c, Sound(c), c.st # "CLOSED", NEW seg, Sane(seg, c.peer), InTurn(c, seg)
    PROVE  LET s == Process(c, seg)
           IN  /\ Steps(c, s.conn, s.act)
               /\ (s.conn.st = "ESTABLISHED" /\ c.peer # Srv) \/ s.act # "none" =>
                      \/ c.st = "ESTABLISHED" /\ c.peer # Srv
                      \/ c.st = "SYN_RCVD" /\ AckData(c, seg)
<1> DEFINE b     == AckProcess(c, seg)
           acked == AckData(c, seg)
<1>1. b.st = c.st
    BY AckedSame
<1>2. CASE c.st = "SYN_RCVD"
    <2>1. Process(c, seg) = SynRcvd(b, acked, seg)
        BY <1>2 DEF Process
    <2> QED
        BY <1>2, <2>1, SynRcvdStep
<1>3. CASE c.st = "SYN_SENT"
    <2>1. Process(c, seg) = SynSent(b, acked, seg)
        BY <1>3 DEF Process
    <2> QED
        BY <1>3, <2>1, SynSentStep
<1>4. CASE c.st = "ESTABLISHED"
    <2>1. Process(c, seg) = Established(b, acked, seg)
        BY <1>4 DEF Process
    <2> QED
        BY <1>4, <2>1, EstablishedStep
<1>5. CASE c.st \in {"LAST_ACK"} \cup Finishing
    <2>1. Process(c, seg) = Closing(b, acked, seg)
        BY <1>5 DEF Process, Finishing
    <2> QED
        BY <1>5, <2>1, ClosingStep
<1> QED
    BY <1>2, <1>3, <1>4, <1>5 DEF Sound, Conn, States, Finishing

\* One slot at the periodic timer.
LEMMA PeriodicStep ==
    ASSUME NEW c, Sound(c)
    PROVE  /\ Steps(c, Periodic(c), "none")
           /\ Periodic(c).st = "ESTABLISHED" => c.st = "ESTABLISHED"
<1> DEFINE e == Periodic(c)
<1>1. c \in Conn
    BY DEF Sound
<1>2. CASE c.st \in {"TIME_WAIT", "FIN_WAIT_2"}
    <2> DEFINE d == [c EXCEPT !.timer = c.timer + 1]
    <2>1. e = Closed(c) \/ (c.timer + 1 # UIP_TIME_WAIT_TIMEOUT /\ e = d)
        BY <1>2 DEF Periodic
    <2>2. CASE e = Closed(c)
        BY <2>2, ClosedSound, StepsClosed
    <2>3. CASE c.timer + 1 # UIP_TIME_WAIT_TIMEOUT /\ e = d
        <3>1. c.timer + 1 \in 0 .. UIP_TIME_WAIT_TIMEOUT - 1
            BY <1>1, <2>3, UipTcpAssumption DEF Conn
        <3>2. d \in Conn /\ d.st = c.st /\ d.peer = c.peer /\ d.iss = c.iss /\ d.app = c.app
            BY <1>1, <3>1 DEF Conn
        <3> HIDE DEF d
        <3>3. Sound(d)
            BY <1>2, <3>2 DEF Sound
        <3> QED
            BY <1>2, <2>3, <3>2, <3>3, StepsSame
    <2> QED
        BY <2>1, <2>2, <2>3
<1>3. CASE c.st \notin {"TIME_WAIT", "FIN_WAIT_2", "CLOSED"} /\ c.len > 0
    <2> DEFINE d == [c EXCEPT !.nrtx = c.nrtx + 1]
    <2>1. e = Ends(c, "TIMEDOUT") \/ (c.nrtx # UIP_MAXRTX /\ e = d)
        BY <1>3 DEF Periodic
    <2>2. CASE e = Ends(c, "TIMEDOUT")
        <3>1. e = Closed(c)
            BY <2>2, EndsIsClosed
        <3> QED
            BY <3>1, ClosedSound, StepsClosed
    <2>3. CASE c.nrtx # UIP_MAXRTX /\ e = d
        <3>1. c.nrtx + 1 \in 0 .. UIP_MAXRTX
            BY <1>1, <2>3, UipTcpAssumption DEF Conn
        <3>2. /\ d \in Conn /\ d.st = c.st /\ d.peer = c.peer /\ d.iss = c.iss /\ d.app = c.app
              /\ d.rcv_nxt = c.rcv_nxt /\ d.len = c.len
            BY <1>1, <3>1 DEF Conn
        <3> HIDE DEF d
        <3>3. Sound(d)
            BY <3>2 DEF Sound, Reading
        <3> QED
            BY <2>3, <3>2, <3>3, StepsSame
    <2> QED
        BY <2>1, <2>2, <2>3
<1>4. CASE c.st = "ESTABLISHED" /\ ~(c.len > 0)
    <2> DEFINE r == httpd_appcall(c, {"POLL"}, <<>>)
    <2>1. e = AppSend(c, r)
        BY <1>4 DEF Periodic
    <2>2. CASE c.peer = Srv
        <3>1. Len(c.app.got) <= N
            BY DEF Sound
        <3>2. {"POLL"} \in SUBSET {"CONNECTED", "NEWDATA", "ACKDATA", "POLL"}
            OBVIOUS
        <3>3. Steps(c, e, r.act)
            BY <1>1, <1>4, <2>1, <2>2, <3>1, <3>2, SrvStep
        <3>4. r.act = "none"
            BY <2>2, CallSrv DEF Answer
        <3> QED
            BY <1>4, <3>3, <3>4
    <2>3. CASE c.peer # Srv
        <3> DEFINE d == [c EXCEPT !.app = r.app, !.nrtx = 0]
        <3>1. /\ r.app = [got |-> c.app.got, timer |-> c.app.timer + 1]
              /\ r.app \in App
              /\ r.slen = 0
              /\ \/ r.flags = {"ABORT"}
                 \/ r.flags = {"POLL"} /\ c.app.timer + 1 < IdleLimit
            BY <1>4, <2>3, PollCall
        <3> HIDE DEF r
        <3>2. r.app.got = c.app.got /\ r.app.timer = c.app.timer + 1 /\ Len(c.app.got) <= N
            BY <3>1 DEF Sound
        <3>3. 0 \in 0 .. UIP_MAXRTX
            BY UipTcpAssumption
        <3>4. /\ d \in Conn /\ d.st = c.st /\ d.peer = c.peer /\ d.iss = c.iss /\ d.app = r.app
              /\ d.rcv_nxt = c.rcv_nxt /\ d.len = c.len
            BY <1>1, <3>1, <3>3 DEF Conn
        <3>5. CASE r.flags = {"ABORT"}
            <4>1. e = Closed(d)
                BY <2>1, <3>5 DEF AppSend
            <4> HIDE DEF d
            <4>2. Sound(e) /\ e.st = "CLOSED"
                BY <3>1, <3>2, <3>4, <4>1, ClosedFits
            <4> QED
                BY <4>2, StepsClosed
        <3>6. CASE r.flags = {"POLL"} /\ c.app.timer + 1 < IdleLimit
            <4>1. e = d
                BY <2>1, <3>1, <3>6 DEF AppSend
            <4> HIDE DEF d
            <4>2. Sound(d)
                BY <1>4, <2>3, <3>2, <3>4, <3>6 DEF Sound, Reading, Finishing
            <4> QED
                BY <1>4, <3>4, <4>1, <4>2, StepsSame
        <3> QED
            BY <3>1, <3>5, <3>6
    <2> QED
        BY <2>2, <2>3
<1>5. CASE \/ c.st = "CLOSED"
           \/ c.st \notin {"TIME_WAIT", "FIN_WAIT_2", "ESTABLISHED"} /\ ~(c.len > 0)
    <2>1. e = c
        BY <1>5 DEF Periodic
    <2> QED
        BY <2>1, StepsSame
<1> QED
    BY <1>2, <1>3, <1>4, <1>5
-----------------------------------------------------------------------------
(* The invariant                                                               *)

\* Every slot is sound, and open connections differ in number and in peer.
TableInv ==
    /\ iss \in Nat
    /\ Slot \subseteq Nat
    /\ \A i \in Slot : Sound(conns[i])
    /\ \A i \in Slot : conns[i].st # "CLOSED" => conns[i].iss \in 1 .. iss /\ conns[i].peer \in Peer
    /\ \A i, j \in Slot : i # j /\ conns[i].iss = conns[j].iss => conns[i].iss = 0
    /\ OneSlotPerPeer

Host == [phase : {"connecting", "open", "gone", "stale"}, iss : Nat, acked : Nat]

\* A peer has acknowledged only what the clock has sent it.
HostsInv ==
    /\ Peer \subseteq Client \cup {Srv}
    /\ \A p \in Peer :
          /\ hosts[p] \in Host
          /\ hosts[p].iss <= iss
          /\ hosts[p].phase \in {"connecting", "stale"} => hosts[p].acked = 0
          /\ p # Srv => hosts[p].phase # "stale"
    /\ \A o \in out : o.iss \in 1 .. iss

\* An established connection is the one its client knows of; a connection that may
\* still carry its command out has not done so, and neither has one before it.
AnsweredInv ==
    /\ executed \in Seq({Whole(c) : c \in Client})
    /\ \A i \in Slot :
          conns[i].st = "ESTABLISHED" /\ conns[i].peer # Srv =>
              conns[i].iss = hosts[conns[i].peer].iss /\ hosts[conns[i].peer].phase # "connecting"
    /\ \A i \in Slot :
          /\ conns[i].st \in {"SYN_RCVD", "ESTABLISHED"} /\ conns[i].peer # Srv
          /\ conns[i].iss = hosts[conns[i].peer].iss
          => ~Contains(executed, Whole(conns[i].peer))
    /\ \A p \in Peer \ {Srv} : Contains(executed, Whole(p)) => hosts[p].phase # "connecting"
    /\ ClosesAfterAnswer

TcpInv == TableInv /\ HostsInv /\ AnsweredInv

LEMMA InvSuffices == TcpInv => ConnectionsInv
<1> SUFFICES ASSUME TcpInv PROVE ConnectionsInv
    OBVIOUS
<1>1. TcpTypeOK
    <2>1. \A i \in Slot : Sound(conns[i])
        BY DEF TcpInv, TableInv
    <2>2. \A i \in Slot :
              /\ conns[i].rcv_nxt \in 0 .. N + 2
              /\ conns[i].len \in {0, 1}
              /\ conns[i].nrtx \in 0 .. UIP_MAXRTX
              /\ conns[i].timer \in 0 .. UIP_TIME_WAIT_TIMEOUT - 1
              /\ conns[i].app.timer \in 0 .. IdleLimit
              /\ Len(conns[i].app.got) <= N
        BY <2>1 DEF Sound, Conn, App
    <2> QED
        BY <2>2 DEF TcpInv, TableInv, TcpTypeOK
<1>2. AcknowledgedIsRead
    BY DEF TcpInv, TableInv, AcknowledgedIsRead, Sound, Reading, Pieces
<1> QED
    BY <1>1, <1>2 DEF TcpInv, TableInv, AnsweredInv, ConnectionsInv

LEMMA AppendContains ==
    ASSUME NEW S, NEW s \in Seq(S), NEW e \in S
    PROVE  /\ Append(s, e) \in Seq(S)
           /\ \A x : Contains(Append(s, e), x) <=> Contains(s, x) \/ x = e
<1>1. /\ Append(s, e) \in Seq(S) /\ Len(Append(s, e)) = Len(s) + 1 /\ Len(s) \in Nat
      /\ Append(s, e)[Len(s) + 1] = e
      /\ \A i \in 1 .. Len(s) : Append(s, e)[i] = s[i]
    OBVIOUS
<1>2. ASSUME NEW x
      PROVE  Contains(Append(s, e), x) <=> Contains(s, x) \/ x = e
    <2>1. ASSUME Contains(Append(s, e), x) PROVE Contains(s, x) \/ x = e
        <3>1. PICK i \in 1 .. Len(Append(s, e)) : Append(s, e)[i] = x
            BY <2>1 DEF Contains
        <3>2. i \in 1 .. Len(s) \/ i = Len(s) + 1
            BY <1>1, <3>1
        <3> QED
            BY <1>1, <3>1, <3>2 DEF Contains
    <2>2. ASSUME Contains(s, x) PROVE Contains(Append(s, e), x)
        <3>1. PICK i \in 1 .. Len(s) : s[i] = x
            BY <2>2 DEF Contains
        <3>2. i \in 1 .. Len(Append(s, e))
            BY <1>1, <3>1
        <3> QED
            BY <1>1, <3>1, <3>2 DEF Contains
    <2>3. ASSUME x = e PROVE Contains(Append(s, e), x)
        <3>1. Len(s) + 1 \in 1 .. Len(Append(s, e))
            BY <1>1
        <3> QED
            BY <1>1, <2>3, <3>1 DEF Contains
    <2> QED
        BY <2>1, <2>2, <2>3
<1> QED
    BY <1>1, <1>2

LEMMA FreeIsFree ==
    ASSUME TableInv, NEW i \in FreeSlot
    PROVE  i \in Slot /\ conns[i].st \in {"CLOSED", "TIME_WAIT"}
<1> DEFINE closed  == {k \in Slot : conns[k].st = "CLOSED"}
           waiting == {k \in Slot : conns[k].st = "TIME_WAIT"}
           longest == {k \in waiting : \A j \in waiting : conns[j].timer <= conns[k].timer}
<1>1. closed \in SUBSET Nat /\ longest \in SUBSET Nat
    BY DEF TableInv
<1>2. (closed # {} /\ i = Min(closed)) \/ (longest # {} /\ i = Min(longest))
    BY DEF FreeSlot
<1>3. i \in closed \/ i \in longest
    <2> HIDE DEF closed, longest
    <2> QED
        BY <1>1, <1>2, MinIsLeast
<1> QED
    BY <1>3

LEMMA FoundIsMine ==
    ASSUME TableInv, NEW seg
    PROVE  /\ \A i \in Found(seg) : i \in Slot /\ conns[i].st # "CLOSED" /\ conns[i].peer = seg.peer
           /\ Found(seg) = {} =>
                  \A i \in Slot : conns[i].st # "CLOSED" => conns[i].peer # seg.peer
<1> DEFINE mine == {i \in Slot : conns[i].st # "CLOSED" /\ conns[i].peer = seg.peer}
<1>1. mine \in SUBSET Nat
    BY DEF TableInv
<1>2. Found(seg) = IF mine = {} THEN {} ELSE {Min(mine)}
    BY DEF Found
<1>3. mine # {} => Min(mine) \in mine
    <2> HIDE DEF mine
    <2> QED
        BY <1>1, MinIsLeast
<1>4. \A i \in Found(seg) : i \in mine
    <2> HIDE DEF mine
    <2> QED
        BY <1>2, <1>3
<1>5. Found(seg) = {} => mine = {}
    <2> HIDE DEF mine
    <2> QED
        BY <1>2
<1> QED
    BY <1>4, <1>5

\* What a slot sends bears its number.
LEMMA OutNumbered ==
    ASSUME NEW c, Sound(c), NEW n, c.st # "CLOSED" => c.iss \in 1 .. n
    PROVE  \A o \in Outstanding(c) : o.iss \in 1 .. n
<1>1. c.st = "CLOSED" => c.len = 0
    BY DEF Sound
<1>2. \A o \in Outstanding(c) : c.len # 0 /\ o.iss = c.iss
    BY DEF Outstanding
<1> QED
    BY <1>1, <1>2

LEMMA SegmentFields ==
    ASSUME NEW p, NEW n \in Nat, NEW l \in Nat, NEW f \in BOOLEAN, NEW a, NEW seg,
           seg = Segment(p, n, l, f, a)
    PROVE  /\ seg.peer = p /\ seg.seq = n /\ seg.len = l /\ seg.ack = a
           /\ ~seg.syn
           /\ seg.fin \in BOOLEAN
           /\ seg.fin <=> f
<1>1. (seg.fin <=> f) /\ ~seg.syn
    BY Zenon DEF Segment
<1>2. seg.peer = p /\ seg.seq = n /\ seg.len = l /\ seg.ack = a /\ seg.fin \in BOOLEAN
    BY DEF Segment
<1> QED
    BY <1>1, <1>2

LEMMA SynFields ==
    ASSUME NEW p, NEW a, NEW seg, seg = Syn(p, a)
    PROVE  /\ seg.peer = p /\ seg.seq = 0 /\ seg.len = 0 /\ seg.ack = a
           /\ seg.syn
           /\ seg.fin \in BOOLEAN
           /\ ~seg.fin
<1>1. seg.syn /\ ~seg.fin
    BY Zenon DEF Syn, Segment
<1>2. seg.peer = p /\ seg.seq = 0 /\ seg.len = 0 /\ seg.ack = a /\ seg.fin \in BOOLEAN
    BY DEF Syn, Segment
<1> QED
    BY <1>1, <1>2

LEMMA RstFields ==
    ASSUME NEW p, NEW seg, seg = Rst(p)
    PROVE  /\ seg.peer = p /\ seg.seq = 0 /\ seg.len = 0 /\ seg.ack = NoAck
           /\ ~seg.syn
           /\ seg.fin \in BOOLEAN
           /\ ~seg.fin
<1>1. ~seg.syn /\ ~seg.fin
    BY Zenon DEF Rst, Segment
<1>2. seg.peer = p /\ seg.seq = 0 /\ seg.len = 0 /\ seg.ack = NoAck /\ seg.fin \in BOOLEAN
    BY DEF Rst, Segment
<1> QED
    BY <1>1, <1>2

\* What a peer sends acknowledges nothing, or the connection it knows of.
LEMMA SegmentsSane ==
    ASSUME HostsInv, NEW p \in Peer, NEW seg \in Segments(p)
    PROVE  /\ Sane(seg, p)
           /\ p # Srv => seg.ack \in {NoAck} \cup Acks(p)
<1>1. N \in Nat /\ N > 1 /\ Srv \notin Client
    BY UipTcpAssumption
<1>2. CASE p = Srv
    <2>1. hosts[Srv].acked \in Nat
        BY <1>2 DEF HostsInv, Host
    <2>2. \/ \E f \in BOOLEAN, x \in {<<0, 2>>} \cup Acks(p) : seg = Segment(p, 1, 0, f, x)
          \/ seg = Syn(p, <<hosts[Srv].iss, 1>>)
          \/ seg = Rst(p)
        <3>1. seg \in SrvSegments
            BY <1>2 DEF Segments
        <3>2. CASE hosts[Srv].phase = "stale"
            <4>1. seg = Segment(p, 1, 0, FALSE, <<0, 2>>)
                <5>1. seg \in {Segment(Srv, 1, 0, FALSE, <<0, 2>>)}
                    BY <3>1, <3>2 DEF SrvSegments, Segment
                <5> QED
                    BY <1>2, <5>1, Zenon
            <4> QED
                BY <4>1, Zenon
        <3>3. CASE hosts[Srv].phase # "stale"
            BY <1>2, <3>1, <3>3 DEF SrvSegments
        <3> QED
            BY <3>2, <3>3
    <2>3. <<hosts[Srv].iss, 1>> # NoAck
        BY DEF NoAck
    <2>4. CASE \E f \in BOOLEAN, x \in {<<0, 2>>} \cup Acks(p) : seg = Segment(p, 1, 0, f, x)
        BY <1>1, <1>2, <2>4, SegmentFields DEF Sane
    <2>5. CASE seg = Syn(p, <<hosts[Srv].iss, 1>>)
        BY <1>1, <1>2, <2>3, <2>5, SynFields DEF Sane
    <2>6. CASE seg = Rst(p)
        BY <1>1, <1>2, <2>6, RstFields DEF Sane
    <2> QED
        BY <2>2, <2>4, <2>5, <2>6
<1>3. CASE p # Srv
    <2>1. \/ seg = Syn(p, NoAck)
          \/ \E s \in 1 .. N + 1, l \in 0 .. N, f \in BOOLEAN, a \in Acks(p) :
                /\ seg = Segment(p, s, l, f, a)
                /\ seg.seq + seg.len <= N + 1
                /\ seg.fin => seg.seq + seg.len = N + 1
          \/ seg = Rst(p)
        BY <1>3 DEF Segments, ClientSegments
    <2>2. CASE seg = Syn(p, NoAck)
        BY <1>1, <1>3, <2>2, SynFields DEF Sane
    <2>3. CASE \E s \in 1 .. N + 1, l \in 0 .. N, f \in BOOLEAN, a \in Acks(p) :
                  /\ seg = Segment(p, s, l, f, a)
                  /\ seg.seq + seg.len <= N + 1
                  /\ seg.fin => seg.seq + seg.len = N + 1
        BY <1>1, <1>3, <2>3, SegmentFields DEF Sane
    <2>4. CASE seg = Rst(p)
        BY <1>1, <1>3, <2>4, RstFields DEF Sane
    <2> QED
        BY <2>1, <2>2, <2>3, <2>4
<1> QED
    BY <1>2, <1>3

\* A client's acknowledgement of a connection is of the one it knows of.
LEMMA AckIsOurs ==
    ASSUME TcpInv, NEW i \in Slot, conns[i].st # "CLOSED", conns[i].peer # Srv,
           NEW seg, seg.ack \in {NoAck} \cup Acks(conns[i].peer), AckData(conns[i], seg)
    PROVE  /\ conns[i].iss = hosts[conns[i].peer].iss
           /\ hosts[conns[i].peer].phase # "connecting"
<1> DEFINE c == conns[i]
<1>1. c.iss \in 1 .. iss /\ c.peer \in Peer
    BY DEF TcpInv, TableInv
<1>2. seg.ack = <<c.iss, c.snd + c.len>>
    BY DEF AckData
<1>3. seg.ack # NoAck
    BY <1>1, <1>2 DEF NoAck
<1>4. PICK n \in 1 .. hosts[c.peer].acked : seg.ack = <<hosts[c.peer].iss, n>>
    BY <1>3 DEF Acks
<1>5. c.iss = hosts[c.peer].iss
    BY <1>2, <1>4
<1>6. hosts[c.peer].acked # 0
    BY <1>4
<1>7. hosts[c.peer].phase # "connecting"
    BY <1>1, <1>6 DEF TcpInv, HostsInv
<1> QED
    BY <1>5, <1>7

LEMMA UnusedSound ==
    Sound(Unused) /\ Unused.st = "CLOSED" /\ Unused.iss = 0
<1>1. NewApp \in App /\ NewApp.got = <<>> /\ Len(NewApp.got) <= N
    BY UipTcpAssumption DEF NewApp, App
<1> HIDE DEF NewApp
<1>2. Unused \in Conn
    BY <1>1, UipTcpAssumption DEF Unused, Conn, States
<1>3. Unused.st = "CLOSED" /\ Unused.iss = 0 /\ Unused.len = 0 /\ Unused.app = NewApp
    BY DEF Unused
<1> QED
    BY <1>1, <1>2, <1>3 DEF Sound, Finishing

LEMMA InitInv == TcpInit => TcpInv
<1> SUFFICES ASSUME TcpInit PROVE TcpInv
    OBVIOUS
<1>1. PICK setup \in Setup :
          /\ conns = [i \in 0 .. setup.UIP_CONNS - 1 |-> Unused]
          /\ hosts \in [setup.peers -> [phase : {"connecting", "stale"}, iss : {0}, acked : {0}]]
          /\ iss = IF Srv \in setup.peers THEN 0 ELSE 1
    BY DEF TcpInit
<1>2. setup.UIP_CONNS \in Nat \ {0} /\ setup.peers \subseteq Client \cup {Srv}
    BY UipTcpAssumption
<1>3. out = {} /\ executed = <<>> /\ \A p \in Peer : p # Srv => hosts[p].phase = "connecting"
    BY DEF TcpInit
<1>4. Slot = 0 .. setup.UIP_CONNS - 1 /\ \A i \in Slot : conns[i] = Unused
    BY <1>1 DEF Slot
<1>5. Unused.st = "CLOSED" /\ Unused.iss = 0 /\ Sound(Unused)
    BY UnusedSound
<1>6. TableInv
    <2>1. iss \in Nat
        BY <1>1
    <2>2. Slot \subseteq Nat
        BY <1>2, <1>4
    <2> QED
        BY <1>4, <1>5, <2>1, <2>2 DEF TableInv, OneSlotPerPeer
<1>7. HostsInv
    <2>1. Peer = setup.peers
        BY <1>1 DEF Peer
    <2>2. \A p \in Peer : hosts[p] \in [phase : {"connecting", "stale"}, iss : {0}, acked : {0}]
        BY <1>1, <2>1
    <2>3. 0 <= iss
        BY <1>1
    <2> QED
        BY <1>2, <1>3, <2>1, <2>2, <2>3 DEF HostsInv, Host
<1>8. AnsweredInv
    <2>1. \A p : ~Contains(executed, Whole(p))
        BY <1>3 DEF Contains
    <2> QED
        BY <1>3, <1>4, <1>5, <2>1 DEF AnsweredInv, ClosesAfterAnswer
<1> QED
    BY <1>6, <1>7, <1>8 DEF TcpInv
-----------------------------------------------------------------------------
(* The clock's steps                                                           *)

LEMMA TableKeeps ==
    ASSUME TableInv, iss' = iss, Peer' = Peer, DOMAIN conns' = Slot,
           \A i \in Slot :
              /\ Sound(conns'[i])
              /\ conns'[i].st # "CLOSED" =>
                    /\ conns[i].st # "CLOSED"
                    /\ conns'[i].peer = conns[i].peer
                    /\ conns'[i].iss = conns[i].iss
    PROVE  TableInv'
<1>1. Slot' = Slot
    BY DEF Slot
<1>2. \A i \in Slot : conns'[i].st = "CLOSED" => conns'[i].iss = 0
    BY DEF Sound
<1>3. ASSUME NEW i \in Slot, NEW j \in Slot, i # j, conns'[i].iss = conns'[j].iss
      PROVE  conns'[i].iss = 0
    <2>1. CASE conns'[i].st # "CLOSED" /\ conns'[j].st # "CLOSED"
        BY <1>3, <2>1 DEF TableInv
    <2> QED
        BY <1>2, <1>3, <2>1
<1>4. OneSlotPerPeer'
    BY <1>1 DEF TableInv, OneSlotPerPeer
<1> QED
    BY <1>1, <1>3, <1>4 DEF TableInv

\* A step of the table that carries no command out.
LEMMA AnsweredKeeps ==
    ASSUME TcpInv, UNCHANGED <<hosts, executed, refused>>, DOMAIN conns' = Slot,
           \A i \in Slot :
              /\ conns'[i].st # "CLOSED" =>
                    conns'[i].peer = conns[i].peer /\ conns'[i].iss = conns[i].iss
              /\ conns'[i].st = "SYN_RCVD" => conns[i].st = "SYN_RCVD"
              /\ conns'[i].st \in Finishing => conns[i].st \in Finishing
              /\ conns'[i].st = "ESTABLISHED" /\ conns[i].peer # Srv =>
                    \/ conns[i].st = "ESTABLISHED"
                    \/ /\ conns[i].st = "SYN_RCVD"
                       /\ conns[i].iss = hosts[conns[i].peer].iss
                       /\ hosts[conns[i].peer].phase # "connecting"
    PROVE  AnsweredInv'
<1>1. Slot' = Slot /\ Peer' = Peer
    BY DEF Slot, Peer
<1>2. ASSUME NEW i \in Slot, conns'[i].st = "ESTABLISHED", conns'[i].peer # Srv
      PROVE  conns'[i].iss = hosts[conns'[i].peer].iss /\ hosts[conns'[i].peer].phase # "connecting"
    BY <1>2 DEF TcpInv, AnsweredInv
<1>3. ASSUME NEW i \in Slot, conns'[i].st \in {"SYN_RCVD", "ESTABLISHED"}, conns'[i].peer # Srv,
             conns'[i].iss = hosts[conns'[i].peer].iss
      PROVE  ~Contains(executed, Whole(conns'[i].peer))
    BY <1>3 DEF TcpInv, AnsweredInv
<1>4. ClosesAfterAnswer'
    BY <1>1 DEF TcpInv, AnsweredInv, ClosesAfterAnswer, Finishing
<1> QED
    BY <1>1, <1>2, <1>3, <1>4 DEF TcpInv, AnsweredInv

\* What the clock sends bears the number of a connection.
LEMMA HostsKeep ==
    ASSUME HostsInv, UNCHANGED hosts, iss \in Nat, iss' \in Nat, iss <= iss',
           \A o \in out' : o \in out \/ o.iss \in 1 .. iss'
    PROVE  HostsInv'
<1>1. Peer' = Peer
    BY DEF Peer
<1>2. \A p \in Peer : hosts[p].iss <= iss'
    BY DEF HostsInv, Host
<1>3. \A o \in out' : o.iss \in 1 .. iss'
    BY DEF HostsInv
<1> QED
    BY <1>1, <1>2, <1>3 DEF HostsInv

LEMMA PeriodicInv == TcpInv /\ uip_periodic => TcpInv' /\ UNCHANGED <<executed, refused>>
<1> SUFFICES ASSUME TcpInv, uip_periodic PROVE TcpInv'
    BY DEF uip_periodic
<1>1. /\ DOMAIN conns' = Slot
      /\ \A i \in Slot : conns'[i] = Periodic(conns[i])
      /\ UNCHANGED <<iss, hosts, executed, refused>>
      /\ Slot' = Slot /\ Peer' = Peer
    BY DEF uip_periodic, Slot, Peer
<1>2. ASSUME NEW i \in Slot
      PROVE  /\ Steps(conns[i], conns'[i], "none")
             /\ conns'[i].st = "ESTABLISHED" => conns[i].st = "ESTABLISHED"
             /\ conns[i].st = "CLOSED" => conns'[i].st = "CLOSED"
    <2>1. Sound(conns[i])
        BY DEF TcpInv, TableInv
    <2>2. conns[i].st = "CLOSED" => Periodic(conns[i]) = conns[i]
        BY DEF Periodic
    <2> QED
        BY <1>1, <2>1, <2>2, PeriodicStep
<1>3. TableInv'
    BY <1>1, <1>2, TableKeeps DEF TcpInv, Steps
<1>4. AnsweredInv'
    BY <1>1, <1>2, AnsweredKeeps DEF Steps
<1>5. HostsInv'
    <2>1. ASSUME NEW o \in out' PROVE o \in out \/ o.iss \in 1 .. iss
        <3>1. CASE o \notin out
            <4>1. PICK i \in Slot : o \in Outstanding(conns'[i])
                BY <1>1, <2>1, <3>1 DEF uip_periodic
            <4>2. Sound(conns'[i]) /\ (conns'[i].st # "CLOSED" => conns'[i].iss \in 1 .. iss)
                BY <1>1, <1>3 DEF TableInv
            <4> QED
                BY <4>1, <4>2, OutNumbered
        <3> QED
            BY <3>1
    <2> QED
        BY <1>1, <2>1, HostsKeep DEF TcpInv, TableInv
<1> QED
    BY <1>3, <1>4, <1>5 DEF TcpInv

\* A new connection, in a slot that is free and for a peer that has none.
LEMMA OpensInv ==
    ASSUME TcpInv, NEW i \in FreeSlot, NEW c, c \in Conn, c.st \in {"SYN_SENT", "SYN_RCVD"},
           c.peer \in Peer, c.st = "SYN_SENT" => c.peer = Srv,
           c.st = "SYN_RCVD" => c.peer \in Client /\ c.rcv_nxt = 1,
           \A j \in Slot : conns[j].st # "CLOSED" => conns[j].peer # c.peer,
           Opens(i, c)
    PROVE  TcpInv'
<1> DEFINE e == [c EXCEPT !.iss = iss', !.len = 1, !.app = conns[i].app]
<1>1. i \in Slot /\ conns[i].st \in {"CLOSED", "TIME_WAIT"} /\ Sound(conns[i])
    BY FreeIsFree DEF TcpInv, TableInv
<1>2. /\ iss \in Nat /\ iss' = iss + 1 /\ conns' = [conns EXCEPT ![i] = e]
      /\ out' = out \cup Outstanding(conns'[i])
      /\ UNCHANGED <<hosts, executed, refused>>
    BY DEF Opens, TcpInv, TableInv
<1>3. /\ Slot' = Slot /\ Peer' = Peer /\ conns'[i] = e
      /\ \A j \in Slot \ {i} : conns'[j] = conns[j]
    BY <1>1, <1>2 DEF Slot, Peer
<1>4. /\ e \in Conn /\ e.st = c.st /\ e.peer = c.peer /\ e.rcv_nxt = c.rcv_nxt /\ e.iss = iss + 1
      /\ e.app = conns[i].app
    <2>1. conns[i].app \in App
        BY <1>1 DEF Sound, Conn
    <2>2. iss' \in Nat /\ iss' = iss + 1
        BY <1>2
    <2>3. e \in Conn
        BY <2>1, <2>2 DEF Conn
    <2>4. e.st = c.st /\ e.peer = c.peer /\ e.rcv_nxt = c.rcv_nxt /\ e.iss = iss' /\ e.app = conns[i].app
        BY DEF Conn
    <2> QED
        BY <2>2, <2>3, <2>4
<1> HIDE DEF e
<1>5. Sound(e)
    BY <1>1, <1>4 DEF Sound, Finishing
<1>6. TableInv'
    <2>1. \A j \in Slot : Sound(conns'[j])
        BY <1>3, <1>5 DEF TcpInv, TableInv
    <2>2. \A j \in Slot : conns'[j].st # "CLOSED" => conns'[j].iss \in 1 .. iss' /\ conns'[j].peer \in Peer
        BY <1>2, <1>3, <1>4 DEF TcpInv, TableInv
    <2>3. \A j \in Slot \ {i} : conns[j].iss # iss + 1
        <3>1. ASSUME NEW j \in Slot PROVE conns[j].iss \in 0 .. iss
            <4>1. Sound(conns[j]) /\ (conns[j].st # "CLOSED" => conns[j].iss \in 1 .. iss)
                BY DEF TcpInv, TableInv
            <4> QED
                BY <1>2, <4>1 DEF Sound
        <3> QED
            BY <1>2, <3>1
    <2>4. \A j, k \in Slot : j # k /\ conns'[j].iss = conns'[k].iss => conns'[j].iss = 0
        BY <1>3, <1>4, <2>3 DEF TcpInv, TableInv
    <2>5. OneSlotPerPeer'
        BY <1>3, <1>4 DEF TcpInv, TableInv, OneSlotPerPeer
    <2> QED
        BY <1>2, <1>3, <2>1, <2>2, <2>4, <2>5 DEF TcpInv, TableInv
<1>7. HostsInv'
    <2>1. \A o \in Outstanding(e) : o.iss \in 1 .. iss'
        <3>1. e.iss \in 1 .. iss'
            BY <1>2, <1>4
        <3> QED
            BY <1>5, <3>1, OutNumbered
    <2> QED
        BY <1>2, <1>3, <2>1, HostsKeep DEF TcpInv
<1>8. AnsweredInv'
    <2>1. \A j \in Slot : conns'[j].st = "ESTABLISHED" => j # i
        BY <1>3, <1>4
    <2>2. e.iss # hosts[e.peer].iss
        BY <1>2, <1>4 DEF TcpInv, HostsInv, Host
    <2>3. ClosesAfterAnswer'
        BY <1>2, <1>3, <1>4 DEF TcpInv, AnsweredInv, ClosesAfterAnswer
    <2> QED
        BY <1>2, <1>3, <2>1, <2>2, <2>3 DEF TcpInv, AnsweredInv
<1> QED
    BY <1>6, <1>7, <1>8 DEF TcpInv

LEMMA ConnectInv == TcpInv /\ uip_connect => TcpInv' /\ UNCHANGED <<executed, refused>>
<1> SUFFICES ASSUME TcpInv, uip_connect PROVE TcpInv' /\ UNCHANGED <<executed, refused>>
    OBVIOUS
<1> DEFINE c == [Unused EXCEPT !.st = "SYN_SENT", !.peer = Srv]
<1>1. PICK i \in FreeSlot : Opens(i, c)
    BY DEF uip_connect
<1>2. c \in Conn /\ c.st = "SYN_SENT" /\ c.peer = Srv
    <2>1. Unused \in Conn
        BY UnusedSound DEF Sound
    <2> QED
        BY <2>1 DEF Conn, States
<1> HIDE DEF c
<1>3. Srv \in Peer /\ \A j \in Slot : conns[j].st = "CLOSED"
    BY DEF uip_connect, TcpInv, TableInv
<1>4. TcpInv'
    BY <1>1, <1>2, <1>3, OpensInv
<1> QED
    BY <1>1, <1>4 DEF Opens

LEMMA ListenInv ==
    ASSUME TcpInv, NEW p \in Peer, NEW seg \in Segments(p), Listen(seg)
    PROVE  TcpInv' /\ UNCHANGED <<executed, refused>>
<1> DEFINE c == [Unused EXCEPT !.st = "SYN_RCVD", !.peer = seg.peer, !.rcv_nxt = seg.seq + 1]
<1>1. PICK i \in FreeSlot : Opens(i, c)
    BY DEF Listen
<1>2. Sane(seg, p) /\ seg.syn /\ seg.ack = NoAck
    BY SegmentsSane DEF Listen, TcpInv
<1>3. p \in Client /\ p # Srv /\ seg.peer = p /\ seg.seq = 0
    BY <1>2 DEF Sane, TcpInv, HostsInv
<1>4. c \in Conn /\ c.st = "SYN_RCVD" /\ c.peer = p /\ c.rcv_nxt = 1
    <2>1. Unused \in Conn
        BY UnusedSound DEF Sound
    <2>2. seg.seq + 1 = 1 /\ 1 \in 0 .. N + 2
        BY <1>3, UipTcpAssumption
    <2> QED
        BY <1>3, <2>1, <2>2 DEF Conn, States
<1> HIDE DEF c
<1>5. \A j \in Slot : conns[j].st # "CLOSED" => conns[j].peer # p
    BY <1>3, FoundIsMine DEF Listen, TcpInv
<1>6. TcpInv'
    BY <1>1, <1>3, <1>4, <1>5, OpensInv
<1> QED
    BY <1>1, <1>6 DEF Opens

LEMMA ResetInv ==
    ASSUME TcpInv, NEW seg, Reset(seg)
    PROVE  TcpInv' /\ UNCHANGED <<executed, refused>>
<1>1. PICK i \in Found(seg) : conns' = [conns EXCEPT ![i] = Ends(@, "ABORT")]
    BY DEF Reset
<1>2. i \in Slot /\ Sound(conns[i])
    BY FoundIsMine DEF TcpInv, TableInv
<1>3. UNCHANGED <<iss, hosts, out, executed, refused>>
    BY DEF Reset
<1>4. /\ DOMAIN conns' = Slot /\ Peer' = Peer
      /\ conns'[i] = Closed(conns[i])
      /\ \A j \in Slot \ {i} : conns'[j] = conns[j]
    BY <1>1, <1>2, <1>3, EndsIsClosed DEF Slot, Peer
<1>5. \A j \in Slot : Sound(conns'[j]) /\ (conns'[j] = conns[j] \/ conns'[j].st = "CLOSED")
    BY <1>2, <1>4, ClosedSound DEF TcpInv, TableInv
<1>6. TableInv'
    BY <1>3, <1>4, <1>5, TableKeeps DEF TcpInv
<1>7. AnsweredInv'
    BY <1>3, <1>4, <1>5, AnsweredKeeps DEF Finishing
<1>8. HostsInv'
    BY <1>3, HostsKeep DEF TcpInv, TableInv
<1> QED
    BY <1>3, <1>6, <1>7, <1>8 DEF TcpInv

\* A segment in turn: the command is carried out only here.
LEMMA ReceiveInv ==
    ASSUME TcpInv, NEW p \in Peer, NEW seg \in Segments(p), Receive(seg)
    PROVE  /\ TcpInv'
           /\ \/ UNCHANGED <<executed, refused>>
              \/ \E c \in Client : Commands!Execute(c) \/ Commands!Refuse(c)
<1>1. PICK i \in Found(seg) :
          /\ InTurn(conns[i], seg)
          /\ conns' = [conns EXCEPT ![i] = Process(conns[i], seg).conn]
          /\ out' = out \cup Outstanding(Process(conns[i], seg).conn)
          /\ executed' = IF Process(conns[i], seg).act = "execute"
                         THEN Append(executed, Process(conns[i], seg).conn.app.got)
                         ELSE executed
          /\ refused' = IF Process(conns[i], seg).act = "refuse"
                        THEN refused \cup {seg.peer} ELSE refused
    BY DEF Receive
<1> DEFINE c   == conns[i]
           e   == Process(conns[i], seg).conn
           act == Process(conns[i], seg).act
<1>2. Sane(seg, p) /\ (p # Srv => seg.ack \in {NoAck} \cup Acks(p))
    BY SegmentsSane DEF TcpInv
<1>3. /\ i \in Slot /\ c.st # "CLOSED" /\ c.peer = p /\ seg.peer = p
      /\ Sound(c) /\ c.iss \in 1 .. iss
    BY <1>2, FoundIsMine DEF Sane, TcpInv, TableInv
<1>4. /\ Steps(c, e, act)
      /\ (e.st = "ESTABLISHED" /\ p # Srv) \/ act # "none" =>
             \/ c.st = "ESTABLISHED" /\ p # Srv
             \/ c.st = "SYN_RCVD" /\ AckData(c, seg)
    BY <1>1, <1>2, <1>3, ProcessStep
<1>5. c.st = "SYN_RCVD" => p # Srv
    BY <1>3, UipTcpAssumption DEF Sound
<1>6. (e.st = "ESTABLISHED" /\ p # Srv) \/ act # "none" =>
          /\ p # Srv
          /\ c.st \in {"SYN_RCVD", "ESTABLISHED"}
          /\ c.iss = hosts[p].iss
          /\ hosts[p].phase # "connecting"
    <2>1. c.st = "ESTABLISHED" /\ p # Srv => c.iss = hosts[p].iss /\ hosts[p].phase # "connecting"
        BY <1>3 DEF TcpInv, AnsweredInv
    <2>2. c.st = "SYN_RCVD" /\ AckData(c, seg) =>
              c.iss = hosts[p].iss /\ hosts[p].phase # "connecting"
        BY <1>2, <1>3, <1>5, AckIsOurs
    <2> QED
        BY <1>4, <1>5, <2>1, <2>2
<1>7. /\ UNCHANGED <<iss, hosts>> /\ DOMAIN conns' = Slot /\ Slot' = Slot /\ Peer' = Peer
      /\ conns'[i] = e
      /\ \A j \in Slot \ {i} : conns'[j] = conns[j]
    BY <1>1, <1>3 DEF Receive, Slot, Peer
<1>8. /\ executed' = IF act = "execute" THEN Append(executed, e.app.got) ELSE executed
      /\ refused' = IF act = "refuse" THEN refused \cup {p} ELSE refused
    BY <1>1, <1>3
<1>9. out' = out \cup Outstanding(e)
    BY <1>1
<1> HIDE DEF c, e, act
<1>10. TableInv'
    <2>1. \A j \in Slot :
              /\ Sound(conns'[j])
              /\ conns'[j].st # "CLOSED" =>
                    /\ conns[j].st # "CLOSED"
                    /\ conns'[j].peer = conns[j].peer
                    /\ conns'[j].iss = conns[j].iss
        BY <1>3, <1>4, <1>7 DEF TcpInv, TableInv, Steps, c
    <2> QED
        BY <1>7, <2>1, TableKeeps DEF TcpInv
<1>11. HostsInv'
    <2>1. \A o \in Outstanding(e) : o.iss \in 1 .. iss
        <3>1. Sound(e) /\ (e.st # "CLOSED" => e.iss \in 1 .. iss)
            BY <1>3, <1>4 DEF Steps
        <3> QED
            BY <3>1, OutNumbered
    <2> QED
        BY <1>7, <1>9, <2>1, HostsKeep DEF TcpInv, TableInv
<1>12. CASE act = "none"
    <2>1. UNCHANGED <<executed, refused>>
        BY <1>8, <1>12
    <2>2. \A j \in Slot :
              /\ conns'[j].st # "CLOSED" =>
                    conns'[j].peer = conns[j].peer /\ conns'[j].iss = conns[j].iss
              /\ conns'[j].st = "SYN_RCVD" => conns[j].st = "SYN_RCVD"
              /\ conns'[j].st \in Finishing => conns[j].st \in Finishing
              /\ conns'[j].st = "ESTABLISHED" /\ conns[j].peer # Srv =>
                    \/ conns[j].st = "ESTABLISHED"
                    \/ /\ conns[j].st = "SYN_RCVD"
                       /\ conns[j].iss = hosts[conns[j].peer].iss
                       /\ hosts[conns[j].peer].phase # "connecting"
        BY <1>3, <1>4, <1>6, <1>7, <1>12 DEF Steps, c
    <2>3. AnsweredInv'
        BY <1>7, <2>1, <2>2, AnsweredKeeps
    <2> QED
        BY <1>10, <1>11, <2>1, <2>3 DEF TcpInv
<1>13. CASE act # "none"
    <2>1. e.st = "FIN_WAIT_1" /\ e.peer = p /\ e.iss = c.iss /\ act \in {"execute", "refuse"}
        BY <1>3, <1>4, <1>13 DEF Steps
    <2>2. /\ p # Srv /\ p \in Client
          /\ c.st \in {"SYN_RCVD", "ESTABLISHED"}
          /\ c.iss = hosts[p].iss
          /\ hosts[p].phase # "connecting"
        BY <1>6, <1>13 DEF TcpInv, HostsInv
    <2>3. ~Contains(executed, Whole(p))
        BY <1>3, <2>2 DEF TcpInv, AnsweredInv, c
    <2>4. \A j \in Slot \ {i} : conns[j].st # "CLOSED" => conns[j].peer # p
        BY <1>3 DEF TcpInv, TableInv, OneSlotPerPeer, c
    <2>5. executed \in Seq({Whole(q) : q \in Client})
        BY DEF TcpInv, AnsweredInv
    <2>6. CASE act = "execute"
        <3>1. p \in Good /\ executed' = Append(executed, Whole(p)) /\ refused' = refused
            BY <1>3, <1>4, <1>8, <2>6 DEF Steps
        <3>2. Commands!Execute(p)
            BY <2>3, <3>1 DEF Commands!Execute, Commands!Contains, Contains
        <3>3. /\ executed' \in Seq({Whole(q) : q \in Client})
              /\ \A q : Contains(executed', Whole(q)) <=> Contains(executed, Whole(q)) \/ q = p
            <4>1. /\ executed' \in Seq({Whole(q) : q \in Client})
                  /\ \A x : Contains(executed', x) <=> Contains(executed, x) \/ x = Whole(p)
                BY <2>2, <2>5, <3>1, AppendContains
            <4> QED
                BY <4>1, WholeDiffers
        <3>4. ASSUME NEW j \in Slot, conns'[j].st \in {"SYN_RCVD", "ESTABLISHED"}, conns'[j].peer # Srv
              PROVE  /\ conns'[j].st = "ESTABLISHED" =>
                           /\ conns'[j].iss = hosts[conns'[j].peer].iss
                           /\ hosts[conns'[j].peer].phase # "connecting"
                     /\ conns'[j].iss = hosts[conns'[j].peer].iss =>
                           ~Contains(executed', Whole(conns'[j].peer))
            <4>1. j # i /\ conns'[j] = conns[j] /\ conns[j].peer # p
                BY <1>7, <2>1, <2>4, <3>4
            <4> QED
                BY <3>3, <3>4, <4>1 DEF TcpInv, AnsweredInv
        <3>5. \A q \in Peer \ {Srv} : Contains(executed', Whole(q)) => hosts[q].phase # "connecting"
            BY <2>2, <3>3 DEF TcpInv, AnsweredInv
        <3>6. ClosesAfterAnswer'
            <4>1. \A j \in Slot \ {i} : conns'[j].st \in Finishing =>
                      Contains(executed', Whole(conns'[j].peer)) \/ conns'[j].peer \in refused
                BY <1>7, <3>3 DEF TcpInv, AnsweredInv, ClosesAfterAnswer, Finishing
            <4>2. Contains(executed', Whole(conns'[i].peer))
                BY <1>7, <2>1, <3>3
            <4> QED
                BY <1>7, <3>1, <4>1, <4>2 DEF ClosesAfterAnswer, Finishing
        <3>7. AnsweredInv'
            BY <1>7, <3>3, <3>4, <3>5, <3>6 DEF AnsweredInv
        <3> QED
            BY <1>10, <1>11, <2>2, <3>2, <3>7 DEF TcpInv
    <2>7. CASE act = "refuse"
        <3>1. p \notin Good /\ executed' = executed /\ refused' = refused \cup {p}
            BY <1>3, <1>4, <1>8, <2>7 DEF Steps
        <3>2. Commands!Refuse(p)
            BY <3>1 DEF Commands!Refuse
        <3>3. \A j \in Slot : conns'[j].st \in {"SYN_RCVD", "ESTABLISHED"} => conns'[j] = conns[j]
            BY <1>7, <2>1
        <3>4. ClosesAfterAnswer'
            BY <1>7, <2>1, <3>1 DEF TcpInv, AnsweredInv, ClosesAfterAnswer
        <3>5. AnsweredInv'
            BY <1>7, <3>1, <3>3, <3>4 DEF TcpInv, AnsweredInv
        <3> QED
            BY <1>10, <1>11, <2>2, <3>2, <3>5 DEF TcpInv
    <2> QED
        BY <2>1, <2>6, <2>7
<1> QED
    BY <1>12, <1>13
-----------------------------------------------------------------------------
(* The steps of the other ends, and the theorems                               *)

\* A peer's kernel takes up the connection the clock answers once, and then keeps to it.
LEMMA OtherEndsInv == TcpInv /\ OtherEnds => TcpInv' /\ UNCHANGED <<executed, refused>>
<1> SUFFICES ASSUME TcpInv, NEW p \in Peer, Opened(p) \/ Acknowledges(p) \/ GivesUp(p)
             PROVE  TcpInv' /\ UNCHANGED <<executed, refused>>
    BY DEF OtherEnds
<1>1. UNCHANGED <<conns, iss, out, executed, refused>>
    BY DEF Opened, Acknowledges, GivesUp
<1>2. hosts[p] \in Host /\ iss \in Nat
    BY DEF TcpInv, TableInv, HostsInv
<1>3. /\ Peer' = Peer
      /\ \A q \in Peer \ {p} : hosts'[q] = hosts[q]
      /\ hosts'[p] \in Host /\ hosts'[p].iss <= iss
      /\ hosts'[p].phase \in {"connecting", "stale"} => hosts'[p].acked = 0
      /\ p # Srv => hosts'[p].phase # "stale"
      /\ hosts[p].phase # "connecting" => hosts'[p].iss = hosts[p].iss
      /\ p # Srv /\ hosts[p].phase # "connecting" => hosts'[p].phase # "connecting"
    <2>1. CASE Opened(p)
        <3>1. PICK o \in out :
                  hosts' = [hosts EXCEPT ![p] = [phase |-> "open", iss |-> o.iss, acked |-> 1]]
            BY <2>1 DEF Opened
        <3>2. o.iss \in 1 .. iss /\ hosts[p].phase = "connecting"
            BY <2>1 DEF Opened, TcpInv, HostsInv
        <3>3. /\ hosts'[p] = [phase |-> "open", iss |-> o.iss, acked |-> 1]
              /\ Peer' = Peer /\ \A q \in Peer \ {p} : hosts'[q] = hosts[q]
            BY <3>1 DEF Peer
        <3>4. hosts'[p] \in Host
            BY <3>2, <3>3, <1>2 DEF Host
        <3> QED
            BY <1>2, <3>2, <3>3, <3>4
    <2>2. CASE Acknowledges(p)
        <3>1. /\ hosts' = [hosts EXCEPT ![p].acked = hosts[p].acked + 1]
              /\ hosts[p].phase = "open"
            BY <2>2 DEF Acknowledges
        <3>2. /\ hosts'[p] = [hosts[p] EXCEPT !.acked = hosts[p].acked + 1]
              /\ Peer' = Peer /\ \A q \in Peer \ {p} : hosts'[q] = hosts[q]
            BY <3>1 DEF Peer
        <3>3. /\ hosts'[p] \in Host /\ hosts'[p].phase = "open" /\ hosts'[p].iss = hosts[p].iss
            BY <1>2, <3>1, <3>2 DEF Host
        <3> QED
            BY <3>2, <3>3 DEF TcpInv, HostsInv
    <2>3. CASE GivesUp(p)
        <3>1. PICK ph \in {"connecting", "gone"} :
                  /\ hosts' = [hosts EXCEPT ![p].phase = ph]
                  /\ ph = "connecting" => hosts[p].phase = "stale"
            BY <2>3 DEF GivesUp
        <3>2. /\ hosts'[p] = [hosts[p] EXCEPT !.phase = ph]
              /\ Peer' = Peer /\ \A q \in Peer \ {p} : hosts'[q] = hosts[q]
            BY <3>1 DEF Peer
        <3>3. /\ hosts'[p] \in Host /\ hosts'[p].phase = ph /\ hosts'[p].iss = hosts[p].iss
              /\ hosts'[p].acked = hosts[p].acked
            BY <1>2, <3>1, <3>2 DEF Host
        <3> QED
            BY <3>1, <3>2, <3>3 DEF TcpInv, HostsInv
    <2> QED
        BY <2>1, <2>2, <2>3
<1>4. TableInv'
    BY <1>1, <1>3 DEF TcpInv, TableInv, Slot, OneSlotPerPeer
<1>5. HostsInv'
    BY <1>1, <1>3 DEF TcpInv, HostsInv
<1>6. AnsweredInv'
    <2>1. ASSUME NEW i \in Slot, conns[i].st = "ESTABLISHED", conns[i].peer # Srv
          PROVE  /\ conns[i].iss = hosts'[conns[i].peer].iss
                 /\ hosts'[conns[i].peer].phase # "connecting"
        <3>1. conns[i].peer \in Peer
            BY <2>1 DEF TcpInv, TableInv
        <3> QED
            BY <1>3, <2>1, <3>1 DEF TcpInv, AnsweredInv
    <2>2. ASSUME NEW i \in Slot, conns[i].st \in {"SYN_RCVD", "ESTABLISHED"}, conns[i].peer # Srv,
                 conns[i].iss = hosts'[conns[i].peer].iss
          PROVE  ~Contains(executed, Whole(conns[i].peer))
        <3>1. conns[i].peer \in Peer
            BY <2>2 DEF TcpInv, TableInv
        <3>2. CASE hosts[conns[i].peer].phase = "connecting"
            BY <2>2, <3>1, <3>2 DEF TcpInv, AnsweredInv
        <3>3. CASE hosts[conns[i].peer].phase # "connecting"
            BY <1>3, <2>2, <3>1, <3>3 DEF TcpInv, AnsweredInv
        <3> QED
            BY <3>2, <3>3
    <2>3. \A q \in Peer \ {Srv} : Contains(executed, Whole(q)) => hosts'[q].phase # "connecting"
        BY <1>3 DEF TcpInv, AnsweredInv
    <2>4. ClosesAfterAnswer'
        BY <1>1 DEF TcpInv, AnsweredInv, ClosesAfterAnswer, Slot
    <2> QED
        BY <1>1, <1>3, <2>1, <2>2, <2>3, <2>4 DEF TcpInv, AnsweredInv, Slot
<1> QED
    BY <1>1, <1>4, <1>5, <1>6 DEF TcpInv

LEMMA NextInv ==
    ASSUME TcpInv, [TcpNext]_tcpVars
    PROVE  TcpInv' /\ [Commands!ServiceNext]_<<executed, refused>>
<1>1. CASE uip_connect
    BY <1>1, ConnectInv
<1>2. CASE uip_periodic
    BY <1>2, PeriodicInv
<1>3. CASE tcp_input
    <2>1. PICK p \in Peer : \E seg \in Segments(p) : Listen(seg) \/ Reset(seg) \/ Receive(seg)
        BY <1>3 DEF tcp_input
    <2>2. PICK seg \in Segments(p) : Listen(seg) \/ Reset(seg) \/ Receive(seg)
        BY <2>1
    <2>3. CASE Listen(seg)
        BY <2>3, ListenInv
    <2>4. CASE Reset(seg)
        BY <2>4, ResetInv
    <2>5. CASE Receive(seg)
        BY <2>5, ReceiveInv DEF Commands!ServiceNext
    <2> QED
        BY <2>2, <2>3, <2>4, <2>5
<1>4. CASE OtherEnds
    BY <1>4, OtherEndsInv
<1>5. CASE UNCHANGED tcpVars
    <2>1. UNCHANGED <<conns, iss, hosts, out, executed, refused>>
        BY <1>5 DEF tcpVars
    <2>2. Slot' = Slot /\ Peer' = Peer
        BY <2>1 DEF Slot, Peer
    <2> QED
        BY <2>1, <2>2 DEF TcpInv, TableInv, HostsInv, AnsweredInv, OneSlotPerPeer, ClosesAfterAnswer
<1> QED
    BY <1>1, <1>2, <1>3, <1>4, <1>5 DEF TcpNext

\* Whatever the network does, a client has one connection, the clock has read what
\* it acknowledged, and it closes on a client only after its answer.
THEOREM ConnectionsAreSound == TcpSpec => []ConnectionsInv
<1>1. TcpInv /\ [TcpNext]_tcpVars => TcpInv'
    BY NextInv
<1> QED
    BY InitInv, InvSuffices, <1>1, PTL DEF TcpSpec

\* Whatever the network does, a command is carried out at most once, whole, as it
\* was sent and with the password.
THEOREM CommandsAreServed == TcpSpec => CommandsService
<1>1. TcpInit => Commands!ServiceInit
    BY DEF TcpInit, Commands!ServiceInit
<1>2. TcpInv /\ [TcpNext]_tcpVars => TcpInv'
    BY NextInv
<1>3. TcpInv /\ [TcpNext]_tcpVars => [Commands!ServiceNext]_<<executed, refused>>
    BY NextInv
<1> QED
    BY InitInv, <1>1, <1>2, <1>3, PTL
    DEF TcpSpec, CommandsService, Commands!Service, Commands!serviceVars
=============================================================================
