-------------------------------- MODULE Psock --------------------------------
(* The reading side of protosockets (psock.c) under handle_input of httpd.c:   *)
(* bytes arrive in segments of any size, with polls between them, and are read *)
(* up to one end marker after the other into a buffer they need not fit.  An   *)
(* application may also read a buffer full (psock_readbuf); httpd.c does not.  *)
EXTENDS Rounds, SequencesExt

CONSTANTS
    Letter,   \* a byte
    Stream,   \* what a client may send
    Reads,    \* environment: what an application reads in order, to an end marker
              \* with PSOCK_READTO, or with PSOCK_READBUF; handle_input is one of them
    READBUF,  \* a buffer full
    BufSize   \* sizeof(s->inputbuf) - 1

ASSUME PsockAssumption ==
    /\ Stream \subseteq Seq(Letter)
    /\ \A r \in Reads : r \in Seq(Range(r)) /\ r # <<>>
    /\ BufSize \in Nat \ {0}

VARIABLES
    reads,    \* what the application reads
    stream,   \* what the client sends
    arrived,  \* the bytes of it that uIP has handed over
    sin,      \* the protosocket: its state, its buffer, and the bytes at readptr
    tokens    \* what the application found in its buffer after every read

psockVars == <<reads, stream, arrived, sin, tokens>>

Finished(found) == Len(found) = Len(reads)

\* Mutant of Kept: room for the terminating zero is not kept.
KeptOneMore(bytes) == SubSeq(bytes, 1, IF Len(bytes) < BufSize + 1 THEN Len(bytes) ELSE BufSize + 1)

Kept(bytes) == SubSeq(bytes, 1, IF Len(bytes) < BufSize THEN Len(bytes) ELSE BufSize)

\* The bytes of s up to the first m, and none if there is no m.
UpTo(s, m) == LET at == {k \in DOMAIN s : s[k] = m} IN IF at = {} THEN <<>> ELSE SubSeq(s, 1, Min(at))

\* Where an application can stand: its protosocket, its tokens, and whether it goes on.
Sock    == [state : {"none", "read", "blocked"}, buf : Seq(Letter), rest : Seq(Letter)]
Reading == [sock : Sock, tokens : Seq(Seq(Letter)), on : BOOLEAN]

PSOCK_INIT == [state |-> "none", buf |-> <<>>, rest |-> <<>>]

\* Mutant of psock_newdata: the state stays as it is.
psock_newdataAgain(p, data) ==
    IF p.rest # <<>> THEN [sock |-> p, new |-> TRUE]
    ELSE IF p.state = "read" THEN [sock |-> p, new |-> FALSE]
    ELSE [sock |-> p, new |-> data # <<>>]

\* PT_WAIT_UNTIL(psock_newdata), where uIP hands over data with the event, or
\* nothing with a poll: the protosocket after the question, and whether
\* there is data.  A segment read to its end is not read again.
psock_newdata(p, data) ==
    IF p.rest # <<>> THEN [sock |-> p, new |-> TRUE]
    ELSE IF p.state = "read" THEN [sock |-> [p EXCEPT !.state = "blocked"], new |-> FALSE]
    ELSE [sock |-> p, new |-> data # <<>>]

\* One round of the loop of psock_readto and buf_bufto: the bytes go to the buffer
\* while it has room, and are thrown away after that.
bufto(p, m) ==
    LET upto  == UpTo(p.rest, m)
        taken == IF upto = <<>> THEN p.rest ELSE upto
    IN  [sock  |-> [p EXCEPT !.buf = Kept(@ \o taken),
                             !.rest = SubSeq(@, Len(taken) + 1, Len(@))],
         found |-> upto # <<>>]

\* Mutant of bufdata: a segment that fills the buffer is taken whole.
bufdataWhole(p) ==
    LET left == BufSize - Len(p.buf)
    IN  [sock  |-> [p EXCEPT !.buf = Kept(@ \o p.rest), !.rest = <<>>],
         found |-> Len(p.rest) >= left]

\* One round of the loop of psock_readbuf and buf_bufdata: as many bytes as fit.
bufdata(p) ==
    LET left  == BufSize - Len(p.buf)
    IN  [sock  |-> [p EXCEPT !.buf = Kept(@ \o p.rest), !.rest = SubSeq(@, left + 1, Len(@))],
         found |-> Len(p.rest) >= left]

\* One round of a read: the application waits, or reads what there is, up to its next
\* token if it can.
ReadRound(r, data) ==
    LET asked  == psock_newdata(r.sock, data)
        ready  == IF r.sock.rest = <<>> THEN [asked.sock EXCEPT !.state = "read", !.rest = data] ELSE r.sock
        wanted == reads[Len(r.tokens) + 1]
        round  == IF wanted = READBUF THEN bufdata(ready) ELSE bufto(ready, wanted)
    IN  IF Finished(r.tokens) \/ ~r.on THEN r
        ELSE IF ~asked.new THEN [r EXCEPT !.sock = asked.sock, !.on = FALSE]
        ELSE IF round.found
        THEN [r EXCEPT !.sock = [round.sock EXCEPT !.buf = <<>>], !.tokens = Append(@, round.sock.buf)]
        ELSE [r EXCEPT !.sock = round.sock]

\* The application from where it stands until it waits or has read its last token: by
\* then, as every round but two reads a token.
handle_input(p, found, data) ==
    LET round[r \in Reading] == ReadRound(r, data)
    IN  AfterRounds(Len(reads) + 1, round, [sock |-> p, tokens |-> found, on |-> TRUE])

Event(data) ==
    LET run == handle_input(sin, tokens, data)
    IN  /\ ~Finished(tokens)
        /\ sin' = run.sock
        /\ tokens' = run.tokens
        /\ arrived' = arrived \o data
        /\ UNCHANGED <<reads, stream>>

\* uIP calls the application with the next bytes, or because of the timer.
Arrives(n) == n > 0 /\ Event(SubSeq(stream, Len(arrived) + 1, Len(arrived) + n))
Poll       == Event(<<>>)

PsockInit ==
    /\ reads \in Reads
    /\ stream \in Stream
    /\ arrived = <<>>
    /\ sin = PSOCK_INIT
    /\ tokens = <<>>

PsockNext == Poll \/ \E n \in 1 .. Len(stream) - Len(arrived) : Arrives(n)

PsockSpec == PsockInit /\ [][PsockNext]_psockVars

-----------------------------------------------------------------------------
(* Properties.                                                                 *)

\* How much of the bytes the next read takes, and none if it waits for more.
Taken(s, wanted) ==
    IF wanted # READBUF THEN UpTo(s, wanted)
    ELSE IF Len(s) < BufSize THEN <<>> ELSE SubSeq(s, 1, BufSize)

\* The next read of what is left, if it finds what it wants.
Split(left) ==
    LET upto == Taken(left.rest, reads[Len(left.found) + 1])
    IN  IF Finished(left.found) \/ upto = <<>> THEN left
        ELSE [found |-> Append(left.found, Kept(upto)),
              rest  |-> SubSeq(left.rest, Len(upto) + 1, Len(left.rest))]

\* The tokens of a byte string: one read after the other.
Tokens(s) ==
    LET split[left \in [found : Seq(Seq(Letter)), rest : Seq(Letter)]] == Split(left)
    IN  AfterRounds(Len(reads), split, [found |-> <<>>, rest |-> s]).found

\* What is read is what was sent, whatever segments it came in and whatever polls
\* came in between; it is read as soon as it has arrived, and fits the buffer.
ReadsWhatArrived == tokens = Tokens(arrived) /\ Len(sin.buf) <= BufSize
=============================================================================
