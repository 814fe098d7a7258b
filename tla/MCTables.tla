------------------------------- MODULE MCTables -------------------------------
(* The tables, buffers and sums of the clock on small instances: they share no *)
(* state, a behaviour shows one of them, and the others stand still.           *)
EXTENDS Arp, IpInput, Forward, EncSend, Server, Psock, PsockSend, UipNumbers, ScheduleOrder

VARIABLE part

\* Two hosts of the local network, and the router.
MCHostAddr == {<<1, 1>>, <<1, 2>>, <<1, 3>>}
MCHostConf == {[host |-> <<1, 9>>, router |-> <<1, 3>>, local |-> {<<1, 2>>, <<1, 3>>}]}

\* Two packets of other hosts and one of the clock's.
MCSent == {[src |-> "a", dest |-> "b", proto |-> "other", id |-> 1],
           [src |-> "b", dest |-> "all", proto |-> "other", id |-> 1],
           [src |-> "us", dest |-> "b", proto |-> "other", id |-> 1]}

\* handle_input reads a command of the form "kind_time-text_", another application a
\* buffer full before a text: whatever comes, in whatever segments.
MCStream == UNION {[1 .. n -> Letter] : n \in 0 .. 6}
MCReads == {<<"_", "-", "_">>, <<READBUF, "_">>}

\* Texts that fit every window.
MCTexts == <<2, 1, 2>>

\* Bytes and digits at the ends of their range, and the type of an echo request.
MCBytes   == UNION {[1 .. n -> {0, 1, 7, 8, 15}] : n \in 0 .. 4}
MCNumbers == [1 .. 4 -> {0, 1, 15}]

\* The ends of every field's range, so that every carry occurs.
MCYear   == {2011, 2012}
MCMonth  == {1, 12}
MCDay    == {1, 31}
MCHour   == {0, 23}
MCMinute == {0, 59}

networkVars == <<arpVars, ipVars, fwVars>>
dataVars    == <<psockVars, numbersVars, s, t>>
tableVars   == <<part, networkVars, ringVars, txVars, serverVars, sendVars, dataVars>>

TablesInit ==
    /\ part \in {"arp", "ip", "forward", "ring", "transmit", "server", "send",
                "psock", "numbers", "order"}
    /\ ArpInit /\ IpInit /\ FwInit /\ RingInit /\ TransmitInit /\ ServerInit /\ SendInit
    /\ PsockInit   /\ (part # "psock" => stream = <<>> /\ Len(reads) = 3)
    /\ NumbersInit /\ (part # "numbers" => op = [number |-> <<0, 0, 0, 0>>, length |-> 1, data |-> <<>>])
    /\ Init        /\ (part # "order" => s = CreateSchedule(2011, 1, 1, 0, 0) /\ t = s)

Network ==
    /\ \/ part = "arp" /\ ArpNext /\ UNCHANGED <<ipVars, fwVars>>
       \/ part = "ip" /\ IpNext /\ UNCHANGED <<arpVars, fwVars>>
       \/ part = "forward" /\ FwNext /\ UNCHANGED <<arpVars, ipVars>>
    /\ UNCHANGED <<ringVars, txVars, serverVars, sendVars, dataVars>>

Ring ==
    /\ \/ part = "ring" /\ RingNext /\ UNCHANGED txVars
       \/ part = "transmit" /\ TransmitNext /\ UNCHANGED <<chip, ringDriver>>
    /\ UNCHANGED <<networkVars, serverVars, sendVars, dataVars>>

Serves == part = "server" /\ ServerNext /\ UNCHANGED <<networkVars, ringVars, txVars, sendVars, dataVars>>

Sends == part = "send" /\ SendNext /\ UNCHANGED <<networkVars, ringVars, txVars, serverVars, dataVars>>

Data ==
    /\ \/ part = "psock" /\ PsockNext /\ UNCHANGED <<numbersVars, s, t>>
       \/ part = "numbers" /\ NumbersNext /\ UNCHANGED <<psockVars, s, t>>
       \/ part = "order" /\ Next /\ UNCHANGED <<psockVars, numbersVars>>
    /\ UNCHANGED <<networkVars, ringVars, txVars, serverVars, sendVars>>

\* A command is read and a sum computed once, the bounds are reached, the server stops.
Done ==
    /\ \/ part = "psock" /\ Finished(tokens)
       \/ part = "numbers"
       \/ part = "transmit" /\ AllTransmitted
       \/ part = "server" /\ (server = "stopped" \/ Len(thread) = Registrations)
    /\ UNCHANGED <<networkVars, ringVars, txVars, serverVars, sendVars, dataVars>>

TablesNext == UNCHANGED part /\ (Network \/ Ring \/ Serves \/ Sends \/ Data \/ Done)

\* The other parts are checked for safety only.
TablesSpec == TablesInit /\ [][TablesNext]_tableVars /\ SendFairness
=============================================================================
