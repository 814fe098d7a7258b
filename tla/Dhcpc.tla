-------------------------------- MODULE Dhcpc --------------------------------
(***************************************************************************)
(* The DHCP client: the protothread handle_dhcp, which finds a server, asks*)
(* it for the address it offered and configures the clock once with what   *)
(* the acknowledgement says.  It runs whenever a message arrives on its    *)
(* port and at every poll.                                                 *)
(*                                                                         *)
(* The transaction id is a constant, so that an answer to an earlier       *)
(* message, of before a restart even, is taken like any other: net holds   *)
(* every message ever sent, and each may arrive at any time, again, or     *)
(* never.  The servers, their pools and the other hosts are external.      *)
(***************************************************************************)
EXTENDS Integers

CONSTANTS
    Server,         \* the DHCP servers of the network
    Pool,           \* external: the addresses each server gives out
    NoAddr,         \* the address 0.0.0.0
    NoServer,       \* a server id or router that was never set
    DiscoverLimit,  \* 60: seconds from where on the pause is not doubled
    RequestLimit,   \* 10: seconds from where on a request is given up
    MaxRestarts     \* bound: how often the clock is switched off and on

ASSUME DhcpcAssumption ==
    /\ NoServer \notin Server
    /\ \A p, q \in Server : NoAddr \notin Pool[p] /\ (p # q => Pool[p] \cap Pool[q] = {})
    /\ DiscoverLimit \in Nat \ {0}
    /\ RequestLimit \in Nat \ {0}
    /\ MaxRestarts \in Nat

VARIABLES
    pt,        \* where handle_dhcp is
    ipaddr,    \* s.ipaddr
    serverid,  \* s.serverid
    router,    \* s.default_router, named by the server that told it
    ticks,     \* s.ticks, in seconds
    host,      \* what dhcpc_configured told uIP: address and router
    net,       \* the messages sent so far
    bound,     \* external: per server, the addresses it has leased to the clock
    taken,     \* external: the addresses leased to other hosts
    restarts

PoolAddr    == UNION {Pool[p] : p \in Server}
client  == <<pt, ipaddr, serverid, router, ticks, host>>
servers == <<bound, taken>>
dhcpcVars    == <<client, net, servers, restarts>>

Msg(type, server, addr) == [type |-> type, server |-> server, addr |-> addr]
Message == [type : {"discover", "offer", "request", "ack", "nak"},
            server : Server \cup {NoServer}, addr : PoolAddr \cup {NoAddr}]
Answers == {m \in net : m.type \in {"offer", "ack", "nak"}}
Unconfigured == [addr |-> NoAddr, router |-> NoServer]
-----------------------------------------------------------------------------
(* Sending: both messages are created from the state of the client *)

send_discover == net' = net \cup {Msg("discover", NoServer, NoAddr)}

send_request  == net' = net \cup {Msg("request", serverid', ipaddr')}
-----------------------------------------------------------------------------
(* Receiving *)

\* A refusal carries no router.
parse_options(m) ==
    /\ serverid' = m.server
    /\ router' = IF m.type = "nak" THEN router ELSE m.server

\* Mutant of parse_msg: the address is taken only from an offer.
parse_msgOffers(m) ==
    /\ ipaddr' = IF m.type = "offer" THEN m.addr ELSE ipaddr
    /\ parse_options(m)

\* Any answer to the clock is taken over, before its type is looked at.  A
\* refusal carries no address.
parse_msg(m) == ipaddr' = m.addr /\ parse_options(m)

\* Mutant of DiscoverAgain: the pause is doubled once more.
DiscoverAgainLonger ==
    /\ ticks' = IF ticks <= DiscoverLimit THEN 2 * ticks ELSE ticks
    /\ send_discover
    /\ UNCHANGED pt

\* The round failed: after a pause, or at once if something arrived.
DiscoverAgain ==
    /\ ticks' = IF ticks < DiscoverLimit THEN 2 * ticks ELSE ticks
    /\ send_discover
    /\ UNCHANGED pt

\* Mutant of RequestAgain: a request is never given up.
RequestAgainForEver ==
    /\ send_request
    /\ UNCHANGED <<pt, ticks>>

RequestAgain ==
    \/ /\ ticks <= RequestLimit
       /\ ticks' = ticks + 1
       /\ send_request
       /\ UNCHANGED pt
    \/ /\ ticks > RequestLimit
       /\ pt' = "start"
       /\ UNCHANGED <<ticks, net>>

Nothing == UNCHANGED <<ipaddr, serverid, router>>
-----------------------------------------------------------------------------
(* handle_dhcp: a poll, the expiry of the timer, or a message *)

Begin ==
    /\ pt = "start"
    /\ pt' = "discover"
    /\ ticks' = 1
    /\ send_discover
    /\ Nothing
    /\ UNCHANGED <<host, servers, restarts>>

\* The timer expired, or the answer to another host arrived: neither changes
\* more than the next round.
NoAnswer ==
    /\ \/ pt = "discover" /\ Nothing /\ DiscoverAgain
       \/ pt = "request" /\ Nothing /\ RequestAgain
    /\ UNCHANGED <<host, servers, restarts>>

Offered(m) ==
    /\ pt = "discover"
    /\ m.type = "offer"
    /\ parse_msg(m)
    /\ pt' = "request"
    /\ ticks' = 1
    /\ send_request
    /\ UNCHANGED <<host, servers, restarts>>

\* Mutant of dhcpc_configured: the router is the one of the first answer.
dhcpc_configuredOldRouter == host' = [addr |-> ipaddr', router |-> router]

dhcpc_configured == host' = [addr |-> ipaddr', router |-> router']

Acknowledged(m) ==
    /\ pt = "request"
    /\ m.type = "ack"
    /\ parse_msg(m)
    /\ pt' = "configured"
    /\ dhcpc_configured
    /\ UNCHANGED <<ticks, net, servers, restarts>>

\* Any other answer counts as a round that failed, but its contents stay.
WrongAnswer(m) ==
    /\ \/ pt = "discover" /\ m.type # "offer" /\ parse_msg(m) /\ DiscoverAgain
       \/ pt = "request" /\ m.type # "ack" /\ parse_msg(m) /\ RequestAgain
    /\ UNCHANGED <<host, servers, restarts>>

\* The clock is switched off and on: dhcpc_init.
dhcpc_init ==
    /\ restarts < MaxRestarts
    /\ restarts' = restarts + 1
    /\ pt' = "start"
    /\ ipaddr' = NoAddr
    /\ serverid' = NoServer
    /\ router' = NoServer
    /\ ticks' = 0
    /\ host' = Unconfigured
    /\ UNCHANGED <<net, servers>>
-----------------------------------------------------------------------------
(* External: the servers and the other hosts *)

Offer(p, a) ==
    /\ Msg("discover", NoServer, NoAddr) \in net
    /\ a \in Pool[p] \ taken
    /\ net' = net \cup {Msg("offer", p, a)}
    /\ UNCHANGED <<client, servers, restarts>>

\* A server leases the address it is asked for, unless it is given away.
Reply(m) ==
    /\ m.type = "request"
    /\ m.server \in Server
    /\ \/ /\ m.addr \in Pool[m.server] \ taken
          /\ bound' = bound \cup {m.addr}
          /\ net' = net \cup {Msg("ack", m.server, m.addr)}
       \/ /\ m.addr \notin Pool[m.server] \ taken
          /\ net' = net \cup {Msg("nak", m.server, NoAddr)}
          /\ UNCHANGED bound
    /\ UNCHANGED <<client, taken, restarts>>

\* Another host is given an address; each server keeps one for the clock.
Take(p, a) ==
    /\ a \in Pool[p] \ (bound \cup taken)
    /\ \E b \in Pool[p] : b # a /\ b \notin taken
    /\ taken' = taken \cup {a}
    /\ UNCHANGED <<client, net, bound, restarts>>
-----------------------------------------------------------------------------
DhcpcInit ==
    /\ pt = "start"
    /\ ipaddr = NoAddr
    /\ serverid = NoServer
    /\ router = NoServer
    /\ ticks = 0
    /\ host = Unconfigured
    /\ net = {}
    /\ bound = {}
    /\ taken = {}
    /\ restarts = 0

Arrival == \E m \in Answers : Offered(m) \/ Acknowledged(m) \/ WrongAnswer(m)

DhcpcNext ==
    \/ Begin
    \/ NoAnswer
    \/ Arrival
    \/ dhcpc_init
    \/ \E p \in Server : \E a \in Pool[p] : Offer(p, a) \/ Take(p, a)
    \/ \E m \in net : Reply(m)

DhcpcSpec == DhcpcInit /\ [][DhcpcNext]_dhcpcVars

\* The client is polled, its timer expires, the servers answer in the end, and of
\* the answers that could arrive again and again one that is of use does.
DhcpcFairness ==
    /\ WF_dhcpcVars(Begin)
    /\ SF_dhcpcVars(NoAnswer)
    /\ WF_dhcpcVars(\E p \in Server : \E a \in Pool[p] : Offer(p, a))
    /\ WF_dhcpcVars(\E m \in net : Reply(m))
    /\ SF_dhcpcVars(\E m \in Answers : m.addr \notin taken /\ Offered(m))
    /\ SF_dhcpcVars(\E m \in Answers : Acknowledged(m))
-----------------------------------------------------------------------------
(* Properties *)

\* Every variable has its type; the pauses stay below twice their limits.
DhcpcTypeOK ==
    /\ pt \in {"start", "discover", "request", "configured"}
    /\ ipaddr \in PoolAddr \cup {NoAddr}
    /\ serverid \in Server \cup {NoServer}
    /\ router \in Server \cup {NoServer}
    /\ ticks \in Nat
    /\ pt = "discover" => ticks < 2 * DiscoverLimit
    /\ pt = "request" => ticks <= RequestLimit + 1
    /\ host \in [addr : PoolAddr \cup {NoAddr}, router : Server \cup {NoServer}]
    /\ net \subseteq Message
    /\ bound \subseteq PoolAddr /\ taken \subseteq PoolAddr
    /\ restarts \in 0 .. MaxRestarts

\* The address the clock uses is leased to it and to no other host, whatever
\* late, repeated or refusing answers came before.
LeasedToUs ==
    host.addr # NoAddr => host.addr \in bound \ taken

\* Address and router come from the same server, although every answer, of the
\* other server too, is copied into the state on arrival.
OneServersConfig ==
    host.addr # NoAddr => host.router \in Server /\ host.addr \in Pool[host.router]

\* A server is never asked for an address that another server offered.
RequestsFit ==
    \A m \in net : m.type = "request" /\ m.addr # NoAddr =>
        m.server \in Server /\ m.addr \in Pool[m.server]

\* The clock asks for, and uses, only what one server gave it and gave nobody else.
LeaseInv == DhcpcTypeOK /\ LeasedToUs /\ OneServersConfig /\ RequestsFit

\* The clock gets an address in the end, also after a refusal and a restart.
GetsAddress == []<>(pt = "configured")
=============================================================================
