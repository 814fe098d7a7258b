------------------------------- MODULE IpInput -------------------------------
(* The input of uip.c below TCP: which packet goes to whom.  The network       *)
(* damages packets: a field that the IP header's checksum alone covers, one    *)
(* that both checksums cover (addresses, length, protocol), or one that only   *)
(* the upper layer's covers (ports, data).                                     *)
EXTENDS Integers, Sequences, SequencesExt

CONSTANTS
    Addr,          \* addresses of hosts
    Own,           \* the one DHCP gives the clock
    Port,          \* UDP ports
    UIP_UDP_CONNS, \* the size of the table of UDP connections
    UdpSums        \* do senders fill in the UDP checksum?

ASSUME IpInputAssumption ==
    /\ Own \in Addr
    /\ "0.0.0.0" \notin Addr      \* no host's
    /\ {67, 68} \subseteq Port
    /\ UIP_UDP_CONNS \in Nat
    /\ UdpSums \in BOOLEAN

VARIABLES
    uip_hostaddr,   \* all zeroes until DHCP has configured it
    uip_udp_conns,  \* the UDP connections in use
    handled         \* the last packet acted on, and by whom

ipVars == <<uip_hostaddr, uip_udp_conns, handled>>

Zeroes == "0.0.0.0"
Ones   == "255.255.255.255"

\* A packet as it arrives; hurt is what the network damaged.
Packet == [vhl : BOOLEAN, fits : BOOLEAN, fragment : BOOLEAN, echo : BOOLEAN,
           dest : Addr \cup {Ones}, src : Addr, proto : {"tcp", "udp", "icmp", "other"},
           dport : Port, sport : Port, hurt : {"none", "header", "both", "upper"}]

IpSum(p)  == p.hurt \notin {"header", "both"}
TcpSum(p) == p.hurt \notin {"both", "upper"}

\* A sum of zero says that the sender made none.
UdpSum(p) == UdpSums => p.hurt \notin {"both", "upper"}

\* Mutant of Broadcast: of any protocol.
BroadcastAny(p) == uip_hostaddr # Zeroes /\ p.dest = Ones

Broadcast(p) == uip_hostaddr # Zeroes /\ p.proto = "udp" /\ p.dest = Ones

\* Without an address the clock takes what comes.
ForUs(p) == uip_hostaddr \in {Zeroes, p.dest}

Accepted(p) ==
    /\ p.vhl /\ p.fits /\ ~p.fragment
    /\ Broadcast(p) \/ (ForUs(p) /\ IpSum(p))

Handle(p, by) ==
    /\ handled' = [packet |-> p, by |-> by]
    /\ UNCHANGED <<uip_hostaddr, uip_udp_conns>>

tcp(p) == p.proto = "tcp" /\ TcpSum(p) /\ Handle(p, "tcp")

\* The first connection the ports and addresses match gets the datagram.
Matches(conn, p) ==
    /\ p.dport = conn.lport
    /\ conn.rport \in {0, p.sport}
    /\ conn.ripaddr \in {Zeroes, Ones, p.src}

\* Mutant of udp_input: the checksum is not looked at.
udp_inputUnsummed(p) ==
    /\ p.proto = "udp"
    /\ \E k \in DOMAIN uip_udp_conns : Matches(uip_udp_conns[k], p)
    /\ Handle(p, "dhcpc")

udp_input(p) ==
    /\ p.proto = "udp"
    /\ UdpSum(p)
    /\ \E k \in DOMAIN uip_udp_conns : Matches(uip_udp_conns[k], p)
    /\ Handle(p, "dhcpc")

\* An echo request is sent back; its own checksum is not looked at.
icmp(p) == p.proto = "icmp" /\ p.echo /\ Handle(p, "echo")

uip_input ==
    \E p \in Packet :
        /\ Accepted(p)
        /\ tcp(p) \/ udp_input(p) \/ icmp(p)

\* uip_udp_new and uip_udp_bind of dhcpc_init.
uip_udp_new ==
    /\ uip_udp_conns = <<>>
    /\ Len(uip_udp_conns) < UIP_UDP_CONNS
    /\ uip_udp_conns' = Append(uip_udp_conns, [lport |-> 68, rport |-> 67, ripaddr |-> Ones])
    /\ UNCHANGED <<uip_hostaddr, handled>>

\* dhcpc_configured.
uip_sethostaddr ==
    /\ uip_udp_conns # <<>>
    /\ uip_hostaddr' = Own
    /\ UNCHANGED <<uip_udp_conns, handled>>

IpInit ==
    /\ uip_hostaddr = Zeroes
    /\ uip_udp_conns = <<>>
    /\ handled = [by |-> "nobody"]

IpNext == uip_input \/ uip_udp_new \/ uip_sethostaddr

IpSpec == IpInit /\ [][IpNext]_ipVars

-----------------------------------------------------------------------------
(* Properties.                                                                 *)

\* Addresses, ports and data of whatever TCP and the DHCP client are given are as
\* they were sent, though a broadcast skips the checksum of the IP header; and
\* what is echoed goes back to its sender.
NothingHurtIsUsed ==
    /\ handled.by \in {"tcp", "dhcpc"} => handled.packet.hurt \in {"none", "header"}
    /\ handled.by = "echo" => handled.packet.hurt \in {"none", "upper"}

\* Once the clock has its address it acts on nobody else's mail.
OthersMailLeft ==
    [][uip_hostaddr = Own /\ handled' # handled =>
          handled'.packet.dest = Own \/ (handled'.packet.dest = Ones /\ handled'.by = "dhcpc")]_ipVars

\* What the handlers are given is meant for them and is as it was sent.
RightMail == []NothingHurtIsUsed /\ OthersMailLeft
=============================================================================
