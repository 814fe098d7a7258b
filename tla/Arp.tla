--------------------------------- MODULE Arp ---------------------------------
(***************************************************************************)
(* The ARP table of uIP: which Ethernet address an IP address is reached   *)
(* at.  ARP messages for the clock fill it, uip_arp_timer empties it, and  *)
(* uip_arp_out looks up every outgoing packet.  The table's clock and the  *)
(* times in it are single bytes that are subtracted as integers.           *)
(*                                                                         *)
(* An IP address is a pair of half words, as in the code.  Hosts are       *)
(* external: they may change their Ethernet address at any time.           *)
(***************************************************************************)
EXTENDS Integers

CONSTANTS
    HostAddr,         \* IP addresses of the other hosts
    Mac,              \* their Ethernet addresses
    NoMac,            \* the Ethernet address of an entry that was never written
    UIP_ARPTAB_SIZE,  \* how many entries the table has
    UIP_ARP_MAXAGE,   \* calls of the timer after which an entry is dropped
    U8,               \* the number of values of a u8_t
    HostConf          \* environment: what DHCP may configure

Half == Nat \X Nat
Zero == <<0, 0>>

\* Each test of the code looks at the half words in its own way.
InUse(ip)  == ip[1] # 0 /\ ip[2] # 0
IsFree(ip) == ip = Zero

ASSUME ArpAssumption ==
    /\ HostAddr \subseteq Half
    /\ \A a \in HostAddr : InUse(a)
    /\ NoMac \notin Mac
    /\ UIP_ARPTAB_SIZE \in Nat \ {0}
    /\ U8 \in Nat /\ UIP_ARP_MAXAGE \in 1 .. U8 - 1
    /\ HostConf \subseteq [host : Half, router : HostAddr \cup {Zero}, local : SUBSET HostAddr]

VARIABLES
    arp_table,
    arptime,
    hostConf,  \* uip_hostaddr, uip_draddr and the hosts uip_netmask makes local
    sent,      \* what the last step put on the wire
    heard,     \* history: per host, the Ethernet address heard last
    age        \* history: per entry, the timer's calls since it was written

ArpSlot  == 0 .. UIP_ARPTAB_SIZE - 1
arpTable == <<arp_table, arptime, age>>
arpVars  == <<arp_table, arptime, hostConf, sent, heard, age>>

Silence   == [kind |-> "none", for |-> Zero, mac |-> NoMac]
Unset     == [host |-> Zero, router |-> Zero, local |-> HostAddr]
Frame     == [kind : {"none", "broadcast", "frame", "request", "reply"},
              for : HostAddr \cup {Zero}, mac : Mac \cup {NoMac}]
-----------------------------------------------------------------------------
(* uip_arp_timer *)

\* Mutant of uip_arp_timer: an entry is dropped one call early.
uip_arp_timerEarly ==
    LET now == IF arptime = U8 - 1 THEN 0 ELSE arptime + 1
    IN  /\ arptime' = now
        /\ arp_table' = [i \in ArpSlot |->
             IF ~IsFree(arp_table[i].ip) /\ now - arp_table[i].time >= UIP_ARP_MAXAGE - 1
             THEN [arp_table[i] EXCEPT !.ip = Zero]
             ELSE arp_table[i]]
        /\ age' = [i \in ArpSlot |-> IF age[i] < U8 THEN age[i] + 1 ELSE age[i]]
        /\ sent' = Silence
        /\ UNCHANGED <<hostConf, heard>>

\* Mutant of uip_arp_timer: the age is compared before the clock is advanced.
uip_arp_timerLate ==
    LET now == IF arptime = U8 - 1 THEN 0 ELSE arptime + 1
    IN  /\ arptime' = now
        /\ arp_table' = [i \in ArpSlot |->
             IF ~IsFree(arp_table[i].ip) /\ arptime - arp_table[i].time >= UIP_ARP_MAXAGE
             THEN [arp_table[i] EXCEPT !.ip = Zero]
             ELSE arp_table[i]]
        /\ age' = [i \in ArpSlot |-> IF age[i] < U8 THEN age[i] + 1 ELSE age[i]]
        /\ sent' = Silence
        /\ UNCHANGED <<hostConf, heard>>

uip_arp_timer ==
    LET now == IF arptime = U8 - 1 THEN 0 ELSE arptime + 1
    IN  /\ arptime' = now
        /\ arp_table' = [i \in ArpSlot |->
             IF ~IsFree(arp_table[i].ip) /\ now - arp_table[i].time >= UIP_ARP_MAXAGE
             THEN [arp_table[i] EXCEPT !.ip = Zero]
             ELSE arp_table[i]]
        /\ age' = [i \in ArpSlot |-> IF age[i] < U8 THEN age[i] + 1 ELSE age[i]]
        /\ sent' = Silence
        /\ UNCHANGED <<hostConf, heard>>
-----------------------------------------------------------------------------
(* uip_arp_update *)

First(i, S) == i \in S /\ \A j \in S : i <= j

Known(ip) == {i \in ArpSlot : InUse(arp_table[i].ip) /\ arp_table[i].ip = ip}
Unused    == {i \in ArpSlot : IsFree(arp_table[i].ip)}

\* The entry with the largest positive difference, the first one if there is
\* none: differences are negative after arptime wrapped.
IsVictim(i) ==
    LET since(j) == arptime - arp_table[j].time
    IN  IF \A j \in ArpSlot : since(j) <= 0
        THEN i = 0
        ELSE First(i, {j \in ArpSlot : \A k \in ArpSlot : since(k) <= since(j)})

\* Mutant of Place: the first entry is thrown away, however young it is.
PlaceFirst(i, ip) ==
    IF Known(ip) # {} THEN First(i, Known(ip))
    ELSE IF Unused # {} THEN First(i, Unused)
    ELSE i = 0

\* Mutant of Place: an entry to update is not looked for.
PlaceNew(i, ip) ==
    IF Unused # {} THEN First(i, Unused)
    ELSE IsVictim(i)

\* The entry i is where the mapping of ip goes.
Place(i, ip) ==
    IF Known(ip) # {} THEN First(i, Known(ip))
    ELSE IF Unused # {} THEN First(i, Unused)
    ELSE IsVictim(i)

\* Mutant of uip_arp_update: the entry counts from the next call of the timer.
uip_arp_updateNext(ip, mac) ==
    /\ \E i \in ArpSlot :
        /\ Place(i, ip)
        /\ arp_table' = [arp_table EXCEPT ![i] = [ip |-> ip, mac |-> mac, time |-> arptime + 1]]
        /\ age' = [age EXCEPT ![i] = 0]
    /\ heard' = [heard EXCEPT ![ip] = mac]

uip_arp_update(ip, mac) ==
    /\ \E i \in ArpSlot :
        /\ Place(i, ip)
        /\ arp_table' = [arp_table EXCEPT ![i] = [ip |-> ip, mac |-> mac, time |-> arptime]]
        /\ age' = [age EXCEPT ![i] = 0]
    /\ heard' = [heard EXCEPT ![ip] = mac]
-----------------------------------------------------------------------------
(* The handlers main calls *)

\* An ARP message from ip to the clock; one for another host changes nothing.
uip_arp_arpin(opcode, ip, mac) ==
    /\ hostConf.host # Zero
    /\ uip_arp_update(ip, mac)
    /\ sent' = IF opcode = "request" THEN [kind |-> "reply", for |-> ip, mac |-> mac]
              ELSE Silence
    /\ UNCHANGED <<arptime, hostConf>>

\* Mutant of NextHop: every destination is local.
NextHopDirect(dest) == dest

NextHop(dest) == IF dest \in hostConf.local THEN dest ELSE hostConf.router

\* An IP packet for dest gets its Ethernet header, or becomes an ARP request.
uip_arp_out(dest) ==
    LET hop     == NextHop(dest)
        matches == {i \in ArpSlot : arp_table[i].ip = hop}
    IN  /\ \/ /\ matches = {}
              /\ sent' = [kind |-> "request", for |-> hop, mac |-> NoMac]
           \/ \E i \in ArpSlot :
              /\ First(i, matches)
              /\ sent' = [kind |-> "frame", for |-> dest, mac |-> arp_table[i].mac]
        /\ UNCHANGED <<arpTable, hostConf, heard>>

\* To the broadcast address: without a look at the table.
uip_arp_out_broadcast ==
    /\ sent' = [kind |-> "broadcast", for |-> Zero, mac |-> NoMac]
    /\ UNCHANGED <<arpTable, hostConf, heard>>

\* dhcpc_configured sets the host address, the router and the netmask.
Configure(c) ==
    /\ hostConf' = c
    /\ sent' = Silence
    /\ UNCHANGED <<arpTable, heard>>
-----------------------------------------------------------------------------
ArpInit ==
    /\ arp_table = [i \in ArpSlot |-> [ip |-> Zero, mac |-> NoMac, time |-> 0]]
    /\ arptime = 0
    /\ hostConf = Unset
    /\ sent = Silence
    /\ heard = [a \in HostAddr |-> NoMac]
    /\ age = [i \in ArpSlot |-> 0]

ArpNext ==
    \/ uip_arp_timer
    \/ \E op \in {"request", "reply"}, a \in HostAddr, m \in Mac : uip_arp_arpin(op, a, m)
    \/ \E a \in HostAddr : uip_arp_out(a)
    \/ uip_arp_out_broadcast
    \/ \E c \in HostConf : Configure(c)

ArpSpec == ArpInit /\ [][ArpNext]_arpVars
-----------------------------------------------------------------------------
(* Properties *)

\* Every variable has its type.
ArpTypeOK ==
    /\ arp_table \in [ArpSlot -> [ip : HostAddr \cup {Zero}, mac : Mac \cup {NoMac}, time : 0 .. U8 - 1]]
    /\ arptime \in 0 .. U8 - 1
    /\ hostConf \in HostConf \cup {Unset}
    /\ sent \in Frame
    /\ heard \in [HostAddr -> Mac \cup {NoMac}]
    /\ age \in [ArpSlot -> 0 .. U8]

\* An address has one entry at most, and it holds the Ethernet address heard
\* last from there, whatever was updated, dropped and thrown away before.
HeardLast ==
    \A i \in ArpSlot : ~IsFree(arp_table[i].ip) =>
        /\ arp_table[i].mac = heard[arp_table[i].ip]
        /\ \A j \in ArpSlot : arp_table[j].ip = arp_table[i].ip => j = i

\* A packet for a local host leaves to where that host was heard last, one for
\* another host to where the router was heard last.
ToTheRightHost ==
    sent.kind = "frame" =>
        IF sent.for \in hostConf.local THEN sent.mac = heard[sent.for]
        ELSE hostConf.router # Zero => sent.mac = heard[hostConf.router]

\* A packet never goes to a host it is not for: the entries are right, and so is what
\* uip_arp_out takes from them.
RightEntries == ArpTypeOK /\ HeardLast /\ ToTheRightHost

\* The timer drops no entry before it is UIP_ARP_MAXAGE old, also when arptime wraps.
NotDroppedEarly ==
    [][\A i \in ArpSlot : ~IsFree(arp_table[i].ip) /\ IsFree(arp_table'[i].ip) =>
           age'[i] >= UIP_ARP_MAXAGE]_arpVars

\* An entry written while arptime + UIP_ARP_MAXAGE still fits in a byte is dropped when
\* it is UIP_ARP_MAXAGE old: only an entry written later can stay for ever.
DroppedInTime ==
    \A i \in ArpSlot :
        ~IsFree(arp_table[i].ip) /\ arp_table[i].time + UIP_ARP_MAXAGE < U8 => age[i] < UIP_ARP_MAXAGE

\* uip_arp.c:194, "we try to find the oldest entry and throw it away": so it is
\* as long as arptime has not wrapped since one of the entries was written.
OldestGoes ==
    [][\A i \in ArpSlot :
        /\ ~IsFree(arp_table[i].ip)
        /\ arp_table'[i].ip \notin {Zero, arp_table[i].ip}
        /\ \A j \in ArpSlot : age[j] = arptime - arp_table[j].time
        => \A j \in ArpSlot : age[j] <= age[i]]_arpVars

\* Old entries leave the table: by the timer when their time has come, or for a new
\* entry, the oldest of them first.
OldEntriesGo == []DroppedInTime /\ OldestGoes
=============================================================================
