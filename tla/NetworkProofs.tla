---------------------------- MODULE NetworkProofs ----------------------------
(* Proofs about the network's tables and services.                           *)
(*                                                                           *)
(* The tables that grow old: the ARP table, for any number of hosts and      *)
(* entries and any size of its clock; the cache of forwarded packets, for    *)
(* any number of packets and entries; the accounts of the Dispatcher's       *)
(* server, however many clocks register; and which packet goes to whom.      *)
(*                                                                           *)
(* The lease of the DHCP client, for any servers and pools, any limits and   *)
(* any number of restarts.  What makes it so is that a message, once sent,   *)
(* stays true: an acknowledged address is leased, and a lease is not given   *)
(* to another host, so that it does not matter how late an answer comes.     *)
(*                                                                           *)
(* The timers, for words and intervals of any size: between the ticks of the *)
(* clock their distance from it is their age, modulo the word.               *)
EXTENDS Arp, Forward, Server, IpInput, Dhcpc, MainLoop, WellFoundedInduction, FiniteSetTheorems, TLAPS
-----------------------------------------------------------------------------
(* The ARP table. *)

\* As long as it has not wrapped all the way round, an entry's time tells its age.
TellsAge ==
    \A i \in ArpSlot : age[i] < U8 =>
        age[i] = IF arptime >= arp_table[i].time THEN arptime - arp_table[i].time
                 ELSE arptime - arp_table[i].time + U8

ArpInv == ArpTypeOK /\ HeardLast /\ ToTheRightHost /\ TellsAge

\* No host has the address that marks a free entry.
LEMMA HostsAreInUse == \A a \in HostAddr : InUse(a) /\ ~IsFree(a)
<1> SUFFICES ASSUME NEW a \in HostAddr PROVE InUse(a) /\ ~IsFree(a)
  OBVIOUS
<1>1. InUse(a)
  BY ArpAssumption
<1>2. ~InUse(Zero)
  BY DEF InUse, Zero
<1> QED BY <1>1, <1>2 DEF IsFree

LEMMA InitArp == ArpInit => ArpInv
<1> SUFFICES ASSUME ArpInit PROVE ArpInv
  OBVIOUS
<1>1. ArpTypeOK
  BY ArpAssumption DEF ArpInit, ArpTypeOK, ArpSlot, Unset, Silence, Frame, Zero
<1>2. HeardLast
  BY DEF ArpInit, HeardLast, IsFree
<1>3. ToTheRightHost
  BY DEF ArpInit, ToTheRightHost, Silence
<1>4. TellsAge
  BY ArpAssumption DEF ArpInit, TellsAge
<1> QED BY <1>1, <1>2, <1>3, <1>4 DEF ArpInv

\* uip_arp_timer empties entries and changes none otherwise; the ages stay right.
LEMMA StepTimer ==
  ASSUME ArpInv, uip_arp_timer
  PROVE  ArpInv'
<1> DEFINE now == IF arptime = U8 - 1 THEN 0 ELSE arptime + 1
<1>1. arptime' = now /\ now \in 0 .. U8 - 1
  <2>1. arptime' = now
    BY DEF uip_arp_timer
  <2>2. arptime \in 0 .. U8 - 1 /\ U8 \in Nat
    BY ArpAssumption DEF ArpInv, ArpTypeOK
  <2>3. now \in 0 .. U8 - 1
    BY <2>2
  <2> QED BY <2>1, <2>3
<1>2. ASSUME NEW i \in ArpSlot
      PROVE  /\ arp_table'[i] \in {arp_table[i], [arp_table[i] EXCEPT !.ip = Zero]}
             /\ age'[i] = IF age[i] < U8 THEN age[i] + 1 ELSE age[i]
  <2>1. arp_table'[i] = IF ~IsFree(arp_table[i].ip) /\ now - arp_table[i].time >= UIP_ARP_MAXAGE
                        THEN [arp_table[i] EXCEPT !.ip = Zero]
                        ELSE arp_table[i]
    BY DEF uip_arp_timer
  <2>2. age'[i] = IF age[i] < U8 THEN age[i] + 1 ELSE age[i]
    BY DEF uip_arp_timer
  <2> QED BY <2>1, <2>2
<1>3. ASSUME NEW i \in ArpSlot
      PROVE  /\ arp_table'[i] \in [ip : HostAddr \cup {Zero}, mac : Mac \cup {NoMac}, time : 0 .. U8 - 1]
             /\ arp_table'[i].ip \in {arp_table[i].ip, Zero}
             /\ arp_table'[i].mac = arp_table[i].mac
             /\ arp_table'[i].time = arp_table[i].time
  BY <1>2 DEF ArpInv, ArpTypeOK
<1>4. ArpTypeOK'
  <2>1. arp_table' \in [ArpSlot -> [ip : HostAddr \cup {Zero}, mac : Mac \cup {NoMac}, time : 0 .. U8 - 1]]
    BY <1>3 DEF uip_arp_timer
  <2>2. age' \in [ArpSlot -> 0 .. U8]
    BY ArpAssumption DEF uip_arp_timer, ArpInv, ArpTypeOK
  <2>3. sent' \in Frame
    BY DEF uip_arp_timer, Silence, Frame
  <2> QED BY <1>1, <2>1, <2>2, <2>3 DEF uip_arp_timer, ArpInv, ArpTypeOK
<1>5. HeardLast'
  BY <1>3 DEF uip_arp_timer, ArpInv, HeardLast, IsFree
<1>6. ToTheRightHost'
  BY DEF uip_arp_timer, ToTheRightHost, Silence
<1>7. TellsAge'
  <2> SUFFICES ASSUME NEW i \in ArpSlot, age'[i] < U8
               PROVE  age'[i] = IF now >= arp_table[i].time THEN now - arp_table[i].time
                                ELSE now - arp_table[i].time + U8
    BY <1>1, <1>3 DEF TellsAge
  <2>1. arp_table[i].time \in 0 .. U8 - 1 /\ age[i] \in 0 .. U8 /\ arptime \in 0 .. U8 - 1 /\ U8 \in Nat
    BY ArpAssumption DEF ArpInv, ArpTypeOK
  <2>2. age'[i] = age[i] + 1 /\ age[i] < U8
    BY <1>2, <2>1
  <2>3. age[i] = IF arptime >= arp_table[i].time THEN arptime - arp_table[i].time
                 ELSE arptime - arp_table[i].time + U8
    BY <2>2 DEF ArpInv, TellsAge
  <2> QED BY <2>1, <2>2, <2>3
<1> QED BY <1>4, <1>5, <1>6, <1>7 DEF ArpInv

\* The entry that Place picks is the only one that holds the address afterwards.
LEMMA PlaceIsOnly ==
  ASSUME ArpInv, NEW ip \in HostAddr, NEW i \in ArpSlot, Place(i, ip),
         NEW j \in ArpSlot, arp_table[j].ip = ip
  PROVE  j = i
<1>1. InUse(ip) /\ ~IsFree(ip)
  BY HostsAreInUse
<1>2. j \in Known(ip)
  BY <1>1 DEF Known
<1>3. i \in Known(ip)
  BY <1>2 DEF Place, First
<1> QED BY <1>1, <1>3 DEF Known, ArpInv, HeardLast

\* uip_arp_arpin writes one entry and forgets what another held there.
LEMMA StepUpdate ==
  ASSUME ArpInv, NEW op \in {"request", "reply"}, NEW a \in HostAddr, NEW m \in Mac, uip_arp_arpin(op, a, m)
  PROVE  ArpInv'
<1>1. PICK i \in ArpSlot :
        /\ Place(i, a)
        /\ arp_table' = [arp_table EXCEPT ![i] = [ip |-> a, mac |-> m, time |-> arptime]]
        /\ age' = [age EXCEPT ![i] = 0]
  BY DEF uip_arp_arpin, uip_arp_update
<1>2. heard' = [heard EXCEPT ![a] = m] /\ UNCHANGED <<arptime, hostConf>>
  BY DEF uip_arp_arpin, uip_arp_update
<1>3. sent' \in Frame /\ sent'.kind # "frame"
  BY DEF uip_arp_arpin, Silence, Frame
<1>4. arp_table'[i] = [ip |-> a, mac |-> m, time |-> arptime]
          /\ \A j \in ArpSlot : j # i => arp_table'[j] = arp_table[j]
  BY <1>1 DEF ArpInv, ArpTypeOK
<1>5. ArpTypeOK'
  BY <1>1, <1>2, <1>3, ArpAssumption DEF ArpInv, ArpTypeOK
<1>6. HeardLast'
  <2> SUFFICES ASSUME NEW j \in ArpSlot, ~IsFree(arp_table'[j].ip)
               PROVE  /\ arp_table'[j].mac = heard'[arp_table'[j].ip]
                      /\ \A k \in ArpSlot : arp_table'[k].ip = arp_table'[j].ip => k = j
    BY DEF HeardLast
  <2>1. \A k \in ArpSlot : k # i => arp_table[k].ip # a
    BY <1>1, PlaceIsOnly
  <2>2. CASE j = i
    <3>1. heard'[a] = m
      BY <1>2 DEF ArpInv, ArpTypeOK
    <3> QED BY <1>4, <2>1, <2>2, <3>1
  <2>3. CASE j # i
    <3>1. arp_table'[j] = arp_table[j] /\ arp_table[j].ip # a
      BY <1>4, <2>1, <2>3
    <3>2. heard'[arp_table[j].ip] = heard[arp_table[j].ip]
      BY <1>2, <3>1 DEF ArpInv, ArpTypeOK
    <3> QED BY <1>4, <3>1, <3>2, <2>3 DEF ArpInv, HeardLast
  <2> QED BY <2>2, <2>3
<1>7. ToTheRightHost'
  BY <1>3 DEF ToTheRightHost
<1>8. TellsAge'
  BY <1>1, <1>2, <1>4, ArpAssumption DEF ArpInv, ArpTypeOK, TellsAge
<1> QED BY <1>5, <1>6, <1>7, <1>8 DEF ArpInv

\* uip_arp_out finds, for the next hop, the entry that holds what was heard last.
LEMMA StepOut ==
  ASSUME ArpInv, NEW dest \in HostAddr, uip_arp_out(dest)
  PROVE  ArpInv'
<1> DEFINE hop == NextHop(dest)
<1>1. UNCHANGED <<arpTable, hostConf, heard>>
  BY DEF uip_arp_out
<1>2. hop \in HostAddr \cup {Zero}
  BY ArpAssumption DEF NextHop, ArpInv, ArpTypeOK, Unset
<1>3. \/ sent' = [kind |-> "request", for |-> hop, mac |-> NoMac]
      \/ \E i \in ArpSlot : arp_table[i].ip = hop /\ sent' = [kind |-> "frame", for |-> dest, mac |-> arp_table[i].mac]
  BY DEF uip_arp_out, First
<1>4. ArpTypeOK'
  <2>1. sent' \in Frame
    BY <1>2, <1>3 DEF Frame, ArpInv, ArpTypeOK
  <2> QED BY <1>1, <2>1 DEF arpTable, ArpInv, ArpTypeOK
<1>5. ToTheRightHost'
  <2> SUFFICES ASSUME sent'.kind = "frame"
               PROVE  IF sent'.for \in hostConf.local THEN sent'.mac = heard[sent'.for]
                      ELSE hostConf.router # Zero => sent'.mac = heard[hostConf.router]
    BY <1>1 DEF ToTheRightHost
  <2>1. PICK i \in ArpSlot : arp_table[i].ip = hop /\ sent' = [kind |-> "frame", for |-> dest, mac |-> arp_table[i].mac]
    BY <1>3
  <2>2. hop # Zero => sent'.mac = heard[hop]
    BY <2>1 DEF ArpInv, HeardLast, IsFree
  <2>3. dest # Zero
    BY HostsAreInUse DEF IsFree
  <2> QED BY <2>1, <2>2, <2>3 DEF NextHop
<1> QED BY <1>1, <1>4, <1>5 DEF ArpInv, arpTable, HeardLast, TellsAge

\* Nothing else touches the table.
LEMMA StepOther ==
  ASSUME ArpInv, uip_arp_out_broadcast \/ (\E c \in HostConf : Configure(c)) \/ UNCHANGED arpVars
  PROVE  ArpInv'
<1>1. CASE uip_arp_out_broadcast
  <2>1. sent' \in Frame /\ sent'.kind # "frame"
    BY <1>1 DEF uip_arp_out_broadcast, Frame
  <2> QED BY <1>1, <2>1 DEF uip_arp_out_broadcast, arpTable, ArpInv, ArpTypeOK, HeardLast, ToTheRightHost, TellsAge
<1>2. ASSUME NEW c \in HostConf, Configure(c) PROVE ArpInv'
  <2>1. sent' \in Frame /\ sent'.kind # "frame"
    BY <1>2 DEF Configure, Silence, Frame
  <2> QED BY <1>2, <2>1 DEF Configure, arpTable, ArpInv, ArpTypeOK, HeardLast, ToTheRightHost, TellsAge
<1>3. CASE UNCHANGED arpVars
  BY <1>3 DEF arpVars, ArpInv, ArpTypeOK, HeardLast, ToTheRightHost, TellsAge
<1> QED BY <1>1, <1>2, <1>3

LEMMA NextArp == ArpInv /\ [ArpNext]_arpVars => ArpInv'
  BY StepTimer, StepUpdate, StepOut, StepOther DEF ArpNext

LEMMA ArpInvariant == ArpSpec => []ArpInv
  BY InitArp, NextArp, PTL DEF ArpSpec

\* uip_arp_update keeps one entry per address, with what was heard last, so that
\* uip_arp_out never sends a packet to another host's Ethernet address.
THEOREM PacketsGoToRightHost == ArpSpec => []RightEntries
<1>1. ArpInv => RightEntries
  BY DEF ArpInv, RightEntries
<1> QED BY <1>1, ArpInvariant, PTL

\* The signed differences of uip_arp_timer never make an entry look older than it is.
THEOREM KeptLongEnough == ArpSpec => NotDroppedEarly
<1>1. ArpInv /\ [ArpNext]_arpVars =>
        [\A i \in ArpSlot : ~IsFree(arp_table[i].ip) /\ IsFree(arp_table'[i].ip) => age'[i] >= UIP_ARP_MAXAGE]_arpVars
  <2> SUFFICES ASSUME ArpInv, ArpNext, NEW i \in ArpSlot, ~IsFree(arp_table[i].ip), IsFree(arp_table'[i].ip)
               PROVE  age'[i] >= UIP_ARP_MAXAGE
    OBVIOUS
  <2>1. CASE uip_arp_timer
    <3> DEFINE now == IF arptime = U8 - 1 THEN 0 ELSE arptime + 1
    <3>1. now - arp_table[i].time >= UIP_ARP_MAXAGE
      BY <2>1 DEF uip_arp_timer
    <3>2. age'[i] = IF age[i] < U8 THEN age[i] + 1 ELSE age[i]
      BY <2>1 DEF uip_arp_timer
    <3>3. /\ arp_table[i].time \in 0 .. U8 - 1 /\ age[i] \in 0 .. U8 /\ arptime \in 0 .. U8 - 1
          /\ U8 \in Nat /\ UIP_ARP_MAXAGE \in 1 .. U8 - 1
      BY ArpAssumption DEF ArpInv, ArpTypeOK
    <3>4. age[i] < U8 => age[i] = IF arptime >= arp_table[i].time THEN arptime - arp_table[i].time
                                  ELSE arptime - arp_table[i].time + U8
      BY DEF ArpInv, TellsAge
    <3> QED BY <3>1, <3>2, <3>3, <3>4
  <2>2. ASSUME NEW op \in {"request", "reply"}, NEW a \in HostAddr, NEW m \in Mac, uip_arp_arpin(op, a, m)
        PROVE  FALSE
    <3>1. arp_table'[i].ip \in {arp_table[i].ip, a}
      BY <2>2 DEF uip_arp_arpin, uip_arp_update, ArpInv, ArpTypeOK
    <3> QED BY <3>1, HostsAreInUse DEF IsFree
  <2>3. ASSUME UNCHANGED arp_table PROVE FALSE
    BY <2>3
  <2> QED BY <2>1, <2>2, <2>3 DEF ArpNext, uip_arp_out, uip_arp_out_broadcast, Configure, arpTable
<1> QED BY <1>1, ArpInvariant, PTL DEF ArpSpec, NotDroppedEarly
\* Between two calls of the timer: what should have been dropped has been.
LEMMA NextDropped == ArpInv /\ DroppedInTime /\ [ArpNext]_arpVars => DroppedInTime'
<1> SUFFICES ASSUME ArpInv, DroppedInTime, [ArpNext]_arpVars,
                    NEW i \in ArpSlot, ~IsFree(arp_table'[i].ip), arp_table'[i].time + UIP_ARP_MAXAGE < U8
             PROVE  age'[i] < UIP_ARP_MAXAGE
  BY DEF DroppedInTime
<1>1. /\ arp_table[i].time \in 0 .. U8 - 1 /\ age[i] \in 0 .. U8 /\ arptime \in 0 .. U8 - 1
      /\ U8 \in Nat /\ UIP_ARP_MAXAGE \in 1 .. U8 - 1
  BY ArpAssumption DEF ArpInv, ArpTypeOK
<1>2. CASE uip_arp_timer
  <2> DEFINE now == IF arptime = U8 - 1 THEN 0 ELSE arptime + 1
  <2>1. arp_table'[i] = IF ~IsFree(arp_table[i].ip) /\ now - arp_table[i].time >= UIP_ARP_MAXAGE
                        THEN [arp_table[i] EXCEPT !.ip = Zero]
                        ELSE arp_table[i]
    BY <1>2 DEF uip_arp_timer
  <2>2. arp_table[i] \in [ip : HostAddr \cup {Zero}, mac : Mac \cup {NoMac}, time : 0 .. U8 - 1]
    BY DEF ArpInv, ArpTypeOK
  <2>3. /\ ~IsFree(arp_table[i].ip) /\ now - arp_table[i].time < UIP_ARP_MAXAGE
        /\ arp_table'[i].time = arp_table[i].time
    <3>1. CASE ~IsFree(arp_table[i].ip) /\ now - arp_table[i].time >= UIP_ARP_MAXAGE
      BY <2>1, <2>2, <3>1 DEF IsFree
    <3>2. CASE ~(~IsFree(arp_table[i].ip) /\ now - arp_table[i].time >= UIP_ARP_MAXAGE)
      <4>1. arp_table'[i] = arp_table[i]
        BY <2>1, <3>2
      <4> QED BY <1>1, <3>2, <4>1
    <3> QED BY <3>1, <3>2
  <2>4. age[i] < UIP_ARP_MAXAGE
    BY <2>3 DEF DroppedInTime
  <2>5. age[i] = IF arptime >= arp_table[i].time THEN arptime - arp_table[i].time
                 ELSE arptime - arp_table[i].time + U8
    BY <1>1, <2>4 DEF ArpInv, TellsAge
  <2>6. age'[i] = IF age[i] < U8 THEN age[i] + 1 ELSE age[i]
    BY <1>2 DEF uip_arp_timer
  <2> QED BY <1>1, <2>3, <2>4, <2>5, <2>6
<1>3. ASSUME NEW op \in {"request", "reply"}, NEW a \in HostAddr, NEW m \in Mac, uip_arp_arpin(op, a, m)
      PROVE  age'[i] < UIP_ARP_MAXAGE
  <2>1. \/ age'[i] = 0
        \/ age'[i] = age[i] /\ arp_table'[i] = arp_table[i]
    BY <1>3 DEF uip_arp_arpin, uip_arp_update, ArpInv, ArpTypeOK
  <2>2. CASE age'[i] = 0
    BY <1>1, <2>2
  <2>3. CASE age'[i] = age[i] /\ arp_table'[i] = arp_table[i]
    BY <2>3 DEF DroppedInTime
  <2> QED BY <2>1, <2>2, <2>3
<1>4. ASSUME UNCHANGED arpTable PROVE age'[i] < UIP_ARP_MAXAGE
  BY <1>4 DEF arpTable, DroppedInTime
<1> QED BY <1>2, <1>3, <1>4 DEF ArpNext, uip_arp_out, uip_arp_out_broadcast, Configure, arpVars, arpTable

\* A new host takes the place of an old one only where no entry is free, and then of
\* the one that IsVictim picks.
LEMMA OldestIsReplaced ==
  ASSUME ArpInv, NEW op \in {"request", "reply"}, NEW a \in HostAddr, NEW m \in Mac, uip_arp_arpin(op, a, m),
         NEW i \in ArpSlot, ~IsFree(arp_table[i].ip), arp_table'[i].ip \notin {Zero, arp_table[i].ip},
         \A j \in ArpSlot : age[j] = arptime - arp_table[j].time,
         NEW j \in ArpSlot
  PROVE  age[j] <= age[i]
<1>1. PICK n \in ArpSlot :
        /\ Place(n, a)
        /\ arp_table' = [arp_table EXCEPT ![n] = [ip |-> a, mac |-> m, time |-> arptime]]
  BY DEF uip_arp_arpin, uip_arp_update
<1>2. n = i /\ arp_table[i].ip # a
  BY <1>1 DEF ArpInv, ArpTypeOK
<1>3. Known(a) = {}
  BY <1>1, <1>2 DEF Place, First, Known
<1>4. Unused = {}
  BY <1>1, <1>2, <1>3 DEF Place, First, Unused
<1>5. IsVictim(i)
  BY <1>1, <1>2, <1>3, <1>4 DEF Place
<1>6. \A k \in ArpSlot : age[k] \in 0 .. U8 /\ arptime - arp_table[k].time = age[k] /\ U8 \in Nat
  BY ArpAssumption DEF ArpInv, ArpTypeOK
<1>7. CASE \A k \in ArpSlot : arptime - arp_table[k].time <= 0
  <2>1. age[j] = 0 /\ age[i] = 0
    BY <1>6, <1>7
  <2> QED BY <2>1
<1>8. CASE ~ \A k \in ArpSlot : arptime - arp_table[k].time <= 0
  <2>1. \A k \in ArpSlot : arptime - arp_table[k].time <= arptime - arp_table[i].time
    BY <1>5, <1>8 DEF IsVictim, First
  <2> QED BY <1>6, <2>1
<1> QED BY <1>7, <1>8

\* Neither the wrap of the byte nor the search for the oldest entry keeps an old
\* host where a younger one is dropped (uip_arp_timer and uip_arp_update).
THEOREM OldEntriesLeave == ArpSpec => OldEntriesGo
<1>1. ArpInit => DroppedInTime
  BY DEF ArpInit, DroppedInTime, IsFree
<1>2. ArpSpec => []DroppedInTime
  BY <1>1, NextDropped, ArpInvariant, PTL DEF ArpSpec
<1>3. ArpInv /\ [ArpNext]_arpVars =>
        [\A i \in ArpSlot :
           /\ ~IsFree(arp_table[i].ip)
           /\ arp_table'[i].ip \notin {Zero, arp_table[i].ip}
           /\ \A j \in ArpSlot : age[j] = arptime - arp_table[j].time
           => \A j \in ArpSlot : age[j] <= age[i]]_arpVars
  <2> SUFFICES ASSUME ArpInv, ArpNext, NEW i \in ArpSlot,
                      ~IsFree(arp_table[i].ip), arp_table'[i].ip \notin {Zero, arp_table[i].ip},
                      \A j \in ArpSlot : age[j] = arptime - arp_table[j].time,
                      NEW j \in ArpSlot
               PROVE  age[j] <= age[i]
    OBVIOUS
  <2>1. CASE uip_arp_timer
    <3>1. arp_table'[i].ip \in {Zero, arp_table[i].ip}
      <4>1. arp_table[i] \in [ip : HostAddr \cup {Zero}, mac : Mac \cup {NoMac}, time : 0 .. U8 - 1]
        BY DEF ArpInv, ArpTypeOK
      <4>2. arp_table'[i] \in {arp_table[i], [arp_table[i] EXCEPT !.ip = Zero]}
        BY <2>1 DEF uip_arp_timer
      <4> QED BY <4>1, <4>2
    <3> QED BY <3>1
  <2>2. ASSUME NEW op \in {"request", "reply"}, NEW a \in HostAddr, NEW m \in Mac, uip_arp_arpin(op, a, m)
        PROVE  age[j] <= age[i]
    BY <2>2, OldestIsReplaced
  <2>3. ASSUME UNCHANGED arp_table PROVE FALSE
    BY <2>3
  <2> QED BY <2>1, <2>2, <2>3 DEF ArpNext, uip_arp_out, uip_arp_out_broadcast, Configure, arpTable
<1>4. ArpSpec => OldestGoes
  BY <1>3, ArpInvariant, PTL DEF ArpSpec, OldestGoes
<1> QED BY <1>2, <1>4, PTL DEF OldEntriesGo
-----------------------------------------------------------------------------
(* The cache of forwarded packets. *)

\* The entries that hold a packet at least as long as i, but for i itself.
Younger(i) == {j \in Entry \ {i} : fwcache[j].timer >= fwcache[i].timer}

\* By its history the packet k cannot have been thrown away.
Recent(k) == since[k].ticks < FW_TIME /\ since[k].others < FWCACHE_SIZE /\ since[k].crowded = FALSE

\* An entry has k with the time k has left, and all that are younger were sent after k.
Holds(k, i) ==
    /\ fwcache[i].key = k
    /\ fwcache[i].timer = FW_TIME - since[k].ticks
    /\ Cardinality(Younger(i)) <= since[k].others

FwTypeOK ==
    /\ fwcache \in [Entry -> [timer : 0 .. FW_TIME, key : Key \cup {NoPacketYet}]]
    /\ since \in [Key -> [ticks : Nat, others : Nat, crowded : BOOLEAN]]
    /\ sentThisTick \in BOOLEAN

FwInv ==
    /\ FwTypeOK
    /\ sentThisTick = FALSE => \A i \in Entry : fwcache[i].timer < FW_TIME
    /\ \A k \in Key : Recent(k) => \E i \in Entry : Holds(k, i)
    /\ NotForwardedAgain

LEMMA FwSizes == FWCACHE_SIZE \in Nat \ {0} /\ FW_TIME \in Nat \ {0}
BY ForwardAssumption

\* Min and Max are what their names say.
LEMMA SmallerOfTwo ==
  ASSUME NEW a \in Nat, NEW b \in Nat
  PROVE  Min({a, b}) = IF a <= b THEN a ELSE b
<1>1. CASE a <= b
  BY <1>1 DEF Min
<1>2. CASE b < a
  BY <1>2 DEF Min
<1> QED BY <1>1, <1>2

LEMMA LeastNumber ==
  ASSUME NEW S \in SUBSET Nat, S # {}
  PROVE  /\ \E x \in S : \A y \in S : x <= y
         /\ Min(S) \in S
<1>1. IsWellFoundedOn(OpToRel(<, Nat), Nat)
  BY NatLessThanWellFounded
<1>2. PICK x \in S : \A y \in S : <<y, x>> \notin OpToRel(<, Nat)
  BY <1>1, WFMin
<1>3. \A y \in S : ~(y < x)
  BY <1>2 DEF OpToRel
<1>4. \A y \in S : x <= y
  BY <1>3
<1> QED BY <1>4 DEF Min

LEMMA LargestNumber ==
  ASSUME NEW n \in Nat, NEW S \in SUBSET (0 .. n), S # {}
  PROVE  Max(S) \in S
<1> DEFINE T == {n - x : x \in S}
<1>1. T \in SUBSET Nat /\ T # {}
  <2>1. \A x \in S : n - x \in Nat
    OBVIOUS
  <2> QED BY <2>1
<1>2. PICK d \in T : \A y \in T : d <= y
  <2> HIDE DEF T
  <2> QED BY <1>1, LeastNumber
<1>3. PICK x \in S : d = n - x
  BY <1>2
<1>4. \A y \in S : x >= y
  BY <1>2, <1>3
<1> QED BY <1>3, <1>4 DEF Max

\* A new packet takes the place of none, or of one that all others are younger than.
LEMMA VictimIsOldest ==
  ASSUME FwTypeOK
  PROVE  /\ Victim \in Entry
         /\ fwcache[Victim].timer # 0 => \A j \in Entry : fwcache[Victim].timer <= fwcache[j].timer
<1> DEFINE free  == {i \in Entry : fwcache[i].timer = 0}
           least == {i \in Entry : \A j \in Entry : fwcache[i].timer <= fwcache[j].timer}
           times == {fwcache[i].timer : i \in Entry}
<1>1. Victim = IF free # {} THEN Min(free) ELSE Max(least)
  BY DEF Victim
<1>2. \A i \in Entry : fwcache[i].timer \in Nat
  BY FwSizes DEF FwTypeOK
<1>3. 0 \in Entry /\ Entry = 0 .. FWCACHE_SIZE - 1 /\ FWCACHE_SIZE - 1 \in Nat
  BY FwSizes DEF Entry
<1>4. CASE free # {}
  <2>1. free \in SUBSET Nat
    BY <1>3
  <2>2. Min(free) \in free
    <3> HIDE DEF free
    <3> QED BY <1>4, <2>1, LeastNumber
  <2> QED BY <1>1, <1>4, <2>2
<1>5. CASE free = {}
  <2>1. times \in SUBSET Nat /\ times # {}
    BY <1>2, <1>3
  <2>2. PICK least_time \in times : \A y \in times : least_time <= y
    <3> HIDE DEF times
    <3> QED BY <2>1, LeastNumber
  <2>3. least # {} /\ least \in SUBSET (0 .. FWCACHE_SIZE - 1)
    BY <1>3, <2>2
  <2>4. Max(least) \in least
    <3> HIDE DEF least
    <3> QED BY <1>3, <2>3, LargestNumber
  <2> QED BY <1>1, <1>5, <2>4
<1> QED BY <1>4, <1>5

LEMMA YoungerIsFinite ==
  ASSUME NEW i
  PROVE  IsFiniteSet(Younger(i)) /\ Cardinality(Younger(i)) \in Nat
<1>1. IsFiniteSet(Entry)
  BY FwSizes, FS_Interval DEF Entry
<1>2. Younger(i) \in SUBSET Entry
  BY DEF Younger
<1> QED BY <1>1, <1>2, FS_Subset, FS_CardinalityType

\* All entries but one: as many as the cache holds, less one.
LEMMA AllButOne ==
  ASSUME NEW i \in Entry
  PROVE  Cardinality(Entry \ {i}) = FWCACHE_SIZE - 1
<1>1. IsFiniteSet(Entry) /\ Cardinality(Entry) = FWCACHE_SIZE
  BY FwSizes, FS_Interval DEF Entry
<1> QED BY <1>1, FS_RemoveElement

\* What registering k does to the history of every packet.
LEMMA RegisterSince ==
  ASSUME FwTypeOK, NEW k \in Key, fwcache_register(k)
  PROVE  /\ since'[k].ticks = 0 /\ since'[k].others = 0
         /\ since'[k].crowded = FALSE => sentThisTick = FALSE
         /\ since'[k] \in [ticks : Nat, others : Nat, crowded : BOOLEAN]
         /\ \A j \in Key \ {k} :
              /\ since'[j].ticks = since[j].ticks
              /\ since'[j].others = IF since[j].others + 1 <= FWCACHE_SIZE THEN since[j].others + 1 ELSE FWCACHE_SIZE
              /\ since'[j].crowded = FALSE => since[j].crowded = FALSE /\ sentThisTick = FALSE
              /\ since'[j] \in [ticks : Nat, others : Nat, crowded : BOOLEAN]
         /\ DOMAIN since' = Key
         /\ since' = [j \in Key |-> since'[j]]
<1>1. since' = [j \in Key |->
          IF j = k THEN [ticks |-> 0, others |-> 0, crowded |-> sentThisTick]
          ELSE [since[j] EXCEPT !.others = Min({@ + 1, FWCACHE_SIZE}),
                                !.crowded = @ \/ sentThisTick]]
  BY DEF fwcache_register
<1>2. ASSUME NEW j \in Key, j # k
      PROVE  /\ since'[j].ticks = since[j].ticks
             /\ since'[j].others = IF since[j].others + 1 <= FWCACHE_SIZE THEN since[j].others + 1 ELSE FWCACHE_SIZE
             /\ since'[j].crowded = FALSE => since[j].crowded = FALSE /\ sentThisTick = FALSE
             /\ since'[j] \in [ticks : Nat, others : Nat, crowded : BOOLEAN]
  <2>1. since[j] \in [ticks : Nat, others : Nat, crowded : BOOLEAN] /\ sentThisTick \in BOOLEAN
    BY DEF FwTypeOK
  <2> DEFINE m == Min({since[j].others + 1, FWCACHE_SIZE})
  <2>2. since'[j] = [since[j] EXCEPT !.others = m, !.crowded = since[j].crowded \/ sentThisTick]
    BY <1>1, <1>2
  <2>3. m = IF since[j].others + 1 <= FWCACHE_SIZE THEN since[j].others + 1 ELSE FWCACHE_SIZE
    BY <2>1, SmallerOfTwo, FwSizes
  <2>4. m \in Nat
    BY <2>1, <2>3, FwSizes
  <2> HIDE DEF m
  <2> QED BY <2>1, <2>2, <2>3, <2>4
<1>3. since'[k] = [ticks |-> 0, others |-> 0, crowded |-> sentThisTick]
  BY <1>1
<1>4. since'[k] \in [ticks : Nat, others : Nat, crowded : BOOLEAN]
  <2>1. sentThisTick \in BOOLEAN
    BY DEF FwTypeOK
  <2> QED BY <1>3, <2>1
<1>5. since'[k].ticks = 0 /\ since'[k].others = 0 /\ since'[k].crowded = sentThisTick
  BY <1>3
<1>6. DOMAIN since' = Key /\ since' = [j \in Key |-> since'[j]]
  BY <1>1
<1> QED BY <1>2, <1>4, <1>5, <1>6

LEMMA InitForward == FwInit => FwInv
<1> SUFFICES ASSUME FwInit PROVE FwInv
  OBVIOUS
<1>1. FwTypeOK
  <2>1. fwcache \in [Entry -> [timer : 0 .. FW_TIME, key : Key \cup {NoPacketYet}]]
    BY FwSizes DEF FwInit
  <2>2. since \in [Key -> [ticks : Nat, others : Nat, crowded : BOOLEAN]]
    BY FwSizes DEF FwInit
  <2>3. sentThisTick \in BOOLEAN
    BY DEF FwInit
  <2> QED BY <2>1, <2>2, <2>3 DEF FwTypeOK
<1>2. NotForwardedAgain
  BY DEF FwInit, NotForwardedAgain
<1>3. \A k \in Key : ~Recent(k)
  BY FwSizes DEF FwInit, Recent
<1>4. \A i \in Entry : fwcache[i].timer < FW_TIME
  BY FwSizes DEF FwInit
<1> QED BY <1>1, <1>2, <1>3, <1>4 DEF FwInv

\* A packet that goes out does not push out one that must be remembered.
LEMMA StepRegister ==
  ASSUME FwInv, NEW k \in Key, fwcache_register(k)
  PROVE  /\ FwTypeOK'
         /\ sentThisTick' # FALSE
         /\ \A j \in Key : Recent(j)' => \E i \in Entry : Holds(j, i)'
<1>1. FwTypeOK
  BY DEF FwInv
<1>2. PICK v \in Entry :
        /\ v = Victim
        /\ fwcache[v].timer # 0 => \A j \in Entry : fwcache[v].timer <= fwcache[j].timer
  BY <1>1, VictimIsOldest
<1>3. fwcache' = [fwcache EXCEPT ![v] = [timer |-> FW_TIME, key |-> k]] /\ sentThisTick' = TRUE
  BY <1>2 DEF fwcache_register
<1>4. /\ fwcache'[v] = [timer |-> FW_TIME, key |-> k]
      /\ \A j \in Entry \ {v} : fwcache'[j] = fwcache[j]
      /\ \A j \in Entry : fwcache[j].timer \in 0 .. FW_TIME
  BY <1>1, <1>2, <1>3 DEF FwTypeOK
<1>5. fwcache' \in [Entry -> [timer : 0 .. FW_TIME, key : Key \cup {NoPacketYet}]]
  BY <1>1, <1>3, FwSizes DEF FwTypeOK
<1>6. since' \in [Key -> [ticks : Nat, others : Nat, crowded : BOOLEAN]]
  <2>1. since'[k] \in [ticks : Nat, others : Nat, crowded : BOOLEAN]
    BY <1>1, RegisterSince DEF FwTypeOK
  <2>2. \A j \in Key : since'[j] \in [ticks : Nat, others : Nat, crowded : BOOLEAN]
    BY <1>1, <2>1, RegisterSince
  <2>3. since' = [j \in Key |-> since'[j]]
    BY <1>1, RegisterSince
  <2> QED BY <2>2, <2>3
<1>7. ASSUME NEW j \in Key, Recent(j)' PROVE \E i \in Entry : Holds(j, i)'
  <2>1. CASE j = k
    <3>1. since'[k].ticks = 0 /\ since'[k].others = 0 /\ sentThisTick = FALSE
      BY <1>1, <1>7, <2>1, RegisterSince DEF Recent
    <3>2. Younger(v)' = {}
      BY <1>4, <3>1, FwSizes DEF FwInv, Younger
    <3>3. Cardinality(Younger(v)') = 0
      BY <3>2, FS_EmptySet
    <3>4. Holds(k, v)'
      BY <1>4, <3>1, <3>3, FwSizes DEF Holds
    <3> QED BY <1>2, <2>1, <3>4
  <2>2. CASE j # k
    <3>1. /\ since'[j].ticks = since[j].ticks /\ since[j].ticks < FW_TIME
          /\ since'[j].others = since[j].others + 1 /\ since[j].others + 1 < FWCACHE_SIZE
          /\ since[j].crowded = FALSE
          /\ since[j].others \in Nat /\ since[j].ticks \in Nat
      <4>1. since[j].others \in Nat /\ since[j].ticks \in Nat
        BY <1>1 DEF FwTypeOK
      <4>2. /\ since'[j].ticks = since[j].ticks
            /\ since'[j].others = IF since[j].others + 1 <= FWCACHE_SIZE THEN since[j].others + 1 ELSE FWCACHE_SIZE
            /\ since'[j].crowded = FALSE => since[j].crowded = FALSE
        BY <1>1, <2>2, RegisterSince
      <4>3. since'[j].ticks < FW_TIME /\ since'[j].others < FWCACHE_SIZE /\ since'[j].crowded = FALSE
        BY <1>7 DEF Recent
      <4> QED BY <4>1, <4>2, <4>3, FwSizes
    <3>2. PICK i \in Entry : Holds(j, i)
      <4>1. Recent(j)
        BY <3>1, FwSizes DEF Recent
      <4> QED BY <4>1 DEF FwInv
    <3>3. Cardinality(Younger(i)) \in Nat /\ IsFiniteSet(Younger(i))
      BY YoungerIsFinite
    <3>4. v # i
      <4> SUFFICES ASSUME v = i PROVE FALSE
        OBVIOUS
      <4>1. fwcache[i].timer # 0
        BY <3>1, <3>2, FwSizes DEF Holds
      <4>2. Younger(i) = Entry \ {i}
        BY <1>2, <1>4, <4>1 DEF Younger
      <4>3. Cardinality(Younger(i)) = FWCACHE_SIZE - 1
        BY <4>2, AllButOne
      <4> QED BY <3>1, <3>2, <4>3, FwSizes DEF Holds
    <3>5. fwcache'[i] = fwcache[i]
      BY <1>4, <3>4
    <3>6. Younger(i)' \in SUBSET (Younger(i) \cup {v})
      <4> SUFFICES ASSUME NEW x \in Younger(i)', x # v PROVE x \in Younger(i)
        OBVIOUS
      <4>1. x \in Entry \ {i} /\ fwcache'[x].timer >= fwcache'[i].timer
        BY DEF Younger, Entry
      <4>2. fwcache'[x] = fwcache[x]
        BY <1>4, <4>1
      <4> QED BY <3>5, <4>1, <4>2 DEF Younger
    <3>7. Cardinality(Younger(i)') <= Cardinality(Younger(i)) + 1
      <4> DEFINE Y == Younger(i)
                 Z == Younger(i)'
      <4>0. Y \in SUBSET Entry /\ IsFiniteSet(Y) /\ Cardinality(Y) \in Nat /\ Z \in SUBSET (Y \cup {v})
        BY <3>3, <3>6 DEF Younger
      <4> HIDE DEF Y, Z
      <4>1. IsFiniteSet(Y \cup {v}) /\ Cardinality(Y \cup {v}) = IF v \in Y THEN Cardinality(Y) ELSE Cardinality(Y) + 1
        BY <4>0, FS_AddElement
      <4>2. Cardinality(Z) <= Cardinality(Y \cup {v}) /\ IsFiniteSet(Z)
        BY <4>0, <4>1, FS_Subset
      <4>3. Cardinality(Z) \in Nat
        BY <4>2, FS_CardinalityType
      <4>4. Cardinality(Z) <= Cardinality(Y) + 1
        BY <4>0, <4>1, <4>2, <4>3
      <4> QED BY <4>4 DEF Y, Z
    <3>8. Cardinality(Younger(i)') \in Nat
      <4>1. IsFiniteSet(Younger(i) \cup {v})
        BY <3>3, FS_AddElement
      <4> QED BY <3>6, <4>1, FS_Subset, FS_CardinalityType
    <3>9. Cardinality(Younger(i)') <= since'[j].others
      BY <3>1, <3>2, <3>3, <3>7, <3>8 DEF Holds
    <3> QED BY <3>1, <3>2, <3>5, <3>9 DEF Holds
  <2> QED BY <2>1, <2>2
<1> QED BY <1>3, <1>5, <1>6, <1>7 DEF FwTypeOK

\* A tick takes the same from all timers.
LEMMA StepTick ==
  ASSUME FwInv, uip_fw_periodic
  PROVE  FwInv'
<1>1. FwTypeOK /\ output' = output /\ sentThisTick' = FALSE
  BY DEF FwInv, uip_fw_periodic
<1>2. ASSUME NEW i \in Entry
      PROVE  /\ fwcache'[i].key = fwcache[i].key /\ fwcache[i].key \in Key \cup {NoPacketYet}
             /\ fwcache[i].timer \in 0 .. FW_TIME
             /\ fwcache'[i].timer = IF fwcache[i].timer > 0 THEN fwcache[i].timer - 1 ELSE 0
             /\ fwcache'[i] \in [timer : 0 .. FW_TIME, key : Key \cup {NoPacketYet}]
  <2>1. fwcache[i] \in [timer : 0 .. FW_TIME, key : Key \cup {NoPacketYet}]
    BY <1>1 DEF FwTypeOK
  <2> DEFINE t == IF fwcache[i].timer > 0 THEN fwcache[i].timer - 1 ELSE 0
  <2>2. fwcache'[i] = [fwcache[i] EXCEPT !.timer = t]
    BY DEF uip_fw_periodic
  <2>3. t \in 0 .. FW_TIME
    BY <2>1, FwSizes
  <2> QED BY <2>1, <2>2, <2>3
<1>3. ASSUME NEW k \in Key
      PROVE  /\ since'[k].others = since[k].others /\ since'[k].crowded = since[k].crowded
             /\ since[k].ticks \in Nat
             /\ since'[k].ticks = IF since[k].ticks + 1 <= FW_TIME THEN since[k].ticks + 1 ELSE FW_TIME
             /\ since'[k] \in [ticks : Nat, others : Nat, crowded : BOOLEAN]
  <2>1. since[k] \in [ticks : Nat, others : Nat, crowded : BOOLEAN]
    BY <1>1 DEF FwTypeOK
  <2> DEFINE m == Min({since[k].ticks + 1, FW_TIME})
  <2>2. since'[k] = [since[k] EXCEPT !.ticks = m]
    BY DEF uip_fw_periodic
  <2>3. m = IF since[k].ticks + 1 <= FW_TIME THEN since[k].ticks + 1 ELSE FW_TIME
    BY <2>1, SmallerOfTwo, FwSizes
  <2>4. m \in Nat
    BY <2>1, <2>3, FwSizes
  <2> HIDE DEF m
  <2> QED BY <2>1, <2>2, <2>3, <2>4
<1>4. FwTypeOK'
  <2>1. fwcache' \in [Entry -> [timer : 0 .. FW_TIME, key : Key \cup {NoPacketYet}]]
    BY <1>2 DEF uip_fw_periodic
  <2>2. since' \in [Key -> [ticks : Nat, others : Nat, crowded : BOOLEAN]]
    BY <1>3 DEF uip_fw_periodic
  <2> QED BY <1>1, <2>1, <2>2 DEF FwTypeOK
<1>5. \A i \in Entry : fwcache'[i].timer < FW_TIME
  BY <1>2, FwSizes
<1>6. ASSUME NEW k \in Key, Recent(k)' PROVE \E i \in Entry : Holds(k, i)'
  <2>1. since'[k].ticks < FW_TIME /\ since'[k].others < FWCACHE_SIZE /\ since'[k].crowded = FALSE
    BY <1>6 DEF Recent
  <2>2. since'[k].ticks = since[k].ticks + 1 /\ since[k].ticks + 1 < FW_TIME /\ since'[k].others = since[k].others
    BY <1>3, <2>1, FwSizes
  <2>3. Recent(k)
    BY <1>3, <2>1, <2>2, FwSizes DEF Recent
  <2>4. PICK i \in Entry : Holds(k, i)
    BY <2>3 DEF FwInv
  <2>5. fwcache[i].timer = FW_TIME - since[k].ticks /\ fwcache'[i].timer = FW_TIME - since'[k].ticks /\ fwcache'[i].timer > 0
    BY <1>2, <1>3, <2>2, <2>4, FwSizes DEF Holds
  <2>6. Younger(i)' \in SUBSET Younger(i)
    <3> SUFFICES ASSUME NEW x \in Younger(i)' PROVE x \in Younger(i)
      OBVIOUS
    <3>1. x \in Entry \ {i} /\ fwcache'[x].timer >= fwcache'[i].timer
      BY DEF Younger, Entry
    <3>2. fwcache[x].timer >= fwcache[i].timer
      BY <1>2, <2>5, <3>1, FwSizes
    <3> QED BY <3>1, <3>2 DEF Younger
  <2>7. Cardinality(Younger(i)') <= Cardinality(Younger(i)) /\ Cardinality(Younger(i)') \in Nat
    BY <2>6, YoungerIsFinite, FS_Subset, FS_CardinalityType
  <2>8. since[k].others \in Nat /\ Cardinality(Younger(i)) \in Nat
    BY <1>1, YoungerIsFinite DEF FwTypeOK
  <2>9. Cardinality(Younger(i)') <= since'[k].others
    BY <2>2, <2>4, <2>7, <2>8 DEF Holds
  <2> QED BY <1>2, <2>4, <2>5, <2>9 DEF Holds
<1>7. NotForwardedAgain'
  BY <1>1 DEF NotForwardedAgain, FwInv
<1> QED BY <1>4, <1>5, <1>6, <1>7 DEF FwInv

\* What goes out as forwarded was not in the cache, so it cannot have been recent.
LEMMA StepOutput ==
  ASSUME FwInv, NEW k \in Key, NEW by, uip_fw_output(k, by), by = "forward" => ~Cached(k)
  PROVE  FwInv'
<1>1. fwcache_register(k) /\ output' = [by |-> by, before |-> since[k]]
  BY DEF uip_fw_output
<1>2. /\ FwTypeOK' /\ sentThisTick' # FALSE
      /\ \A j \in Key : Recent(j)' => \E i \in Entry : Holds(j, i)'
  BY <1>1, StepRegister
<1>3. NotForwardedAgain'
  <2> SUFFICES ASSUME by = "forward"
               PROVE  \/ since[k].ticks >= FW_TIME
                      \/ since[k].others >= FWCACHE_SIZE
                      \/ since[k].crowded
    BY <1>1 DEF NotForwardedAgain
  <2>1. since[k].ticks \in Nat /\ since[k].others \in Nat /\ since[k].crowded \in BOOLEAN
    BY DEF FwInv, FwTypeOK
  <2>2. ~Recent(k)
    <3> SUFFICES ASSUME Recent(k) PROVE FALSE
      OBVIOUS
    <3>1. PICK i \in Entry : Holds(k, i)
      BY DEF FwInv
    <3>2. fwcache[i].timer # 0 /\ fwcache[i].key = k
      BY <2>1, <3>1, FwSizes DEF Holds, Recent
    <3> QED BY <3>2 DEF Cached
  <2>3. ~(since[k].crowded = FALSE) => since[k].crowded
    BY <2>1
  <2>4. CASE since[k].crowded = FALSE
    BY <2>1, <2>2, <2>4, FwSizes DEF Recent
  <2> QED BY <2>3, <2>4
<1> QED BY <1>2, <1>3 DEF FwInv

LEMMA NextForward == FwInv /\ [FwNext]_fwVars => FwInv'
<1> SUFFICES ASSUME FwInv, [FwNext]_fwVars PROVE FwInv'
  OBVIOUS
<1>1. \A k \in Sent : k \in Key /\ TimeExceeded(k) \in Key
  BY DEF Key
<1>2. ASSUME NEW k \in Sent, NEW alive \in BOOLEAN, uip_fw_forward(k, alive) PROVE FwInv'
  <2>1. CASE uip_fw_output(k, "forward")
    BY <1>1, <1>2, <2>1, StepOutput DEF uip_fw_forward
  <2>2. CASE uip_fw_output(TimeExceeded(k), "time_exceeded")
    BY <1>1, <2>2, StepOutput
  <2> QED BY <1>2, <2>1, <2>2 DEF uip_fw_forward
<1>3. ASSUME NEW k \in Sent, uip_fw_output(k, "own") PROVE FwInv'
  BY <1>1, <1>3, StepOutput
<1>4. CASE uip_fw_periodic
  BY <1>4, StepTick
<1>5. CASE UNCHANGED fwVars
  BY <1>5 DEF fwVars, FwInv, FwTypeOK, NotForwardedAgain, Recent, Holds, Younger
<1> QED BY <1>2, <1>3, <1>4, <1>5 DEF FwNext

\* A packet that comes back is not forwarded again (uip_fw_forward looks it up in the
\* cache) until FW_TIME ticks later or as many other packets as the cache holds,
\* except where two packets of one tick leave which is the oldest to their places.
THEOREM ForwardedOnce == FwSpec => []NotForwardedAgain
<1>1. FwSpec => []FwInv
  BY InitForward, NextForward, PTL DEF FwSpec
<1>2. FwInv => NotForwardedAgain
  BY DEF FwInv
<1> QED BY <1>1, <1>2, PTL
-----------------------------------------------------------------------------
(* The accounts of the server. *)

Thread == [serves : Nat, started : BOOLEAN, runs : BOOLEAN]

\* What holds between the steps: the local variable points to the newest account,
\* so that a thread that has yet to read it is not behind.
ServerInv ==
    /\ server \in {"off", "listening", "stopped"}
    /\ thread \in Seq(Thread)
    /\ gca = Len(thread)
    /\ \A i \in DOMAIN thread : thread[i].started => thread[i].serves \in i .. Len(thread)

\* A function on the domain of a sequence is a sequence as long.
LEMMA SameLength ==
  ASSUME NEW S, NEW s \in Seq(S), NEW f \in [DOMAIN s -> S]
  PROVE  f \in Seq(S) /\ Len(f) = Len(s) /\ DOMAIN f = DOMAIN s
<1>1. DOMAIN s = 1 .. Len(s) /\ Len(s) \in Nat
  OBVIOUS
<1> QED BY <1>1

LEMMA InitServer == ServerInit => ServerInv
  BY DEF ServerInit, ServerInv

\* No step of the server or of a thread breaks it.
LEMMA NextServer == ServerInv /\ [ServerNext]_serverVars => ServerInv'
<1> SUFFICES ASSUME ServerInv, [ServerNext]_serverVars PROVE ServerInv'
  OBVIOUS
<1>0. thread \in [DOMAIN thread -> Thread]
  BY DEF ServerInv
<1>1. CASE Start
  BY <1>1 DEF Start, ServerInv
<1>2. CASE Register
  <2>1. thread' \in Seq(Thread)
    BY <1>2 DEF Register, ServerInv, Thread
  <2>2. gca' = Len(thread') /\ Len(thread') = Len(thread) + 1
    BY <1>2 DEF Register, ServerInv
  <2>3. \A i \in DOMAIN thread' : thread'[i].started => thread'[i].serves \in i .. Len(thread')
    BY <1>2, <2>2 DEF Register, ServerInv
  <2> QED BY <1>2, <2>1, <2>2, <2>3 DEF Register, ServerInv
<1>3. CASE RegistrationFails
  <2>1. thread' = Stopped /\ gca' = gca /\ server' = "stopped"
    BY <1>3 DEF RegistrationFails, Exit
  <2>2. Stopped \in [DOMAIN thread -> Thread]
    BY <1>0 DEF Stopped, Thread
  <2>3. thread' \in Seq(Thread) /\ Len(thread') = Len(thread) /\ DOMAIN thread' = DOMAIN thread
    BY <2>1, <2>2, SameLength DEF ServerInv
  <2>4. ASSUME NEW i \in DOMAIN thread
        PROVE  thread'[i].started = thread[i].started /\ thread'[i].serves = thread[i].serves
    BY <1>0, <2>1 DEF Stopped, Thread
  <2> QED BY <2>1, <2>3, <2>4 DEF ServerInv
<1>4. ASSUME NEW i \in DOMAIN thread, ReadAccount(i) PROVE ServerInv'
  <2>1. thread' = [thread EXCEPT ![i].started = TRUE, ![i].serves = gca] /\ UNCHANGED <<server, gca>>
    BY <1>4 DEF ReadAccount
  <2>2. gca \in Nat /\ thread[i] \in Thread /\ i \in 1 .. Len(thread)
    BY DEF ServerInv
  <2>3. thread' \in [DOMAIN thread -> Thread]
    BY <1>0, <2>1, <2>2 DEF Thread
  <2>4. thread' \in Seq(Thread) /\ Len(thread') = Len(thread) /\ DOMAIN thread' = DOMAIN thread
    BY <2>3, SameLength DEF ServerInv
  <2>5. thread'[i].serves = Len(thread)
    BY <1>0, <2>1, <2>2 DEF ServerInv, Thread
  <2>6. ASSUME NEW j \in DOMAIN thread, j # i PROVE thread'[j] = thread[j]
    BY <2>1, <2>6 DEF ServerInv
  <2>7. \A j \in DOMAIN thread' : thread'[j].started => thread'[j].serves \in j .. Len(thread')
    BY <2>2, <2>4, <2>5, <2>6 DEF ServerInv
  <2> QED BY <2>1, <2>4, <2>7 DEF ServerInv
<1>5. ASSUME NEW i \in DOMAIN thread, EndOfThread(i) PROVE ServerInv'
  <2>1. thread' = [thread EXCEPT ![i].runs = FALSE] /\ UNCHANGED <<server, gca>>
    BY <1>5 DEF EndOfThread
  <2>2. thread' \in [DOMAIN thread -> Thread]
    BY <1>0, <2>1 DEF Thread
  <2>3. thread' \in Seq(Thread) /\ Len(thread') = Len(thread) /\ DOMAIN thread' = DOMAIN thread
    BY <2>2, SameLength DEF ServerInv
  <2>4. ASSUME NEW j \in DOMAIN thread
        PROVE  thread'[j].started = thread[j].started /\ thread'[j].serves = thread[j].serves
    BY <1>0, <2>1 DEF Thread
  <2> QED BY <2>1, <2>3, <2>4 DEF ServerInv
<1>6. CASE UNCHANGED serverVars
  BY <1>6 DEF serverVars, ServerInv
<1> QED BY <1>1, <1>2, <1>3, <1>4, <1>5, <1>6 DEF ServerNext

\* With all threads started, the one made last serves the newest account.
LEMMA ServerInvServes == ServerInv => NewestServed
<1> SUFFICES ASSUME ServerInv PROVE NewestServed
  OBVIOUS
<1>1. \A i \in DOMAIN thread : thread[i].started => thread[i].serves \in i .. Len(thread)
  BY DEF ServerInv
<1>2. ASSUME thread # <<>>, \A i \in DOMAIN thread : thread[i].started
      PROVE \E i \in DOMAIN thread : thread[i].serves = Len(thread)
  <2>1. Len(thread) \in DOMAIN thread
    BY <1>2 DEF ServerInv
  <2> QED BY <1>1, <1>2, <2>1 DEF ServerInv
<1> QED BY <1>1, <1>2 DEF NewestServed

\* However registrations, starting threads and their ends interleave, a thread never
\* serves an account older than its own, and the newest account is never the one
\* that is lost (main and threadfunc of the Dispatcher).
THEOREM NewestIsServed == ServerSpec => []NewestServed
<1>1. ServerSpec => []ServerInv
  BY InitServer, NextServer, PTL DEF ServerSpec
<1> QED BY <1>1, ServerInvServes, PTL

-----------------------------------------------------------------------------
(* What comes in over IP. *)

\* The clock has no address or its own, and what is given to a handler passed its sums.
MailInv == uip_hostaddr \in {Zeroes, Own} /\ NothingHurtIsUsed

\* The packet that is handled passed the sums of who handles it, and was for the clock.
LEMMA HandledPasses ==
    ASSUME UdpSums, uip_hostaddr \in {Zeroes, Own}, uip_input
    PROVE  /\ NothingHurtIsUsed'
           /\ uip_hostaddr = Own =>
                handled'.packet.dest = Own \/ (handled'.packet.dest = Ones /\ handled'.by = "dhcpc")
           /\ UNCHANGED uip_hostaddr
<1>1. PICK p \in Packet : Accepted(p) /\ (tcp(p) \/ udp_input(p) \/ icmp(p))
  BY DEF uip_input
<1>2. p.hurt \in {"none", "header", "both", "upper"}
  BY DEF Packet
<1>3. (Broadcast(p) /\ p.proto = "udp" /\ p.dest = Ones) \/ (ForUs(p) /\ p.hurt \in {"none", "upper"})
  BY <1>1, <1>2 DEF Accepted, Broadcast, IpSum
<1>4. uip_hostaddr = Own /\ ForUs(p) => p.dest = Own
  BY IpInputAssumption DEF ForUs, Zeroes
<1>5. CASE tcp(p)
  <2>1. /\ handled' = [packet |-> p, by |-> "tcp"] /\ UNCHANGED uip_hostaddr
        /\ p.proto = "tcp" /\ p.hurt \in {"none", "header"}
    BY <1>2, <1>5 DEF tcp, TcpSum, Handle
  <2> QED BY <1>3, <1>4, <2>1 DEF NothingHurtIsUsed
<1>6. CASE udp_input(p)
  <2>1. /\ handled' = [packet |-> p, by |-> "dhcpc"] /\ UNCHANGED uip_hostaddr
        /\ p.hurt \in {"none", "header"}
    BY <1>2, <1>6 DEF udp_input, UdpSum, Handle
  <2> QED BY <1>3, <1>4, <2>1 DEF NothingHurtIsUsed
<1>7. CASE icmp(p)
  <2>1. /\ handled' = [packet |-> p, by |-> "echo"] /\ UNCHANGED uip_hostaddr
        /\ p.proto = "icmp"
    BY <1>7 DEF icmp, Handle
  <2> QED BY <1>3, <1>4, <2>1 DEF NothingHurtIsUsed
<1> QED BY <1>1, <1>5, <1>6, <1>7

\* Where senders fill in the UDP checksum, TCP and the DHCP client are given nothing that was
\* damaged on the way, and once the clock has its address nobody else's packets
\* (uip_process, uip_ipchksum, uip_tcpchksum, uip_udpchksum).
THEOREM MailIsRight ==
    ASSUME UdpSums
    PROVE  IpSpec => RightMail
<1>1. IpInit => MailInv
  BY DEF IpInit, MailInv, NothingHurtIsUsed
<1>2. MailInv /\ [IpNext]_ipVars =>
        /\ MailInv'
        /\ uip_hostaddr = Own /\ handled' # handled =>
             handled'.packet.dest = Own \/ (handled'.packet.dest = Ones /\ handled'.by = "dhcpc")
  <2> SUFFICES ASSUME MailInv, [IpNext]_ipVars
               PROVE  /\ MailInv'
                      /\ uip_hostaddr = Own /\ handled' # handled =>
                           handled'.packet.dest = Own \/ (handled'.packet.dest = Ones /\ handled'.by = "dhcpc")
    OBVIOUS
  <2>1. CASE uip_input
    BY <2>1, HandledPasses DEF MailInv
  <2>2. CASE uip_udp_new \/ uip_sethostaddr \/ UNCHANGED ipVars
    BY <2>2 DEF uip_udp_new, uip_sethostaddr, ipVars, MailInv, NothingHurtIsUsed
  <2> QED BY <2>1, <2>2 DEF IpNext
<1>3. MailInv => NothingHurtIsUsed
  BY DEF MailInv
<1>4. MailInv /\ [IpNext]_ipVars =>
        [uip_hostaddr = Own /\ handled' # handled =>
          handled'.packet.dest = Own \/ (handled'.packet.dest = Ones /\ handled'.by = "dhcpc")]_ipVars
  BY <1>2
<1> QED BY <1>1, <1>2, <1>3, <1>4, PTL DEF IpSpec, RightMail, OthersMailLeft
-----------------------------------------------------------------------------
(* The lease of the DHCP client. *)

\* An address and a server that belong together, or no address.
Fits(giver, addr) == addr # NoAddr => giver \in Server /\ addr \in Pool[giver]

\* What the messages sent so far promise.
NetTrue ==
    \A m \in net :
        /\ Fits(m.server, m.addr)
        /\ m.type \in {"offer", "ack", "nak"} => m.server \in Server
        /\ m.type = "ack" => m.addr \in bound

\* Nobody else has what the clock was leased.
LeasesApart == bound \cap taken = {}

\* What the client and the clock hold belongs together.
ClientFits ==
    /\ Fits(serverid, ipaddr)
    /\ Fits(host.router, host.addr)
    /\ host.addr # NoAddr => host.addr \in bound

IInv == DhcpcTypeOK /\ NetTrue /\ LeasesApart /\ ClientFits
-----------------------------------------------------------------------------
\* An address of a pool is an address, and not 0.0.0.0.
LEMMA PoolIsAddr ==
    ASSUME NEW p \in Server, NEW a \in Pool[p]
    PROVE  a \in PoolAddr /\ a # NoAddr
BY DhcpcAssumption DEF PoolAddr

\* The invariant says what the run checks.
LEMMA InvImplies == IInv => LeaseInv
<1> SUFFICES ASSUME IInv PROVE LeaseInv
    OBVIOUS
<1> USE DEF IInv
<1>1. LeasedToUs
    BY DEF LeasedToUs, LeasesApart, ClientFits
<1>2. OneServersConfig
    BY DEF OneServersConfig, ClientFits, Fits
<1>3. RequestsFit
    BY DEF RequestsFit, NetTrue, Fits
<1> QED
    BY <1>1, <1>2, <1>3 DEF LeaseInv

LEMMA InitHolds == DhcpcInit => IInv
BY DhcpcAssumption DEF DhcpcInit, IInv, DhcpcTypeOK, NetTrue, LeasesApart, ClientFits, Fits,
    Unconfigured, Message

\* A message that the client creates from its state keeps the net true.
LEMMA SendKeeps ==
    ASSUME net \subseteq Message, NetTrue, bound' = bound,
           NEW m \in Message, m.type \in {"discover", "request"}, Fits(m.server, m.addr),
           net' = net \cup {m}
    PROVE  net' \subseteq Message /\ NetTrue'
BY DEF NetTrue, Fits

\* An answer comes from a server and says what fits.
LEMMA AnswerFits ==
    ASSUME IInv, NEW m \in Answers
    PROVE  /\ m \in Message /\ m \in net
           /\ m.server \in Server
           /\ m.addr \in PoolAddr \cup {NoAddr}
           /\ Fits(m.server, m.addr)
           /\ m.type = "ack" => m.addr \in bound
BY DEF IInv, DhcpcTypeOK, NetTrue, Answers, Message

\* The messages of the client have the type of messages.
LEMMA OwnMessages ==
    /\ Msg("discover", NoServer, NoAddr) \in Message
    /\ \A s \in Server \cup {NoServer}, a \in PoolAddr \cup {NoAddr} : Msg("request", s, a) \in Message
BY DEF Msg, Message
-----------------------------------------------------------------------------
\* The part of the invariant that is about the client's own variables.
ClientType ==
    /\ pt \in {"start", "discover", "request", "configured"}
    /\ ipaddr \in PoolAddr \cup {NoAddr}
    /\ serverid \in Server \cup {NoServer}
    /\ router \in Server \cup {NoServer}
    /\ ticks \in Nat
    /\ pt = "discover" => ticks < 2 * DiscoverLimit
    /\ pt = "request" => ticks <= RequestLimit + 1

\* A step of the client that leaves leases and configuration alone keeps the invariant
\* if what it has in its hands afterwards fits and what it sends is made of that.
LEMMA ClientStep ==
    ASSUME IInv, ClientType', Fits(serverid, ipaddr)',
           UNCHANGED <<host, servers, restarts>>,
           \/ UNCHANGED net
           \/ net' = net \cup {Msg("discover", NoServer, NoAddr)}
           \/ net' = net \cup {Msg("request", serverid', ipaddr')}
    PROVE  IInv'
<1>1. UNCHANGED <<host, bound, taken, restarts>>
    BY DEF servers
<1>2. net' \subseteq Message /\ NetTrue'
    <2>1. CASE UNCHANGED net
        BY <1>1, <2>1 DEF IInv, DhcpcTypeOK, NetTrue, Fits
    <2>2. CASE net' = net \cup {Msg("discover", NoServer, NoAddr)}
        <3>1. Fits(Msg("discover", NoServer, NoAddr).server, Msg("discover", NoServer, NoAddr).addr)
            BY DEF Msg, Fits
        <3>2. Msg("discover", NoServer, NoAddr).type = "discover"
            BY DEF Msg
        <3> QED
            BY <1>1, <2>2, <3>1, <3>2, SendKeeps, OwnMessages DEF IInv, DhcpcTypeOK
    <2>3. CASE net' = net \cup {Msg("request", serverid', ipaddr')}
        <3>1. Fits(Msg("request", serverid', ipaddr').server, Msg("request", serverid', ipaddr').addr)
            BY DEF Msg, Fits
        <3>2. Msg("request", serverid', ipaddr').type = "request"
            BY DEF Msg
        <3>3. Msg("request", serverid', ipaddr') \in Message
            BY OwnMessages DEF ClientType
        <3> QED
            BY <1>1, <2>3, <3>1, <3>2, <3>3, SendKeeps DEF IInv, DhcpcTypeOK
    <2> QED
        BY <2>1, <2>2, <2>3
<1>3. DhcpcTypeOK'
    BY <1>1, <1>2 DEF IInv, DhcpcTypeOK, ClientType
<1>4. LeasesApart' /\ ClientFits'
    BY <1>1 DEF IInv, LeasesApart, ClientFits, Fits
<1> QED
    BY <1>2, <1>3, <1>4 DEF IInv

\* A round that failed leaves the pause within its limit and sends what the client holds.
LEMMA AgainKeeps ==
    ASSUME IInv,
           ipaddr' \in PoolAddr \cup {NoAddr},
           serverid' \in Server \cup {NoServer},
           router' \in Server \cup {NoServer},
           Fits(serverid, ipaddr)',
           UNCHANGED <<host, servers, restarts>>,
           (pt = "discover" /\ DiscoverAgain) \/ (pt = "request" /\ RequestAgain)
    PROVE  IInv'
<1>1. ClientType'
    <2>1. CASE pt = "discover" /\ DiscoverAgain
        BY <2>1, DhcpcAssumption DEF IInv, DhcpcTypeOK, ClientType, DiscoverAgain
    <2>2. CASE pt = "request" /\ RequestAgain
        BY <2>2, DhcpcAssumption DEF IInv, DhcpcTypeOK, ClientType, RequestAgain
    <2> QED
        BY <2>1, <2>2
<1>2. \/ UNCHANGED net
      \/ net' = net \cup {Msg("discover", NoServer, NoAddr)}
      \/ net' = net \cup {Msg("request", serverid', ipaddr')}
    BY DEF DiscoverAgain, RequestAgain, send_discover, send_request
<1> QED
    BY <1>1, <1>2, ClientStep
-----------------------------------------------------------------------------
\* Every step of the client, of the servers and of the other hosts keeps the invariant.
LEMMA NextKeeps == IInv /\ [DhcpcNext]_dhcpcVars => IInv'
<1> SUFFICES ASSUME IInv, [DhcpcNext]_dhcpcVars PROVE IInv'
    OBVIOUS
<1>1. CASE Begin
    <2>1. ClientType' /\ Fits(serverid, ipaddr)'
        BY <1>1, DhcpcAssumption DEF IInv, DhcpcTypeOK, ClientFits, Fits, ClientType, Begin, Nothing
    <2> QED
        BY <1>1, <2>1, ClientStep DEF Begin, send_discover
<1>2. CASE NoAnswer
    <2>1. UNCHANGED <<ipaddr, serverid, router>>
        BY <1>2 DEF NoAnswer, Nothing
    <2>2. /\ ipaddr' \in PoolAddr \cup {NoAddr}
          /\ serverid' \in Server \cup {NoServer}
          /\ router' \in Server \cup {NoServer}
          /\ Fits(serverid, ipaddr)'
        BY <2>1 DEF IInv, DhcpcTypeOK, ClientFits, Fits
    <2> QED
        BY <1>2, <2>2, AgainKeeps DEF NoAnswer
<1>3. CASE Arrival
    <2> PICK m \in Answers : Offered(m) \/ Acknowledged(m) \/ WrongAnswer(m)
        BY <1>3 DEF Arrival
    <2>1. parse_msg(m)
        BY DEF Offered, Acknowledged, WrongAnswer
    <2>2. /\ ipaddr' \in PoolAddr \cup {NoAddr}
          /\ serverid' \in Server \cup {NoServer}
          /\ router' \in Server \cup {NoServer}
          /\ Fits(serverid, ipaddr)'
        BY <2>1, AnswerFits DEF parse_msg, parse_options, IInv, DhcpcTypeOK, Fits
    <2>3. CASE Offered(m)
        <3>1. ClientType'
            BY <2>2, <2>3, DhcpcAssumption DEF ClientType, Offered
        <3> QED
            BY <2>2, <2>3, <3>1, ClientStep DEF Offered, send_request
    <2>4. CASE Acknowledged(m)
        <3>1. /\ m.server \in Server
              /\ m.addr \in PoolAddr \cup {NoAddr}
              /\ m.type = "ack"
              /\ m.addr \in bound
              /\ Fits(m.server, m.addr)
            BY <2>4, AnswerFits DEF Acknowledged
        <3>2. host' = [addr |-> m.addr, router |-> m.server]
            BY <2>4, <3>1 DEF Acknowledged, parse_msg, parse_options, dhcpc_configured
        <3>3. UNCHANGED <<ticks, net, bound, taken, restarts>> /\ pt' = "configured"
            BY <2>4 DEF Acknowledged, servers
        <3>4. host' \in [addr : PoolAddr \cup {NoAddr}, router : Server \cup {NoServer}]
            BY <3>1, <3>2
        <3>5. DhcpcTypeOK'
            BY <2>2, <3>3, <3>4 DEF IInv, DhcpcTypeOK
        <3>6. NetTrue' /\ LeasesApart'
            BY <3>3 DEF IInv, NetTrue, LeasesApart, Fits
        <3>7. ClientFits'
            BY <2>2, <3>1, <3>2, <3>3 DEF ClientFits, Fits
        <3> QED
            BY <3>5, <3>6, <3>7 DEF IInv
    <2>5. CASE WrongAnswer(m)
        BY <2>2, <2>5, AgainKeeps DEF WrongAnswer
    <2> QED
        BY <2>3, <2>4, <2>5
<1>4. CASE dhcpc_init
    <2>1. UNCHANGED <<net, bound, taken>>
        BY <1>4 DEF dhcpc_init, servers
    <2>2. DhcpcTypeOK'
        BY <1>4, <2>1, DhcpcAssumption DEF dhcpc_init, IInv, DhcpcTypeOK, Unconfigured
    <2>3. NetTrue' /\ LeasesApart' /\ ClientFits'
        BY <1>4, <2>1 DEF dhcpc_init, IInv, NetTrue, LeasesApart, ClientFits, Fits, Unconfigured
    <2> QED
        BY <2>2, <2>3 DEF IInv
<1>5. CASE \E p \in Server : \E a \in Pool[p] : Offer(p, a) \/ Take(p, a)
    <2> PICK p \in Server : \E a \in Pool[p] : Offer(p, a) \/ Take(p, a)
        BY <1>5
    <2> PICK a \in Pool[p] : Offer(p, a) \/ Take(p, a)
        OBVIOUS
    <2>1. a \in PoolAddr /\ a # NoAddr
        BY PoolIsAddr
    <2>2. CASE Offer(p, a)
        <3>1. UNCHANGED <<pt, ipaddr, serverid, router, ticks, host, bound, taken, restarts>>
            BY <2>2 DEF Offer, client, servers
        <3>2. net' = net \cup {Msg("offer", p, a)}
            BY <2>2 DEF Offer
        <3>3. Msg("offer", p, a) \in Message
            BY <2>1 DEF Msg, Message
        <3>4. DhcpcTypeOK'
            BY <3>1, <3>2, <3>3 DEF IInv, DhcpcTypeOK
        <3>5. NetTrue'
            BY <3>1, <3>2 DEF IInv, NetTrue, Fits, Msg
        <3>6. LeasesApart' /\ ClientFits'
            BY <3>1 DEF IInv, LeasesApart, ClientFits, Fits
        <3> QED
            BY <3>4, <3>5, <3>6 DEF IInv
    <2>3. CASE Take(p, a)
        <3>1. UNCHANGED <<pt, ipaddr, serverid, router, ticks, host, net, bound, restarts>>
            BY <2>3 DEF Take, client
        <3>2. taken' = taken \cup {a} /\ a \notin bound
            BY <2>3 DEF Take
        <3>3. DhcpcTypeOK'
            BY <2>1, <3>1, <3>2 DEF IInv, DhcpcTypeOK
        <3>4. LeasesApart'
            BY <3>1, <3>2 DEF IInv, LeasesApart
        <3>5. NetTrue' /\ ClientFits'
            BY <3>1 DEF IInv, NetTrue, ClientFits, Fits
        <3> QED
            BY <3>3, <3>4, <3>5 DEF IInv
    <2> QED
        BY <2>2, <2>3
<1>6. CASE \E m \in net : Reply(m)
    <2> PICK m \in net : Reply(m)
        BY <1>6
    <2>1. UNCHANGED <<pt, ipaddr, serverid, router, ticks, host, taken, restarts>>
        BY DEF Reply, client
    <2>2. CASE /\ m.addr \in Pool[m.server] \ taken
               /\ bound' = bound \cup {m.addr}
               /\ net' = net \cup {Msg("ack", m.server, m.addr)}
        <3>1. m.server \in Server
            BY DEF Reply
        <3>2. m.addr \in PoolAddr
            BY <2>2, <3>1, PoolIsAddr
        <3>3. Msg("ack", m.server, m.addr) \in Message
            BY <3>1, <3>2 DEF Msg, Message
        <3>4. DhcpcTypeOK'
            BY <2>1, <2>2, <3>2, <3>3 DEF IInv, DhcpcTypeOK
        <3>5. NetTrue'
            BY <2>2, <3>1 DEF IInv, NetTrue, Fits, Msg
        <3>6. LeasesApart' /\ ClientFits'
            BY <2>1, <2>2 DEF IInv, LeasesApart, ClientFits, Fits
        <3> QED
            BY <3>4, <3>5, <3>6 DEF IInv
    <2>3. CASE net' = net \cup {Msg("nak", m.server, NoAddr)} /\ UNCHANGED bound
        <3>1. m.server \in Server
            BY DEF Reply
        <3>2. Msg("nak", m.server, NoAddr) \in Message
            BY <3>1 DEF Msg, Message
        <3>3. DhcpcTypeOK'
            BY <2>1, <2>3, <3>2 DEF IInv, DhcpcTypeOK
        <3>4. NetTrue'
            BY <2>3, <3>1 DEF IInv, NetTrue, Fits, Msg
        <3>5. LeasesApart' /\ ClientFits'
            BY <2>1, <2>3 DEF IInv, LeasesApart, ClientFits, Fits
        <3> QED
            BY <3>3, <3>4, <3>5 DEF IInv
    <2> QED
        BY <2>2, <2>3 DEF Reply
<1>7. CASE UNCHANGED dhcpcVars
    BY <1>7 DEF dhcpcVars, client, servers, IInv, DhcpcTypeOK, NetTrue, LeasesApart, ClientFits, Fits
<1> QED
    BY <1>1, <1>2, <1>3, <1>4, <1>5, <1>6, <1>7 DEF DhcpcNext

\* The clock asks for, and uses, only what one server gave it and gave to no other
\* host, whatever answers of earlier rounds handle_dhcp takes over before it looks at
\* their type, and however often it is restarted.
THEOREM LeaseIsOurs == DhcpcSpec => []LeaseInv
<1>1. DhcpcInit => IInv
    BY InitHolds
<1>2. IInv /\ [DhcpcNext]_dhcpcVars => IInv'
    BY NextKeeps
<1>3. IInv => LeaseInv
    BY InvImplies
<1> QED
    BY <1>1, <1>2, <1>3, PTL DEF DhcpcSpec
-----------------------------------------------------------------------------
(* The timers of the main loop. *)

\* The distance from the start of its interval is what a timer's clock shows.
ShowsLag == \A t \in Timer : (tick - start[t]) % Word = lag[t]

LoopInv == LoopTypeOK /\ ShowsLag /\ StableOverTime

LEMMA LoopSizes ==
  /\ Word \in Nat \ {0, 1} /\ Interval \in Nat \ {0} /\ MaxLag \in Nat
  /\ Interval <= MaxLag /\ MaxLag < Word
BY MainLoopAssumption

\* The difference of two values of a word.
LEMMA WordDifference ==
  ASSUME NEW n \in Nat \ {0}, NEW a \in 0 .. n - 1, NEW b \in 0 .. n - 1
  PROVE  (a - b) % n = IF a >= b THEN a - b ELSE a - b + n
<1>1. CASE a >= b
  BY <1>1
<1>2. CASE a < b
  BY <1>2
<1> QED BY <1>1, <1>2

\* A word that a number below the word's size is added to.
LEMMA WordSum ==
  ASSUME NEW n \in Nat \ {0}, NEW a \in 0 .. n - 1, NEW k \in 0 .. n - 1
  PROVE  /\ (a + k) % n = IF a + k < n THEN a + k ELSE a + k - n
         /\ (a + k) % n \in 0 .. n - 1
<1>1. CASE a + k < n
  BY <1>1
<1>2. CASE a + k >= n
  BY <1>2
<1> QED BY <1>1, <1>2

\* Whole intervals stay whole when one is added or taken away.
LEMMA OneMore ==
  ASSUME NEW n \in Nat \ {0}, NEW x \in Int, x % n = 0
  PROVE  (x + n) % n = 0 /\ (x - n) % n = 0
<1>1. x = n * (x \div n)
  OBVIOUS
<1>2. PICK q \in Int : x = n * q
  BY <1>1
<1>3. x + n = n * (q + 1) /\ x - n = n * (q - 1)
  BY <1>2
<1> QED BY <1>3

LEMMA InitLoop == LoopInit => LoopInv
<1> SUFFICES ASSUME LoopInit PROVE LoopInv
  OBVIOUS
<1>1. LoopTypeOK
  BY LoopSizes DEF LoopInit, LoopTypeOK, Timer
<1>2. 0 % Word = 0 /\ 0 % Interval = 0
  BY LoopSizes
<1>3. \A t \in Timer : tick - start[t] = 0
  BY LoopSizes DEF LoopInit
<1>4. lag["periodic"] - lag["arp"] = 0 /\ \A t \in Timer : lag[t] = 0
  BY DEF LoopInit, Timer
<1> QED BY <1>1, <1>2, <1>3, <1>4 DEF LoopInv, ShowsLag, StableOverTime

\* A timer is found expired when it is.
LEMMA ExpiredByLag ==
  ASSUME LoopInv, NEW t \in Timer
  PROVE  timer_expired(t) <=> lag[t] >= Interval
BY DEF LoopInv, ShowsLag, timer_expired

\* The clock counts for both timers.
LEMMA StepTickLoop ==
  ASSUME LoopInv, timer0_periodic_task
  PROVE  LoopInv'
<1>1. /\ tick \in 0 .. Word - 1 /\ start \in [Timer -> 0 .. Word - 1] /\ lag \in [Timer -> 0 .. MaxLag]
      /\ tick' = (tick + 1) % Word /\ start' = start /\ turn' = turn /\ ran' = "none"
      /\ lag' = [t \in Timer |-> lag[t] + 1] /\ \A t \in Timer : lag[t] < MaxLag
  BY DEF timer0_periodic_task, LoopInv, LoopTypeOK
<1>2. tick' = (IF tick + 1 < Word THEN tick + 1 ELSE tick + 1 - Word) /\ tick' \in 0 .. Word - 1
  <2>1. 1 \in 0 .. Word - 1 /\ Word \in Nat \ {0}
    BY LoopSizes
  <2> QED BY <1>1, <2>1, WordSum
<1>3. \A t \in Timer : lag'[t] = lag[t] + 1 /\ lag'[t] \in 0 .. MaxLag
  BY <1>1, LoopSizes
<1>4. LoopTypeOK'
  BY <1>1, <1>2, <1>3 DEF LoopInv, LoopTypeOK
<1>5. ASSUME NEW t \in Timer PROVE (tick' - start'[t]) % Word = lag'[t]
  <2>1. start[t] \in 0 .. Word - 1 /\ lag[t] \in 0 .. MaxLag /\ lag[t] < MaxLag
    BY <1>1
  <2>2. lag[t] = IF tick >= start[t] THEN tick - start[t] ELSE tick - start[t] + Word
    BY <1>1, <2>1, LoopSizes, WordDifference DEF LoopInv, ShowsLag
  <2>3. (tick' - start'[t]) % Word = IF tick' >= start[t] THEN tick' - start[t] ELSE tick' - start[t] + Word
    BY <1>1, <1>2, <2>1, LoopSizes, WordDifference
  <2> QED BY <1>1, <1>2, <1>3, <2>1, <2>2, <2>3, LoopSizes
<1>6. StableOverTime'
  <2>1. lag'["periodic"] - lag'["arp"] = lag["periodic"] - lag["arp"]
    BY <1>1 DEF Timer
  <2> QED BY <2>1 DEF LoopInv, StableOverTime
<1> QED BY <1>4, <1>5, <1>6 DEF LoopInv, ShowsLag

\* A timer that has expired begins its next interval where the last one ended.
LEMMA StepServe ==
  ASSUME LoopInv, NEW s \in Timer, Serve(s), tick' = tick, turn' \in {"network", "periodic", "arp"}
  PROVE  LoopInv'
<1>1. /\ tick \in 0 .. Word - 1 /\ start \in [Timer -> 0 .. Word - 1] /\ lag \in [Timer -> 0 .. MaxLag]
  BY DEF LoopInv, LoopTypeOK
<1>2. CASE ~timer_expired(s)
  BY <1>2 DEF Serve, LoopInv, LoopTypeOK, ShowsLag, StableOverTime
<1>3. CASE timer_expired(s)
  <2>1. /\ start' = [start EXCEPT ![s] = (start[s] + Interval) % Word]
        /\ lag' = [lag EXCEPT ![s] = lag[s] - Interval]
        /\ ran' = s
    BY <1>3 DEF Serve, timer_reset
  <2>2. lag[s] >= Interval
    BY <1>3, ExpiredByLag
  <2>3. start[s] \in 0 .. Word - 1 /\ Interval \in 0 .. Word - 1 /\ lag[s] \in 0 .. MaxLag
    BY <1>1, LoopSizes
  <2>4. /\ start'[s] = (IF start[s] + Interval < Word THEN start[s] + Interval ELSE start[s] + Interval - Word)
        /\ start'[s] \in 0 .. Word - 1
    BY <1>1, <2>1, <2>3, LoopSizes, WordSum
  <2>5. lag'[s] = lag[s] - Interval /\ lag'[s] \in 0 .. MaxLag
    BY <1>1, <2>1, <2>2, <2>3, LoopSizes
  <2>6. \A t \in Timer : t # s => start'[t] = start[t] /\ lag'[t] = lag[t]
    BY <1>1, <2>1
  <2>7. LoopTypeOK'
    <3>1. start' \in [Timer -> 0 .. Word - 1]
      BY <1>1, <2>1, <2>4
    <3>2. lag' \in [Timer -> 0 .. MaxLag]
      BY <1>1, <2>1, <2>5
    <3> QED BY <1>1, <2>1, <3>1, <3>2 DEF LoopTypeOK
  <2>8. ASSUME NEW t \in Timer PROVE (tick' - start'[t]) % Word = lag'[t]
    <3>1. CASE t # s
      BY <2>6, <3>1 DEF LoopInv, ShowsLag
    <3>2. CASE t = s
      <4>1. lag[s] = IF tick >= start[s] THEN tick - start[s] ELSE tick - start[s] + Word
        BY <1>1, <2>3, LoopSizes, WordDifference DEF LoopInv, ShowsLag
      <4>2. (tick - start'[s]) % Word = IF tick >= start'[s] THEN tick - start'[s] ELSE tick - start'[s] + Word
        BY <1>1, <2>4, LoopSizes, WordDifference
      <4>3. (tick - start'[s]) % Word = lag'[s]
        BY <1>1, <2>2, <2>3, <2>4, <2>5, <4>1, <4>2, LoopSizes
      <4> QED BY <3>2, <4>3
    <3> QED BY <3>1, <3>2
  <2>9. StableOverTime'
    <3> DEFINE d == lag["periodic"] - lag["arp"]
    <3>1. d \in Int /\ d % Interval = 0
      BY <1>1 DEF LoopInv, StableOverTime, Timer
    <3>2. lag'["periodic"] - lag'["arp"] \in {d - Interval, d + Interval}
      <4>1. lag["periodic"] \in Int /\ lag["arp"] \in Int /\ Interval \in Int
        BY <1>1, LoopSizes DEF Timer
      <4>2. CASE s = "periodic"
        BY <2>5, <2>6, <4>1, <4>2 DEF Timer
      <4>3. CASE s = "arp"
        BY <2>5, <2>6, <4>1, <4>3 DEF Timer
      <4> QED BY <4>2, <4>3 DEF Timer
    <3> HIDE DEF d
    <3>3. (d - Interval) % Interval = 0 /\ (d + Interval) % Interval = 0
      BY <3>1, LoopSizes, OneMore
    <3> QED BY <3>2, <3>3 DEF StableOverTime
  <2> QED BY <2>7, <2>8, <2>9 DEF LoopInv, ShowsLag
<1> QED BY <1>2, <1>3

LEMMA NextLoop == LoopInv /\ [LoopNext]_loopVars => LoopInv'
<1> SUFFICES ASSUME LoopInv, [LoopNext]_loopVars PROVE LoopInv'
  OBVIOUS
<1>1. CASE timer0_periodic_task
  BY <1>1, StepTickLoop
<1>2. CASE PacketTurn \/ QuietTurn
  BY <1>2 DEF PacketTurn, QuietTurn, LoopInv, LoopTypeOK, ShowsLag, StableOverTime
<1>3. CASE PeriodicTurn
  <2>1. Serve("periodic") /\ tick' = tick /\ turn' \in {"network", "periodic", "arp"} /\ "periodic" \in Timer
    BY <1>3 DEF PeriodicTurn, Timer
  <2> QED BY <2>1, StepServe
<1>4. CASE ArpTurn
  <2>1. Serve("arp") /\ tick' = tick /\ turn' \in {"network", "periodic", "arp"} /\ "arp" \in Timer
    BY <1>4 DEF ArpTurn, Timer
  <2> QED BY <2>1, StepServe
<1>5. CASE UNCHANGED loopVars
  BY <1>5 DEF loopVars, LoopInv, LoopTypeOK, ShowsLag, StableOverTime
<1> QED BY <1>1, <1>2, <1>3, <1>4, <1>5 DEF LoopNext, Turn

\* Wherever the clock wraps, a timer expires when its interval is over and never loses
\* one, whatever the sizes of the word and the interval, as long as it is looked at
\* before the word has gone round (timer_expired and timer_reset).
THEOREM TimersAreRight == LoopSpec => []TimersInv
<1>1. LoopSpec => []LoopInv
  BY InitLoop, NextLoop, PTL DEF LoopSpec
<1>2. LoopInv => TimersInv
  BY ExpiredByLag DEF LoopInv, TimersInv, ExpiresOnTime
<1> QED BY <1>1, <1>2, PTL
=============================================================================
