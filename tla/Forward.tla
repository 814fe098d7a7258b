------------------------------- MODULE Forward -------------------------------
(* Packet forwarding (uip-fw.c): the cache that keeps a packet that comes back *)
(* from going round again, and the answer to one that has lived too long.  The *)
(* choice of an interface is left out.  The clock has one interface and never  *)
(* calls it; the module shows what the library does for a host with two.       *)
EXTENDS Integers, FiniteSetsExt

CONSTANTS
    Us,           \* uip_hostaddr
    All,          \* 255.255.255.255
    Host,         \* the hosts of the networks at hand
    Sent,         \* the packets there are: a source, a destination, a protocol, an id
    FWCACHE_SIZE, FW_TIME

ASSUME ForwardAssumption ==
    /\ Sent \subseteq [src : Host, dest : Host \cup {All}, proto : {"icmp", "other"}, id : Nat]
    /\ Us \in Host /\ All \notin Host
    /\ {FWCACHE_SIZE, FW_TIME} \subseteq Nat \ {0}

VARIABLES
    fwcache,      \* the packets sent of late
    output,       \* who sent the last packet that went out, and its `since' before
    since,        \* per packet: ticks and other packets since it went out last,
                  \* and whether two packets went out within a tick
    sentThisTick  \* has a packet gone out since the last tick?

fwVars == <<fwcache, output, since, sentThisTick>>

Entry == 0 .. FWCACHE_SIZE - 1

\* time_exceeded: the answer has the packet's id.
TimeExceeded(k) == [src |-> Us, dest |-> k.src, proto |-> "icmp", id |-> k.id]
Key == Sent \cup {TimeExceeded(k) : k \in Sent}

\* Mutant of Victim: the entry with the most time left.
VictimNewest ==
    LET free == {i \in Entry : fwcache[i].timer = 0}
        most == {i \in Entry : \A j \in Entry : fwcache[i].timer >= fwcache[j].timer}
    IN  IF free # {} THEN Min(free) ELSE Max(most)

\* The first free entry, or the last one of those with the least time left.
Victim ==
    LET free  == {i \in Entry : fwcache[i].timer = 0}
        least == {i \in Entry : \A j \in Entry : fwcache[i].timer <= fwcache[j].timer}
    IN  IF free # {} THEN Min(free) ELSE Max(least)

fwcache_register(k) ==
    /\ fwcache' = [fwcache EXCEPT ![Victim] = [timer |-> FW_TIME, key |-> k]]
    /\ sentThisTick' = TRUE
    /\ since' = [j \in Key |->
          IF j = k THEN [ticks |-> 0, others |-> 0, crowded |-> sentThisTick]
          ELSE [since[j] EXCEPT !.others = Min({@ + 1, FWCACHE_SIZE}),
                                !.crowded = @ \/ sentThisTick]]

\* On one interface, or a broadcast on all.
uip_fw_output(k, by) ==
    /\ fwcache_register(k)
    /\ output' = [by |-> by, before |-> since[k]]

Cached(k) == \E i \in Entry : fwcache[i].timer # 0 /\ fwcache[i].key = k

\* A packet that has come in: it is for the clock itself, it was sent of late, its
\* time is over, or it goes on.
uip_fw_forward(k, alive) ==
    /\ k.dest # Us
    /\ ~Cached(k)
    /\ \/ alive /\ uip_fw_output(k, "forward")
       \/ ~alive /\ k.dest # All /\ k.proto # "icmp" /\ uip_fw_output(TimeExceeded(k), "time_exceeded")

uip_fw_periodic ==
    /\ fwcache' = [i \in Entry |-> [fwcache[i] EXCEPT !.timer = IF @ > 0 THEN @ - 1 ELSE 0]]
    /\ since' = [k \in Key |-> [since[k] EXCEPT !.ticks = Min({@ + 1, FW_TIME})]]
    /\ sentThisTick' = FALSE
    /\ UNCHANGED output

NoPacketYet == [src |-> Us, dest |-> Us, proto |-> "other", id |-> 0]

FwInit ==
    /\ fwcache = [i \in Entry |-> [timer |-> 0, key |-> NoPacketYet]]
    /\ since = [k \in Key |-> [ticks |-> FW_TIME, others |-> FWCACHE_SIZE, crowded |-> FALSE]]
    /\ output = [by |-> "nobody"]
    /\ sentThisTick = FALSE

FwNext ==
    \/ \E k \in Sent : \E alive \in BOOLEAN : uip_fw_forward(k, alive)
    \/ \E k \in Sent : k.src = Us /\ uip_fw_output(k, "own")
    \/ uip_fw_periodic

FwSpec == FwInit /\ [][FwNext]_fwVars

-----------------------------------------------------------------------------
(* Properties.                                                                 *)

\* A packet that comes back is forwarded once more only after FW_TIME ticks or when as
\* many others as the cache holds have gone out; fewer will do if two went out
\* within a tick, because of equal entries the last one is given away.
NotForwardedAgain ==
    output.by = "forward" =>
        \/ output.before.ticks >= FW_TIME
        \/ output.before.others >= FWCACHE_SIZE
        \/ output.before.crowded
=============================================================================
