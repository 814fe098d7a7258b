------------------------------- MODULE MainLoop -------------------------------
(***************************************************************************)
(* The main loop of the firmware and its two timers.  A round serves one   *)
(* packet or, if there is none, the periodic timer, and then the timer of  *)
(* the ARP table.  The clock counts in the FIQ, between any two steps; a   *)
(* timer keeps the low word of the clock at its last expiry and compares   *)
(* differences modulo the word size.                                       *)
(***************************************************************************)
EXTENDS Integers

CONSTANTS
    Word,      \* the number of values of clock_time_t
    Interval,  \* CLOCK_SECOND * 1
    MaxLag     \* environment: no timer waits longer, in ticks

Timer == {"periodic", "arp"}

ASSUME MainLoopAssumption ==
    /\ Word \in Nat /\ Interval \in Nat \ {0} /\ MaxLag \in Nat
    /\ Interval <= MaxLag /\ MaxLag < Word

VARIABLES
    tick,   \* the low word of tick
    start,  \* per timer, the start of its interval
    turn,   \* where the loop is
    ran,    \* the timer the last step served
    lag     \* history: per timer, the ticks since the start of its interval

loopVars == <<tick, start, turn, ran, lag>>
-----------------------------------------------------------------------------
(* timer.c and clock-arch.c *)

\* The FIQ.
timer0_periodic_task ==
    /\ \A t \in Timer : lag[t] < MaxLag
    /\ tick' = (tick + 1) % Word
    /\ lag' = [t \in Timer |-> lag[t] + 1]
    /\ ran' = "none"
    /\ UNCHANGED <<start, turn>>

\* Mutant of timer_expired: the end of the interval is compared with the clock.
timer_expiredByEnd(t) == tick >= (start[t] + Interval) % Word

timer_expired(t) == (tick - start[t]) % Word >= Interval

\* Mutant of timer_reset: the interval begins now.
timer_resetNow(t) ==
    /\ start' = [start EXCEPT ![t] = tick]
    /\ lag' = [lag EXCEPT ![t] = 0]

timer_reset(t) ==
    /\ start' = [start EXCEPT ![t] = (start[t] + Interval) % Word]
    /\ lag' = [lag EXCEPT ![t] = lag[t] - Interval]
-----------------------------------------------------------------------------
(* The loop of main *)

\* network_read has a packet; it is handled, the timer is not looked at.
PacketTurn ==
    /\ turn = "network"
    /\ turn' = "arp"
    /\ ran' = "none"
    /\ UNCHANGED <<tick, start, lag>>

QuietTurn ==
    /\ turn = "network"
    /\ turn' = "periodic"
    /\ ran' = "none"
    /\ UNCHANGED <<tick, start, lag>>

\* The timer t is looked at, and served if it has expired.
Serve(t) ==
    IF timer_expired(t) THEN timer_reset(t) /\ ran' = t
    ELSE ran' = "none" /\ UNCHANGED <<start, lag>>

\* Mutant of PeriodicTurn: the ARP timer is looked at only after a packet.
PeriodicTurnOnly ==
    /\ turn = "periodic"
    /\ turn' = "network"
    /\ Serve("periodic")
    /\ UNCHANGED tick

\* uip_udp_periodic and uip_periodic of every connection.
PeriodicTurn ==
    /\ turn = "periodic"
    /\ turn' = "arp"
    /\ Serve("periodic")
    /\ UNCHANGED tick

\* uip_arp_timer.
ArpTurn ==
    /\ turn = "arp"
    /\ turn' = "network"
    /\ Serve("arp")
    /\ UNCHANGED tick
-----------------------------------------------------------------------------
LoopInit ==
    /\ tick \in 0 .. Word - 1
    /\ start = [t \in Timer |-> tick]
    /\ turn = "network"
    /\ ran = "none"
    /\ lag = [t \in Timer |-> 0]

Turn == PacketTurn \/ QuietTurn \/ PeriodicTurn \/ ArpTurn

LoopNext == timer0_periodic_task \/ Turn

LoopSpec == LoopInit /\ [][LoopNext]_loopVars

\* The timer interrupt comes, and the loop goes on.
LoopFairness == WF_loopVars(timer0_periodic_task) /\ WF_loopVars(Turn)
-----------------------------------------------------------------------------
(* Properties *)

\* Every variable has its type; no timer is ahead of the clock, also when the
\* clock or the start of an interval has wrapped and the other has not.
LoopTypeOK ==
    /\ tick \in 0 .. Word - 1
    /\ start \in [Timer -> 0 .. Word - 1]
    /\ turn \in {"network", "periodic", "arp"}
    /\ ran \in Timer \cup {"none"}
    /\ lag \in [Timer -> 0 .. MaxLag]

\* timer.c:57, "will evaluate to true after the timer has expired": a timer is
\* found expired when its interval is over and at no other time.
ExpiresOnTime ==
    \A t \in Timer : timer_expired(t) <=> lag[t] >= Interval

\* timer.c:76, "this function will cause the timer to be stable over time": the
\* two timers, set at the same time, stay whole intervals apart however late
\* each is served, so that no expiry is lost.
StableOverTime == (lag["periodic"] - lag["arp"]) % Interval = 0

\* No expiry is early, lost or put off, wherever the clock wraps.
TimersInv == LoopTypeOK /\ ExpiresOnTime /\ StableOverTime

\* Both timers are served for ever, as long as the network has a pause now and
\* then: a round that serves a packet does not look at the periodic timer.
TimersRun ==
    []<>(turn = "periodic") => []<>(ran = "periodic") /\ []<>(ran = "arp")
=============================================================================
