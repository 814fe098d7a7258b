------------------------------ MODULE MCPreempt ------------------------------
(* AlarmPreempt for TLC in three modes: meetings are stored while interrupts   *)
(* cut in and alarms ring; or commands run whole and any meeting may be        *)
(* deleted; or interrupts cut into any commands, in any environment.  The last *)
(* two have a shorter day.  A behaviour shows one of them.                     *)
EXTENDS AlarmPreempt

VARIABLE mode

MCSchedule == 1 .. 4

\* The server sets the clock once to the start and once to the second minute.
MCSetTo == {0, 2}

NoSchedules == {}

Whole == INSTANCE AlarmPreempt WITH
    Preempt <- FALSE, Deletable <- Schedule, StoredOnly <- FALSE, Punctual <- FALSE,
    BuzzerTime <- 1, LastSecond <- 2

\* As many meetings as slots: the array may be full, and none is refused.
Few == {s \in Schedule : s <= Size}

Cut == INSTANCE AlarmPreempt WITH
    Schedule <- Few, Deletable <- Few, StoredOnly <- FALSE, Punctual <- FALSE,
    BuzzerTime <- 1, LastSecond <- 2

MCInit ==
    \/ mode = "preempted" /\ PInit
    \/ mode = "whole" /\ Whole!PInit
    \/ mode = "cut" /\ Cut!PInit

\* A behaviour ends where AddSchedule overruns.
Overrun == overrun /\ UNCHANGED pvars

MCNext ==
    /\ UNCHANGED mode
    /\ \/ mode = "preempted" /\ PNext
       \/ mode = "whole" /\ (Whole!PNext \/ Overrun)
       \/ mode = "cut" /\ (Cut!PNext \/ Overrun)

MCSpec == MCInit /\ [][MCNext]_<<pvars, mode>>

\* Where meetings are only stored, or commands run whole, every variable has its type; a
\* command that is done has a result.
PreemptTypeOK ==
    /\ mode = "preempted" => PTypeOK
    /\ mode = "whole" => Whole!PTypeOK

\* The array is written only inside its bounds, and the count stays in range,
\* however the interrupts cut into AddSchedule.
AddInBounds == mode = "preempted" => InBounds

\* Whatever rings meanwhile, storing a meeting brings no other one back.
AddKeepsOthers == mode = "preempted" => AddsOnlyItsOwn

\* AddSchedule leaves what is not its own alone.
AddInv == PreemptTypeOK /\ AddInBounds /\ AddKeepsOthers

\* Between commands an alarm set for a minute still to come is set for slot 0
\* of a queue that is not empty, however the interrupts cut into AddSchedule.
AddSettlesAlarm == mode = "preempted" => SettledAlarm

\* Commands that are not preempted implement the commands of AlarmClock.
WholeIsAtomic ==
    /\ mode = "whole" => Whole!Atomic!Init
    /\ [][mode = "whole" => Whole!Atomic!Next]_(Whole!Atomic!vars)
=============================================================================
