----------------------------- MODULE AlarmPreempt -----------------------------
(***************************************************************************)
(* AlarmClock with its commands split at every access to memory they share *)
(* with the interrupts.  The main loop executes AddSchedule, DeleteSchedule*)
(* and RTC_SET_ALARM with the interrupts enabled; rtc_func preempts it     *)
(* between any two of its steps, runs to its end (an IRQ handler is not    *)
(* interrupted) and changes the same array, count and registers.           *)
(*                                                                         *)
(* The count is a plain int: the compiler may load it once for a whole     *)
(* command or again at every use, and a behaviour fixes one of the two.    *)
(* An element of the array moves in two steps, a load and a store, and the *)
(* count changes in two.  One round of a search loop is one step.          *)
(*                                                                         *)
(* Between commands the main loop drives the Ethernet chip, whose chip     *)
(* select is a bit of IOPIN0 like the buzzer: it is changed by reading the *)
(* port and writing it back.                                               *)
(***************************************************************************)
EXTENDS AlarmClock

CONSTANTS
    Deletable,  \* environment: the meetings that may be deleted
    Preempt     \* the interrupts preempt commands; FALSE only to relate
                \* this module to AlarmClock

ASSUME PreemptAssumption ==
    /\ Deletable \subseteq Schedule
    /\ Preempt \in BOOLEAN

VARIABLES
    pc,       \* where the main loop is
    reloads,  \* the build loads the count again at every use
    cmd,      \* the command: none, add or delete
    arg,      \* its meeting
    slot,     \* the index of the search, then the result of the command
    hole,     \* the index of the loop that moves elements
    count,    \* the count as the command loaded it
    reg,      \* the value on its way from memory to memory
    port,     \* the buzzer bit in the value of IOPIN0 being written back
    before,   \* history: queue and alarm when the command began
    rung      \* history: what rang during the command

locals == <<cmd, arg, slot, hole, count, reg>>
pvars  == <<vars, pc, reloads, locals, port, before, rung>>

Count == IF reloads THEN numberOfSchedules ELSE count

\* The history between commands.
NoCommand == [q |-> [j \in Slot |-> None], n |-> 0, on |-> FALSE, al |-> None]

Goto(l) == pc' = l

\* A step of the main loop on its own variables only.
MemoryUnchanged ==
    UNCHANGED <<vars, reloads, port, before, rung>>

OnlyQueue ==
    UNCHANGED <<alarm, clock, running, panel, overrun, reloads, port, before, rung>>

OnlyAlarm ==
    UNCHANGED <<queue, clock, running, panel, overrun, reloads, port, before, rung>>
-----------------------------------------------------------------------------
(* The beginning of a command *)

Begin(c, s) ==
    /\ pc = "idle"
    /\ cmd' = c
    /\ arg' = s
    /\ before' = [q |-> scheduleQ, n |-> numberOfSchedules, on |-> alarmOn, al |-> al]
    /\ UNCHANGED <<vars, reloads, slot, hole, count, reg, port, rung>>

BeginAdd(s) ==
    /\ MayStore(s)
    /\ Begin("add", s)
    /\ Goto("addCheck")

BeginDelete(s) ==
    /\ s \in Deletable
    /\ MayDelete(s)
    /\ Begin("delete", s)
    /\ Goto("find")

\* The command returns; its variables are forgotten.
Return ==
    /\ pc = "done"
    /\ Goto("idle")
    /\ cmd' = "none"
    /\ arg' = None
    /\ slot' = 0
    /\ hole' = 0
    /\ count' = 0
    /\ reg' = None
    /\ before' = NoCommand
    /\ rung' = {}
    /\ UNCHANGED <<vars, reloads, port>>

Clock(t) ==
    /\ pc = "idle"
    /\ SetClock(t)
    /\ UNCHANGED <<overrun, pc, reloads, locals, port, before, rung>>
-----------------------------------------------------------------------------
(* AddSchedule *)

\* Mutant of AddCheck: the test for a full array is missing.
AddCheckNeverFull ==
    /\ pc = "addCheck"
    /\ numberOfSchedules >= 0
    /\ count' = numberOfSchedules
    /\ Goto("search")
    /\ UNCHANGED <<cmd, arg, slot, hole, reg>>
    /\ MemoryUnchanged

AddCheck ==
    /\ pc = "addCheck"
    /\ numberOfSchedules >= 0
    /\ count' = numberOfSchedules
    /\ IF numberOfSchedules = Size
       THEN Goto("done") /\ slot' = Full
       ELSE Goto("search") /\ UNCHANGED slot
    /\ UNCHANGED <<cmd, arg, hole, reg>>
    /\ MemoryUnchanged

\* The shift loop of a negative count leaves the array (see AlarmClock).
AddOverrun ==
    /\ pc = "addCheck"
    /\ numberOfSchedules < 0
    /\ overrun' = TRUE
    /\ Goto("done")
    /\ UNCHANGED <<queue, alarm, clock, running, panel, locals, reloads, port, before, rung>>

\* Mutant of Search: the loop runs one slot past the end of the queue.
SearchTooFar ==
    /\ pc = "search"
    /\ \/ /\ slot <= Count /\ arg > scheduleQ[slot]
          /\ slot' = slot + 1
          /\ UNCHANGED <<pc, hole, reg>>
       \/ /\ slot <= Count => arg <= scheduleQ[slot]
          /\ Goto("shift")
          /\ hole' = Count
          /\ UNCHANGED <<slot, reg>>
    /\ UNCHANGED <<cmd, arg, count>>
    /\ MemoryUnchanged

\* One round of the search loop; it stops at the end of the queue, at the
\* meeting itself, or at the first later one.
Search ==
    /\ pc = "search"
    /\ \/ /\ slot < Count /\ arg > scheduleQ[slot]
          /\ slot' = slot + 1
          /\ UNCHANGED <<pc, hole, reg>>
       \/ /\ slot < Count /\ arg = scheduleQ[slot]
          /\ Goto(IF slot = 0 THEN "alarmOn" ELSE "done")
          /\ reg' = arg
          /\ UNCHANGED <<slot, hole>>
       \/ /\ slot < Count => arg < scheduleQ[slot]
          /\ Goto("shift")
          /\ hole' = Count
          /\ UNCHANGED <<slot, reg>>
    /\ UNCHANGED <<cmd, arg, count>>
    /\ MemoryUnchanged

ShiftLoad ==
    /\ pc = "shift"
    /\ hole > slot
    /\ reg' = scheduleQ[hole - 1]
    /\ Goto("shiftStore")
    /\ UNCHANGED <<cmd, arg, slot, hole, count>>
    /\ MemoryUnchanged

ShiftStore ==
    /\ pc = "shiftStore"
    /\ scheduleQ' = [scheduleQ EXCEPT ![hole] = reg]
    /\ hole' = hole - 1
    /\ Goto("shift")
    /\ UNCHANGED <<numberOfSchedules, cmd, arg, slot, count, reg>>
    /\ OnlyQueue

Put ==
    /\ pc = "shift"
    /\ hole <= slot
    /\ scheduleQ' = [scheduleQ EXCEPT ![slot] = arg]
    /\ Goto("countUp")
    /\ UNCHANGED <<numberOfSchedules, locals>>
    /\ OnlyQueue

CountUpLoad ==
    /\ pc = "countUp"
    /\ count' = Count
    /\ Goto("countUpStore")
    /\ UNCHANGED <<cmd, arg, slot, hole, reg>>
    /\ MemoryUnchanged

\* Mutant of CountUpStore: every meeting added is armed.
CountUpStoreArms ==
    /\ pc = "countUpStore"
    /\ numberOfSchedules' = count + 1
    /\ Goto("alarmOn")
    /\ reg' = arg
    /\ UNCHANGED <<scheduleQ, cmd, arg, slot, hole, count>>
    /\ OnlyQueue

\* Only a meeting put in slot 0 is armed.
CountUpStore ==
    /\ pc = "countUpStore"
    /\ numberOfSchedules' = count + 1
    /\ Goto(IF slot = 0 THEN "alarmOn" ELSE "done")
    /\ reg' = arg
    /\ UNCHANGED <<scheduleQ, cmd, arg, slot, hole, count>>
    /\ OnlyQueue
-----------------------------------------------------------------------------
(* DeleteSchedule *)

\* One round of FindSchedule, which searches the whole array.
Find ==
    /\ pc = "find"
    /\ \/ /\ scheduleQ[slot] = arg
          /\ Goto("found")
          /\ UNCHANGED slot
       \/ /\ scheduleQ[slot] # arg
          /\ IF slot + 1 = Size
             THEN Goto("done") /\ slot' = Full
             ELSE slot' = slot + 1 /\ UNCHANGED pc
    /\ UNCHANGED <<cmd, arg, hole, count, reg>>
    /\ MemoryUnchanged

Found ==
    /\ pc = "found"
    /\ count' = numberOfSchedules
    /\ hole' = slot
    /\ Goto("close")
    /\ UNCHANGED <<cmd, arg, slot, reg>>
    /\ MemoryUnchanged

CloseLoad ==
    /\ pc = "close"
    /\ hole < Count - 1
    /\ reg' = scheduleQ[hole + 1]
    /\ Goto("closeStore")
    /\ UNCHANGED <<cmd, arg, slot, hole, count>>
    /\ MemoryUnchanged

CloseStore ==
    /\ pc = "closeStore"
    /\ scheduleQ' = [scheduleQ EXCEPT ![hole] = reg]
    /\ hole' = hole + 1
    /\ Goto("close")
    /\ UNCHANGED <<numberOfSchedules, cmd, arg, slot, count, reg>>
    /\ OnlyQueue

CountDownLoad ==
    /\ pc = "close"
    /\ hole >= Count - 1
    /\ count' = Count
    /\ Goto("countDownStore")
    /\ UNCHANGED <<cmd, arg, slot, hole, reg>>
    /\ MemoryUnchanged

\* Mutant of CountDownStore: the alarm is set again whatever was deleted.
CountDownStoreArms ==
    /\ pc = "countDownStore"
    /\ numberOfSchedules' = count - 1
    /\ Goto("rearm")
    /\ UNCHANGED <<scheduleQ, locals>>
    /\ OnlyQueue

CountDownStore ==
    /\ pc = "countDownStore"
    /\ numberOfSchedules' = count - 1
    /\ Goto(IF slot = 0 THEN "rearm" ELSE "done")
    /\ UNCHANGED <<scheduleQ, locals>>
    /\ OnlyQueue
-----------------------------------------------------------------------------
(* The alarm registers, after either command *)

Rearm ==
    /\ pc = "rearm"
    /\ Goto(IF numberOfSchedules # 0 THEN "alarmOn" ELSE "alarmOff")
    /\ reg' = scheduleQ[0]
    /\ UNCHANGED <<cmd, arg, slot, hole, count>>
    /\ MemoryUnchanged

AlarmOff ==
    /\ pc = "alarmOff"
    /\ RTC_DISABLE_ALARM
    /\ Goto("done")
    /\ UNCHANGED locals
    /\ OnlyAlarm

\* RTC_SET_ALARM enables the comparison before it writes the time.
AlarmOn ==
    /\ pc = "alarmOn"
    /\ alarmOn' = TRUE
    /\ Goto("alarmTime")
    /\ UNCHANGED <<al, locals>>
    /\ OnlyAlarm

AlarmTime ==
    /\ pc = "alarmTime"
    /\ al' = reg
    /\ Goto("done")
    /\ UNCHANGED <<alarmOn, locals>>
    /\ OnlyAlarm
-----------------------------------------------------------------------------
(* The Ethernet driver between commands: IOPIN0 is read, then written back *)

PortRead ==
    /\ pc = "idle"
    /\ running
    /\ port' = buzzer
    /\ Goto("portWrite")
    /\ UNCHANGED <<vars, reloads, locals, before, rung>>

PortWrite ==
    /\ pc = "portWrite"
    /\ buzzer' = port
    /\ port' = FALSE
    /\ Goto("idle")
    /\ UNCHANGED <<queue, alarm, clock, running, buzzer_counter, display_counter,
                   isShow, screen, overrun, reloads, locals, before, rung>>
-----------------------------------------------------------------------------
(* The interrupts *)

Second ==
    /\ pc = "idle" \/ Preempt
    /\ rtc_func
    /\ rung' = IF Rings /\ cmd # "none" THEN rung \cup {al} ELSE rung
    /\ UNCHANGED <<overrun, pc, reloads, locals, port, before>>

Button ==
    /\ pc = "idle" \/ Preempt
    /\ button_intterupt
    /\ UNCHANGED <<overrun, pc, reloads, locals, port, before, rung>>
-----------------------------------------------------------------------------
PInit ==
    /\ Init
    /\ pc = "idle"
    /\ reloads \in BOOLEAN
    /\ cmd = "none"
    /\ arg = None
    /\ slot = 0
    /\ hole = 0
    /\ count = 0
    /\ reg = None
    /\ port = FALSE
    /\ before = NoCommand
    /\ rung = {}

Add    == AddCheck \/ AddOverrun \/ Search \/ ShiftLoad \/ ShiftStore \/ Put
            \/ CountUpLoad \/ CountUpStore
Delete == Find \/ Found \/ CloseLoad \/ CloseStore \/ CountDownLoad \/ CountDownStore
Arm    == Rearm \/ AlarmOff \/ AlarmOn \/ AlarmTime

PNext ==
    /\ ~overrun
    /\ \/ \E s \in Schedule : BeginAdd(s) \/ BeginDelete(s)
       \/ \E t \in SetTo : Clock(t)
       \/ Add
       \/ Delete
       \/ Arm
       \/ Return
       \/ PortRead
       \/ PortWrite
       \/ Second
       \/ Button

PSpec == PInit /\ [][PNext]_pvars
-----------------------------------------------------------------------------
(* Properties *)

\* Every variable has its type; a command that is done has a result.
PTypeOK ==
    /\ TypeOK
    /\ pc \in {"idle", "addCheck", "search", "shift", "shiftStore", "countUp",
               "countUpStore", "find", "found", "close", "closeStore",
               "countDownStore", "rearm", "alarmOff", "alarmOn", "alarmTime",
               "done", "portWrite"}
    /\ cmd \in {"none", "add", "delete"}
    /\ arg \in Schedule \cup {None}
    /\ slot \in 0 .. Size \cup {Full}
    /\ hole \in 0 .. Size
    /\ count \in Int /\ count <= Size
    /\ reg \in Schedule \cup {None}
    /\ reloads \in BOOLEAN /\ port \in BOOLEAN
    /\ rung \subseteq Schedule

\* The array is written only inside its bounds, and the count stays in range,
\* however the interrupts cut into AddSchedule.
InBounds ==
    /\ numberOfSchedules \in 0 .. Size
    /\ ~overrun
    /\ pc \in {"shiftStore", "closeStore"} => hole \in Slot
    /\ pc = "shift" => slot \in Slot

\* The pending schedules when the command began.
PendingBefore == {before.q[j] : j \in 0 .. before.n - 1}

\* Whatever rings meanwhile, storing a meeting brings no other one back: what
\* is pending afterwards was pending before or is the meeting itself.
AddsOnlyItsOwn ==
    pc = "done" /\ cmd = "add" => Pending \subseteq PendingBefore \cup {arg}

\* Between commands an alarm set for a minute still to come is set for slot 0
\* of a queue that is not empty, however the interrupts cut into AddSchedule.
SettledAlarm ==
    pc = "idle" /\ alarmOn /\ clock < Due(al) =>
        numberOfSchedules > 0 /\ al = scheduleQ[0]

\* alarm-watch.c:73, "delete schedule s if exist": deleting a stored meeting
\* leaves all the others, except those that rang meanwhile.
DeletesOnlyItsOwn ==
    pc = "done" /\ cmd = "delete" =>
        Pending \ rung = (PendingBefore \ {arg}) \ rung

\* rtc.c:118, "START THE BUZZER": once handleALARM has started the buzzer only
\* the countdown and the button stop it.
BuzzerKeepsOn ==
    [][buzzer /\ ~buzzer' => Second \/ Button]_pvars

\* Commands that are not preempted implement the commands of AlarmClock: the
\* steps of a command take effect together when it is done.
Busy == cmd # "none"

Atomic == INSTANCE AlarmClock WITH
    scheduleQ         <- IF Busy THEN before.q ELSE scheduleQ,
    numberOfSchedules <- IF Busy THEN before.n ELSE numberOfSchedules,
    alarmOn           <- IF Busy THEN before.on ELSE alarmOn,
    al                <- IF Busy THEN before.al ELSE al

AtomicSpec == Atomic!Spec

\* Only an alarm can disturb a command: if none rang while it was executed, its result,
\* the queue and the alarm are those of the one step that AlarmClock makes of it, wherever
\* the interrupts cut in and however often.
OnlyRingsDisturb ==
    [][Return /\ rung = {} =>
        IF cmd = "add"
        THEN /\ Atomic!AddSchedule(arg, slot)
             /\ IF slot = 0 THEN Atomic!RTC_SET_ALARM(arg) ELSE UNCHANGED Atomic!alarm
        ELSE \/ /\ slot = Full
                /\ ~Atomic!Stored(arg)
                /\ UNCHANGED <<Atomic!queue, Atomic!alarm>>
             \/ /\ Atomic!FindSchedule(arg, slot)
                /\ Atomic!DeleteSlot(slot)
                /\ IF slot = 0 THEN Atomic!ArmAfterDelete ELSE UNCHANGED Atomic!alarm]_pvars
=============================================================================
