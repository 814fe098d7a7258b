-------------------------- MODULE AlarmPreemptProofs --------------------------
(***************************************************************************)
(* Commands cut into by the interrupts, for every size of the array, every *)
(* set of meetings, and both ways to compile the count.  AddSchedule       *)
(* writes only inside the array, brings no other meeting back, and leaves  *)
(* alarm and queue consistent, in an environment that is punctual and      *)
(* deletes nothing.  In any environment, commands that are not cut into    *)
(* are those of AlarmClock, and so are those in which no alarm rings.      *)
(***************************************************************************)
EXTENDS MCPreempt, AlarmClockProofs

\* The steps of AddSchedule between its test for room and its new count.
Inserting == {"search", "shift", "shiftStore", "countUp", "countUpStore"}

\* The steps of a command that found or made room for its meeting in slot 0, from
\* when it is certain on and from when it is done on.
FirstSoon == pc \in {"shift", "shiftStore", "countUp", "countUpStore"} /\ slot = 0
FirstPut  == pc \in {"countUp", "countUpStore"} /\ slot = 0
Arming    == pc \in {"alarmOn", "alarmTime"}

InCommand == pc \notin {"idle", "portWrite"}

\* The minute s has not begun.
Comes(s) == clock < Due(s)

LocalsTyped ==
    /\ arg \in Schedule \cup {None}
    /\ slot \in 0 .. Size \cup {Full}
    /\ hole \in 0 .. Size
    /\ count \in Int /\ count <= Size
    /\ reg \in Schedule \cup {None}
    /\ reloads \in BOOLEAN /\ port \in BOOLEAN
    /\ rung \subseteq Schedule

\* Only meetings are stored, one command after the other.
Where ==
    /\ pc \in {"idle", "portWrite", "addCheck", "alarmOn", "alarmTime", "done"} \cup Inserting
    /\ cmd = IF InCommand THEN "add" ELSE "none"
    /\ InCommand => arg \in Schedule
    /\ ~InCommand \/ pc = "addCheck" => slot = 0
    /\ ~overrun
    /\ numberOfSchedules >= 0

\* The loops stay inside the array: rings only take away from the count, so that
\* the count the command loaded stands for all that follow.
Loops ==
    /\ pc \in Inserting => numberOfSchedules <= count /\ count < Size
    /\ pc \in {"search", "shift", "shiftStore"} => slot \in 0 .. count
    /\ pc \in {"countUp", "countUpStore"} => slot \in Slot
    /\ pc \in {"shift", "shiftStore"} => hole \in 0 .. count
    /\ pc = "shiftStore" => hole > slot

\* What may be pending once the command is done.
Mine == PendingBefore \cup {arg}

\* The slots that will be in use then hold nothing else; the last of them only if the
\* command goes on with the count it loaded and has come past it.
Own ==
    /\ pc \in {"addCheck", "alarmOn", "alarmTime", "done"} =>
           \A j \in 0 .. numberOfSchedules - 1 : scheduleQ[j] \in Mine
    /\ pc \in Inserting => \A j \in 0 .. count - 1 : scheduleQ[j] \in Mine
    /\ pc \in {"shift", "shiftStore"} /\ Count = count =>
           hole = count \/ scheduleQ[count] \in Mine
    /\ pc = "countUp" /\ Count = count => scheduleQ[count] \in Mine
    /\ pc = "countUpStore" => scheduleQ[count] \in Mine
    /\ pc = "shiftStore" => reg \in Mine

\* An alarm still to come is that of slot 0, or that of the slot which was the first
\* before the command put an earlier meeting there.
Armed ==
    /\ Comes(al) => alarmOn /\ numberOfSchedules > 0
    /\ Comes(al) => al = scheduleQ[0] \/ FirstPut \/ Arming

\* With an empty queue nothing in slot 0 will ring.
Emptied == numberOfSchedules = 0 /\ ~FirstPut => ~Comes(scheduleQ[0])

\* A meeting that goes to slot 0 comes before the alarm that is set, and by the time the
\* command sets its alarm it is in slot 0, or over.
First ==
    /\ FirstSoon /\ Comes(al) => arg < al
    /\ FirstPut /\ Comes(arg) => scheduleQ[0] = arg
    /\ Arming => slot = 0 /\ reg = arg
    /\ Arming /\ Comes(arg) => scheduleQ[0] = arg /\ numberOfSchedules > 0
    /\ Arming /\ Comes(al) /\ al # arg => numberOfSchedules > 1 /\ arg < al
    /\ pc = "alarmTime" /\ Comes(arg) => alarmOn

PInv == TypeOK /\ LocalsTyped /\ Where /\ Loops /\ Own /\ Armed /\ Emptied /\ First
-----------------------------------------------------------------------------
\* Minutes are ordered as the seconds at which they begin.
LEMMA DueOrdered ==
    /\ \A s \in Schedule \cup {None} : s \in Nat /\ Due(s) \in Nat
    /\ \A s, t \in Schedule \cup {None} : Due(s) < Due(t) => s < t
    /\ \A s, t \in Schedule \cup {None} : s < t => Due(s) <= Due(t)
    /\ Due(None) = 0
<1>1. \A a, b, c \in Nat : a <= b => a * c <= b * c
    <2> SUFFICES ASSUME NEW a \in Nat, NEW b \in Nat, NEW c \in Nat, a <= b
                 PROVE  a * c <= b * c
        OBVIOUS
    <2>1. b * c = a * c + (b - a) * c
        OBVIOUS
    <2>2. (b - a) * c >= 0
        OBVIOUS
    <2>3. a * c \in Int /\ b * c \in Int /\ (b - a) * c \in Int
        OBVIOUS
    <2> QED
        BY <2>1, <2>2, <2>3
<1>2. \A s \in Schedule \cup {None} : s \in Nat
    BY ClockAssumption DEF None
<1>3. \A s \in Schedule \cup {None} : Due(s) \in Nat
    BY <1>2, ClockAssumption DEF Due
<1>4. \A s, t \in Schedule \cup {None} : s <= t => Due(s) <= Due(t)
    BY <1>1, <1>2, ClockAssumption DEF Due
<1>5. Due(None) = 0
    BY ClockAssumption DEF Due, None
<1> QED
    BY <1>2, <1>3, <1>4, <1>5

LEMMA FirstSlot == 0 \in Slot
BY ClockAssumption DEF Slot

\* The invariant says what the runs check.
LEMMA PInvImplies ==
    PInv => PTypeOK /\ InBounds /\ AddsOnlyItsOwn /\ SettledAlarm
<1> SUFFICES ASSUME PInv PROVE PTypeOK /\ InBounds /\ AddsOnlyItsOwn /\ SettledAlarm
    OBVIOUS
<1> USE DEF PInv
<1>1. PTypeOK
    BY DEF PTypeOK, LocalsTyped, Where, Inserting
<1>2. InBounds
    BY ClockAssumption DEF InBounds, Where, Loops, Inserting, LocalsTyped, TypeOK, Slot
<1>3. AddsOnlyItsOwn
    BY DEF AddsOnlyItsOwn, Own, Mine, Pending
<1>4. SettledAlarm
    BY DEF SettledAlarm, Armed, Comes, FirstPut, Arming
<1> QED
    BY <1>1, <1>2, <1>3, <1>4

LEMMA PInitHolds == PInit => PInv
<1> SUFFICES ASSUME PInit PROVE PInv
    OBVIOUS
<1>1. TypeOK
    <2>1. /\ scheduleQ \in [Slot -> Schedule \cup {None}]
          /\ numberOfSchedules \in Int /\ numberOfSchedules <= Size
          /\ al \in Schedule \cup {None}
          /\ clock \in Nat
          /\ buzzer_counter \in 0 .. BuzzerTime - 1
          /\ display_counter \in 0 .. DisplayTime
        BY ClockAssumption DEF PInit, Init
    <2>2. {alarmOn, running, buzzer, isShow, overrun} \subseteq BOOLEAN
        BY Zenon DEF PInit, Init
    <2>3. screen \in Page
        BY DEF PInit, Init, Page
    <2> QED
        BY <2>1, <2>2, <2>3 DEF TypeOK
<1>2. LocalsTyped
    <2>1. port \in BOOLEAN
        BY Zenon DEF PInit
    <2> QED
        BY <2>1, ClockAssumption DEF PInit, LocalsTyped
<1>3. Where /\ Loops /\ Own
    BY DEF PInit, Init, Where, InCommand, Loops, Own, Inserting
<1>4. Armed /\ Emptied /\ First
    BY DueOrdered, FirstSlot DEF PInit, Init, Armed, Emptied, First, Comes, FirstSoon, FirstPut, Arming
<1> QED
    BY <1>1, <1>2, <1>3, <1>4 DEF PInv
-----------------------------------------------------------------------------
\* A step that leaves the memory alone leaves it its type.
LEMMA MemoryTyped ==
    ASSUME TypeOK, MemoryUnchanged
    PROVE  TypeOK'
BY DEF MemoryUnchanged, vars, queue, alarm, panel, TypeOK

\* What the memory holds is the same, if a step leaves it alone.
LEMMA MemorySame ==
    ASSUME MemoryUnchanged
    PROVE  UNCHANGED <<scheduleQ, numberOfSchedules, alarmOn, al, clock, running, overrun,
                       reloads, port, before, rung>>
BY DEF MemoryUnchanged, vars, queue, alarm, panel

\* A command begins and remembers what was pending.
LEMMA BeginAddKeeps ==
    ASSUME PInv, NEW s \in Schedule, BeginAdd(s)
    PROVE  PInv'
<1> USE DEF PInv
<1>1. UNCHANGED <<scheduleQ, numberOfSchedules, alarmOn, al, clock, running, overrun, buzzer,
                  buzzer_counter, display_counter, isShow, screen,
                  reloads, slot, hole, count, reg, port, rung>>
    BY DEF BeginAdd, Begin, vars, queue, alarm, panel
<1>2. pc = "idle" /\ pc' = "addCheck" /\ cmd' = "add" /\ arg' = s
    BY DEF BeginAdd, Begin, Goto
<1>3. before'.q = scheduleQ /\ before'.n = numberOfSchedules
    BY DEF BeginAdd, Begin
<1>4. TypeOK' /\ LocalsTyped'
    BY <1>1, <1>2 DEF TypeOK, LocalsTyped
<1>5. Where' /\ Loops'
    BY <1>1, <1>2 DEF Where, InCommand, Inserting, Loops
<1>6. Own'
    BY <1>1, <1>2, <1>3 DEF Own, Mine, PendingBefore, Inserting
<1>7. Armed' /\ Emptied' /\ First'
    BY <1>1, <1>2 DEF Armed, Emptied, First, Comes, FirstSoon, FirstPut, Arming
<1> QED
    BY <1>4, <1>5, <1>6, <1>7

\* The clock is set forward, and not past a pending meeting.
LEMMA ClockKeeps ==
    ASSUME PInv, Punctual, NEW t \in SetTo, Clock(t)
    PROVE  PInv'
<1> USE DEF PInv
<1>1. UNCHANGED <<scheduleQ, numberOfSchedules, alarmOn, al, overrun, buzzer, buzzer_counter,
                  display_counter, isShow, screen, pc, cmd, arg, reloads, slot, hole, count, reg,
                  port, before, rung>>
    BY DEF Clock, SetClock, queue, alarm, panel, locals
<1>2. pc = "idle" /\ clock' = t /\ running' = TRUE /\ t \in Nat /\ t >= clock
    BY ClockAssumption DEF Clock, SetClock, MaySet
<1>3. TypeOK' /\ LocalsTyped'
    <2>1. running' \in BOOLEAN
        BY <1>2, Zenon
    <2> QED
        BY <1>1, <1>2, <2>1 DEF TypeOK, LocalsTyped
<1>4. Where' /\ Loops' /\ Own'
    BY <1>1 DEF Where, InCommand, Inserting, Loops, Own, Mine, PendingBefore, Count
<1>5. Armed' /\ Emptied' /\ First'
    <2>1. \A s \in Schedule \cup {None} : Comes(s)' => Comes(s)
        BY <1>2, DueOrdered DEF Comes, TypeOK, Due
    <2>2. al \in Schedule \cup {None} /\ scheduleQ[0] \in Schedule \cup {None}
        BY FirstSlot DEF TypeOK
    <2>3. (Comes(al)' => Comes(al)) /\ (Comes(scheduleQ[0])' => Comes(scheduleQ[0]))
        BY <1>1, <2>1, <2>2 DEF Comes
    <2> QED
        BY <1>1, <1>2, <2>3 DEF Armed, Emptied, First, FirstSoon, FirstPut, Arming
<1> QED
    BY <1>3, <1>4, <1>5

\* The count is loaded; from here on it can only become less.
LEMMA AddCheckKeeps ==
    ASSUME PInv, AddCheck
    PROVE  PInv'
<1> USE DEF PInv
<1>1. UNCHANGED <<scheduleQ, numberOfSchedules, alarmOn, al, clock, overrun, before, cmd, arg,
                  hole, reg, reloads, port, rung>>
    BY MemorySame DEF AddCheck
<1>2. /\ pc = "addCheck" /\ count' = numberOfSchedules /\ slot = 0
      /\ \/ numberOfSchedules = Size /\ pc' = "done" /\ slot' = Full
         \/ numberOfSchedules # Size /\ pc' = "search" /\ slot' = 0
    BY DEF AddCheck, Goto, Where, InCommand
<1>3. TypeOK'
    BY MemoryTyped DEF AddCheck
<1>4. LocalsTyped' /\ Where' /\ Loops'
    BY <1>1, <1>2, ClockAssumption DEF TypeOK, LocalsTyped, Where, InCommand, Inserting, Loops
<1>5. Own'
    BY <1>1, <1>2 DEF Own, Mine, PendingBefore, Inserting
<1>6. Armed' /\ Emptied' /\ First'
    BY <1>1, <1>2 DEF Armed, Emptied, First, Comes, FirstSoon, FirstPut, Arming
<1> QED
    BY <1>3, <1>4, <1>5, <1>6

\* The search goes on, ends at the meeting itself, or at the slot the meeting goes to:
\* if that is slot 0, the meeting comes before what is in slot 0, or nothing is.
LEMMA SearchKeeps ==
    ASSUME PInv, Search
    PROVE  PInv'
<1> USE DEF PInv
<1>1. UNCHANGED <<scheduleQ, numberOfSchedules, alarmOn, al, clock, overrun, before, cmd, arg,
                  count, reloads, port, rung>>
    BY MemorySame DEF Search
<1>2. /\ pc = "search" /\ arg \in Schedule /\ slot \in 0 .. count
      /\ numberOfSchedules \in 0 .. count /\ count \in Slot
      /\ Count \in 0 .. count /\ Count >= numberOfSchedules /\ Count' = Count
    BY <1>1, ClockAssumption DEF Search, Where, InCommand, Inserting, Loops, Count, TypeOK, LocalsTyped, Slot
<1>3. TypeOK'
    BY MemoryTyped DEF Search
<1>4. CASE slot < Count /\ arg > scheduleQ[slot] /\ slot' = slot + 1 /\ UNCHANGED <<pc, hole, reg>>
    <2>1. LocalsTyped' /\ Where' /\ Loops'
        BY <1>1, <1>2, <1>4, ClockAssumption DEF TypeOK, LocalsTyped, Where, InCommand, Inserting, Loops, Slot
    <2>2. Own'
        BY <1>1, <1>2, <1>4 DEF Own, Mine, PendingBefore, Inserting
    <2>3. Armed' /\ Emptied' /\ First'
        BY <1>1, <1>2, <1>4 DEF Armed, Emptied, First, Comes, FirstSoon, FirstPut, Arming
    <2> QED
        BY <1>3, <2>1, <2>2, <2>3
<1>5. CASE /\ slot < Count /\ arg = scheduleQ[slot]
           /\ pc' = IF slot = 0 THEN "alarmOn" ELSE "done"
           /\ reg' = arg
           /\ UNCHANGED <<slot, hole>>
    <2>1. LocalsTyped' /\ Where' /\ Loops'
        BY <1>1, <1>2, <1>5, ClockAssumption DEF TypeOK, LocalsTyped, Where, InCommand, Inserting, Loops, Slot
    <2>2. Own'
        <3>1. \A j \in 0 .. numberOfSchedules - 1 : scheduleQ[j] \in Mine
            BY <1>2, ClockAssumption DEF Own, Inserting, Slot
        <3> QED
            BY <1>1, <1>5, <3>1 DEF Own, Mine, PendingBefore, Inserting
    <2>3. Armed' /\ Emptied' /\ First'
        BY <1>1, <1>2, <1>5 DEF Armed, Emptied, First, Comes, FirstSoon, FirstPut, Arming
    <2> QED
        BY <1>3, <2>1, <2>2, <2>3
<1>6. CASE /\ slot < Count => arg < scheduleQ[slot]
           /\ pc' = "shift"
           /\ hole' = Count
           /\ UNCHANGED <<slot, reg>>
    <2>1. LocalsTyped' /\ Where' /\ Loops'
        BY <1>1, <1>2, <1>6, ClockAssumption DEF TypeOK, LocalsTyped, Where, InCommand, Inserting, Loops, Slot
    <2>2. Own'
        BY <1>1, <1>2, <1>6 DEF Own, Mine, PendingBefore, Inserting
    <2>3. slot = 0 /\ Comes(al) => arg < al
        BY <1>2, <1>6 DEF Armed, FirstPut, Arming
    <2>4. Armed' /\ Emptied' /\ First'
        BY <1>1, <1>2, <1>6, <2>3 DEF Armed, Emptied, First, Comes, FirstSoon, FirstPut, Arming
    <2> QED
        BY <1>3, <2>1, <2>2, <2>4
<1> QED
    BY <1>4, <1>5, <1>6 DEF Search, Goto

LEMMA ShiftLoadKeeps ==
    ASSUME PInv, ShiftLoad
    PROVE  PInv'
<1> USE DEF PInv
<1>1. UNCHANGED <<scheduleQ, numberOfSchedules, alarmOn, al, clock, overrun, before, cmd, arg, slot,
                  hole, count, reloads, port, rung>>
    BY MemorySame DEF ShiftLoad
<1>2. /\ pc = "shift" /\ pc' = "shiftStore" /\ hole > slot /\ reg' = scheduleQ[hole - 1]
      /\ slot \in 0 .. count /\ hole \in 0 .. count /\ count \in Slot
      /\ hole - 1 \in Slot /\ hole - 1 \in 0 .. count - 1
    BY ClockAssumption DEF ShiftLoad, Goto, Where, Inserting, Loops, TypeOK, LocalsTyped, Slot
<1>3. TypeOK'
    BY MemoryTyped DEF ShiftLoad
<1>4. LocalsTyped' /\ Where' /\ Loops'
    BY <1>1, <1>2 DEF TypeOK, LocalsTyped, Where, InCommand, Inserting, Loops
<1>5. Own'
    BY <1>1, <1>2 DEF Own, Mine, PendingBefore, Inserting, Count
<1>6. Armed' /\ Emptied' /\ First'
    BY <1>1, <1>2 DEF Armed, Emptied, First, Comes, FirstSoon, FirstPut, Arming
<1> QED
    BY <1>3, <1>4, <1>5, <1>6

\* What is stored comes from a slot that was in use, and slot 0 is not written.
LEMMA ShiftStoreKeeps ==
    ASSUME PInv, ShiftStore
    PROVE  PInv'
<1> USE DEF PInv
<1>1. UNCHANGED <<numberOfSchedules, alarmOn, al, clock, running, overrun, buzzer, buzzer_counter,
                  display_counter, isShow, screen, before, cmd, arg, slot, count, reg, reloads, port, rung>>
    BY DEF ShiftStore, OnlyQueue, alarm, panel
<1>2. /\ pc = "shiftStore" /\ pc' = "shift" /\ hole' = hole - 1 /\ hole > slot
      /\ slot \in 0 .. count /\ hole \in 1 .. count /\ count \in Slot /\ hole \in Slot
    BY ClockAssumption DEF ShiftStore, Goto, Where, Inserting, Loops, TypeOK, LocalsTyped, Slot
<1>3. scheduleQ' = [scheduleQ EXCEPT ![hole] = reg]
    BY DEF ShiftStore
<1>4. /\ scheduleQ' \in [Slot -> Schedule \cup {None}]
      /\ scheduleQ'[hole] = reg
      /\ \A j \in Slot : j # hole => scheduleQ'[j] = scheduleQ[j]
    BY <1>2, <1>3 DEF TypeOK, LocalsTyped
<1>5. TypeOK' /\ LocalsTyped' /\ Where' /\ Loops'
    BY <1>1, <1>2, <1>4, ClockAssumption DEF TypeOK, LocalsTyped, Where, InCommand, Inserting, Loops, Slot
<1>6. Own'
    <2>1. \A j \in 0 .. count : j \in Slot
        BY <1>2, ClockAssumption DEF Slot
    <2>2. reg \in Mine
        BY <1>2 DEF Own
    <2>3. \A j \in 0 .. count - 1 : scheduleQ'[j] \in Mine
        BY <1>2, <1>4, <2>1, <2>2 DEF Own, Inserting
    <2>4. Count' = Count
        BY <1>1 DEF Count
    <2>5. Count = count => scheduleQ'[count] \in Mine
        BY <1>2, <1>4, <2>1, <2>2 DEF Own
    <2> QED
        BY <1>1, <1>2, <2>3, <2>4, <2>5 DEF Own, Mine, PendingBefore, Inserting
<1>7. Armed' /\ Emptied' /\ First'
    <2>1. scheduleQ'[0] = scheduleQ[0]
        BY <1>2, <1>4, FirstSlot
    <2> QED
        BY <1>1, <1>2, <2>1 DEF Armed, Emptied, First, Comes, FirstSoon, FirstPut, Arming
<1> QED
    BY <1>5, <1>6, <1>7

\* The meeting is written to the slot the search found.
LEMMA PutKeeps ==
    ASSUME PInv, Put
    PROVE  PInv'
<1> USE DEF PInv
<1>1. UNCHANGED <<numberOfSchedules, alarmOn, al, clock, running, overrun, buzzer, buzzer_counter,
                  display_counter, isShow, screen, before, cmd, arg, slot, hole, count, reg, reloads, port, rung>>
    BY DEF Put, OnlyQueue, alarm, panel, locals
<1>2. /\ pc = "shift" /\ pc' = "countUp" /\ hole <= slot /\ arg \in Schedule
      /\ slot \in 0 .. count /\ hole \in 0 .. count /\ count \in Slot /\ slot \in Slot
    BY ClockAssumption DEF Put, Goto, Where, InCommand, Inserting, Loops, TypeOK, LocalsTyped, Slot
<1>3. scheduleQ' = [scheduleQ EXCEPT ![slot] = arg]
    BY DEF Put
<1>4. /\ scheduleQ' \in [Slot -> Schedule \cup {None}]
      /\ scheduleQ'[slot] = arg
      /\ \A j \in Slot : j # slot => scheduleQ'[j] = scheduleQ[j]
    BY <1>2, <1>3 DEF TypeOK
<1>5. TypeOK' /\ LocalsTyped' /\ Where' /\ Loops'
    BY <1>1, <1>2, <1>4, ClockAssumption DEF TypeOK, LocalsTyped, Where, InCommand, Inserting, Loops, Slot
<1>6. Own'
    <2>1. \A j \in 0 .. count : j \in Slot
        BY <1>2, ClockAssumption DEF Slot
    <2>2. arg \in Mine
        BY DEF Mine
    <2>3. \A j \in 0 .. count - 1 : scheduleQ'[j] \in Mine
        BY <1>2, <1>4, <2>1, <2>2 DEF Own, Inserting
    <2>4. Count' = Count
        BY <1>1 DEF Count
    <2>5. Count = count => scheduleQ'[count] \in Mine
        BY <1>2, <1>4, <2>1, <2>2 DEF Own
    <2> QED
        BY <1>1, <1>2, <2>3, <2>4, <2>5 DEF Own, Mine, PendingBefore, Inserting
<1>7. Armed' /\ Emptied' /\ First'
    <2>1. slot = 0 => scheduleQ'[0] = arg
        BY <1>4
    <2>2. slot # 0 => scheduleQ'[0] = scheduleQ[0]
        BY <1>4, FirstSlot
    <2> QED
        BY <1>1, <1>2, <2>1, <2>2 DEF Armed, Emptied, First, Comes, FirstSoon, FirstPut, Arming
<1> QED
    BY <1>5, <1>6, <1>7

LEMMA CountUpLoadKeeps ==
    ASSUME PInv, CountUpLoad
    PROVE  PInv'
<1> USE DEF PInv
<1>1. UNCHANGED <<scheduleQ, numberOfSchedules, alarmOn, al, clock, overrun, before, cmd, arg, slot,
                  hole, reg, reloads, port, rung>>
    BY MemorySame DEF CountUpLoad
<1>2. /\ pc = "countUp" /\ pc' = "countUpStore" /\ count' = Count
      /\ Count \in 0 .. count /\ Count >= numberOfSchedules /\ count \in Slot
    BY ClockAssumption DEF CountUpLoad, Goto, Where, Inserting, Loops, TypeOK, LocalsTyped, Slot, Count
<1>3. TypeOK'
    BY MemoryTyped DEF CountUpLoad
<1>4. LocalsTyped' /\ Where' /\ Loops'
    BY <1>1, <1>2, ClockAssumption DEF TypeOK, LocalsTyped, Where, InCommand, Inserting, Loops, Slot
<1>5. Own'
    <2>1. \A j \in 0 .. Count : scheduleQ[j] \in Mine
        BY <1>2, ClockAssumption DEF Own, Inserting, Slot
    <2> QED
        BY <1>1, <1>2, <2>1 DEF Own, Mine, PendingBefore, Inserting
<1>6. Armed' /\ Emptied' /\ First'
    BY <1>1, <1>2 DEF Armed, Emptied, First, Comes, FirstSoon, FirstPut, Arming
<1> QED
    BY <1>3, <1>4, <1>5, <1>6

\* The new count is not less than one more than what the rings have left.
LEMMA CountUpStoreKeeps ==
    ASSUME PInv, CountUpStore
    PROVE  PInv'
<1> USE DEF PInv
<1>1. UNCHANGED <<scheduleQ, alarmOn, al, clock, running, overrun, buzzer, buzzer_counter,
                  display_counter, isShow, screen, before, cmd, arg, slot, hole, count, reloads, port, rung>>
    BY DEF CountUpStore, OnlyQueue, alarm, panel
<1>2. /\ pc = "countUpStore" /\ pc' = IF slot = 0 THEN "alarmOn" ELSE "done"
      /\ numberOfSchedules' = count + 1 /\ reg' = arg /\ arg \in Schedule
      /\ count \in Slot /\ numberOfSchedules \in 0 .. count
    BY ClockAssumption DEF CountUpStore, Goto, Where, InCommand, Inserting, Loops, TypeOK, LocalsTyped, Slot
<1>3. TypeOK' /\ LocalsTyped' /\ Where' /\ Loops'
    BY <1>1, <1>2, ClockAssumption DEF TypeOK, LocalsTyped, Where, InCommand, Inserting, Loops, Slot
<1>4. Own'
    <2>1. \A j \in 0 .. count : scheduleQ[j] \in Mine
        BY <1>2 DEF Own, Inserting, Slot
    <2> QED
        BY <1>1, <1>2, <2>1 DEF Own, Mine, PendingBefore, Inserting, Slot
<1>5. Armed' /\ Emptied' /\ First'
    BY <1>1, <1>2 DEF Armed, Emptied, First, Comes, FirstSoon, FirstPut, Arming, Slot
<1> QED
    BY <1>3, <1>4, <1>5

LEMMA AlarmOnKeeps ==
    ASSUME PInv, AlarmOn
    PROVE  PInv'
<1> USE DEF PInv
<1>1. UNCHANGED <<scheduleQ, numberOfSchedules, al, clock, running, overrun, buzzer, buzzer_counter,
                  display_counter, isShow, screen, before, cmd, arg, slot, hole, count, reg, reloads, port, rung>>
    BY DEF AlarmOn, OnlyAlarm, queue, panel, locals
<1>2. pc = "alarmOn" /\ pc' = "alarmTime" /\ alarmOn' = TRUE
    BY DEF AlarmOn, Goto
<1>3. TypeOK' /\ LocalsTyped'
    <2>1. alarmOn' \in BOOLEAN
        BY <1>2, Zenon
    <2> QED
        BY <1>1, <2>1 DEF TypeOK, LocalsTyped
<1>4. Where' /\ Loops' /\ Own'
    BY <1>1, <1>2 DEF Where, InCommand, Inserting, Loops, Own, Mine, PendingBefore
<1>5. Armed' /\ Emptied' /\ First'
    BY <1>1, <1>2 DEF Armed, Emptied, First, Comes, FirstSoon, FirstPut, Arming
<1> QED
    BY <1>3, <1>4, <1>5

\* The alarm is set for a meeting in slot 0, or for one that is over.
LEMMA AlarmTimeKeeps ==
    ASSUME PInv, AlarmTime
    PROVE  PInv'
<1> USE DEF PInv
<1>1. UNCHANGED <<scheduleQ, numberOfSchedules, alarmOn, clock, running, overrun, buzzer, buzzer_counter,
                  display_counter, isShow, screen, before, cmd, arg, slot, hole, count, reg, reloads, port, rung>>
    BY DEF AlarmTime, OnlyAlarm, queue, panel, locals
<1>2. pc = "alarmTime" /\ pc' = "done" /\ al' = arg
    BY DEF AlarmTime, Goto, First, Arming
<1>3. TypeOK' /\ LocalsTyped'
    BY <1>1, <1>2 DEF TypeOK, LocalsTyped
<1>4. Where' /\ Loops' /\ Own'
    BY <1>1, <1>2 DEF Where, InCommand, Inserting, Loops, Own, Mine, PendingBefore
<1>5. Armed' /\ Emptied' /\ First'
    BY <1>1, <1>2 DEF Armed, Emptied, First, Comes, FirstSoon, FirstPut, Arming
<1> QED
    BY <1>3, <1>4, <1>5

LEMMA ReturnKeeps ==
    ASSUME PInv, Return
    PROVE  PInv'
<1> USE DEF PInv
<1>1. UNCHANGED <<scheduleQ, numberOfSchedules, alarmOn, al, clock, running, overrun, buzzer, buzzer_counter,
                  display_counter, isShow, screen, reloads, port>>
    BY DEF Return, vars, queue, alarm, panel
<1>2. /\ pc = "done" /\ pc' = "idle" /\ cmd' = "none" /\ arg' = None /\ slot' = 0
      /\ hole' = 0 /\ count' = 0 /\ reg' = None /\ rung' = {}
    BY DEF Return, Goto
<1>3. TypeOK' /\ LocalsTyped'
    BY <1>1, <1>2, ClockAssumption DEF TypeOK, LocalsTyped
<1>4. Where' /\ Loops' /\ Own'
    BY <1>1, <1>2 DEF Where, InCommand, Inserting, Loops, Own
<1>5. Armed' /\ Emptied' /\ First'
    BY <1>1, <1>2 DEF Armed, Emptied, First, Comes, FirstSoon, FirstPut, Arming
<1> QED
    BY <1>3, <1>4, <1>5

\* The driver's access to the port concerns the buzzer only.
LEMMA PortKeeps ==
    ASSUME PInv, PortRead \/ PortWrite
    PROVE  PInv'
<1> USE DEF PInv
<1>1. UNCHANGED <<scheduleQ, numberOfSchedules, alarmOn, al, clock, running, overrun, buzzer_counter,
                  display_counter, isShow, screen, before, cmd, arg, slot, hole, count, reg, reloads, rung>>
    BY DEF PortRead, PortWrite, vars, queue, alarm, panel, locals
<1>2. {pc, pc'} = {"idle", "portWrite"}
    BY DEF PortRead, PortWrite, Goto
<1>3. buzzer' \in BOOLEAN /\ port' \in BOOLEAN
    <2>1. CASE PortRead
        BY <2>1, Zenon DEF PortRead, TypeOK, vars, panel
    <2>2. CASE PortWrite
        BY <2>2, Zenon DEF PortWrite, LocalsTyped
    <2> QED
        BY <2>1, <2>2
<1>4. TypeOK' /\ LocalsTyped'
    BY <1>1, <1>3 DEF TypeOK, LocalsTyped
<1>5. Where' /\ Loops' /\ Own'
    BY <1>1, <1>2 DEF Where, InCommand, Inserting, Loops, Own
<1>6. Armed' /\ Emptied' /\ First'
    BY <1>1, <1>2 DEF Armed, Emptied, First, Comes, FirstSoon, FirstPut, Arming
<1> QED
    BY <1>4, <1>5, <1>6
-----------------------------------------------------------------------------
\* The alarm that rings is the first, or one that the command is about to replace
\* by an earlier one: afterwards the command's meeting is over as well.
LEMMA RingKeeps ==
    ASSUME PInv, rtc_func, Rings, UNCHANGED <<overrun, pc, reloads, locals, port, before>>,
           rung' \in SUBSET Schedule
    PROVE  PInv'
<1> USE DEF PInv
<1>1. UNCHANGED <<overrun, pc, cmd, arg, slot, hole, count, reg, reloads, port, before>>
    BY DEF locals
<1>2. /\ clock \in Nat /\ clock' = clock + 1 /\ clock' = Due(al)
      /\ al \in Schedule \cup {None} /\ Comes(al)
    BY DueOrdered DEF rtc_func, Rings, TypeOK, Comes
<1>3. numberOfSchedules \in 1 .. Size /\ numberOfSchedules' = numberOfSchedules - 1
    BY <1>2, ClockAssumption DEF rtc_func, HandleAlarm, DeleteSlot, Armed, TypeOK
<1>4. \A j \in Slot : scheduleQ'[j] = IF j < numberOfSchedules - 1 THEN scheduleQ[j + 1] ELSE scheduleQ[j]
    BY DEF rtc_func, HandleAlarm, DeleteSlot, Removed, Slot
<1>5. IF numberOfSchedules' > 1 THEN alarmOn' = TRUE /\ al' = scheduleQ'[0] ELSE alarmOn' = FALSE /\ al' = al
    BY DEF rtc_func, HandleAlarm, ArmAfterRing, RTC_SET_ALARM, RTC_DISABLE_ALARM
<1>6. TypeOK'
    BY RtcTyped
<1>7. LocalsTyped' /\ Where' /\ Loops'
    BY <1>1, <1>3, ClockAssumption DEF TypeOK, LocalsTyped, Where, InCommand, Inserting, Loops
<1>8. Own'
    <2>1. \A j \in Slot, n \in 0 .. Size :
              j < n /\ numberOfSchedules <= n /\ (\A k \in 0 .. n - 1 : scheduleQ[k] \in Mine) => scheduleQ'[j] \in Mine
        BY <1>3, <1>4, ClockAssumption DEF Slot
    <2>2. pc \in Inserting =>
              /\ count \in Slot /\ numberOfSchedules <= count
              /\ scheduleQ'[count] = scheduleQ[count]
        BY <1>3, <1>4, ClockAssumption DEF Loops, LocalsTyped, Slot
    <2>3. pc \in Inserting => \A j \in 0 .. count - 1 : scheduleQ'[j] \in Mine
        <3> SUFFICES ASSUME pc \in Inserting, NEW j \in 0 .. count - 1
                     PROVE  scheduleQ'[j] \in Mine
            OBVIOUS
        <3>1. j \in Slot /\ count \in 0 .. Size /\ j < count
            BY <2>2, ClockAssumption DEF Slot
        <3> QED
            BY <2>1, <2>2, <3>1 DEF Own
    <2>4. pc \in {"addCheck", "alarmOn", "alarmTime", "done"} =>
              \A j \in 0 .. numberOfSchedules' - 1 : scheduleQ'[j] \in Mine
        <3> SUFFICES ASSUME pc \in {"addCheck", "alarmOn", "alarmTime", "done"},
                            NEW j \in 0 .. numberOfSchedules' - 1
                     PROVE  scheduleQ'[j] \in Mine
            OBVIOUS
        <3>1. j \in Slot /\ j < numberOfSchedules /\ numberOfSchedules \in 0 .. Size
            BY <1>3, ClockAssumption DEF Slot
        <3> QED
            BY <2>1, <3>1 DEF Own
    <2>5. (Count = count)' /\ pc \in Inserting => Count = count
        BY <1>1, <1>3, <2>2, ClockAssumption DEF Count, Slot
    <2>6. Mine' = Mine
        BY <1>1 DEF Mine, PendingBefore
    <2>7. pc \in {"shift", "shiftStore"} /\ (Count = count)' => hole = count \/ scheduleQ'[count] \in Mine
        BY <2>2, <2>5 DEF Own, Inserting
    <2>8. /\ pc = "countUp" /\ (Count = count)' => scheduleQ'[count] \in Mine
          /\ pc = "countUpStore" => scheduleQ'[count] \in Mine
        BY <2>2, <2>5 DEF Own, Inserting
    <2> QED
        BY <1>1, <2>3, <2>4, <2>6, <2>7, <2>8 DEF Own
<1>9. Armed' /\ Emptied' /\ First'
    \* What comes after the alarm that rang is later.
    <2>1. \A s \in Schedule \cup {None} : clock' < Due(s) => al < s /\ Comes(s)
        BY <1>2, DueOrdered DEF Comes
    <2>2. \A s \in Schedule \cup {None} : s < al \/ s = al => ~(clock' < Due(s))
        BY <1>2, DueOrdered
    <2>3. 0 \in Slot /\ scheduleQ'[0] \in Schedule \cup {None} /\ al' \in Schedule \cup {None}
        BY <1>6, FirstSlot DEF TypeOK
    <2>4. clock' < Due(al') => /\ numberOfSchedules' > 1 /\ alarmOn'
                               /\ al' = scheduleQ'[0]
        BY <1>2, <1>5
    \* The command's meeting, if it goes to slot 0, is over.
    <2>5. FirstSoon \/ Arming => arg \in Schedule \cup {None} /\ ~(clock' < Due(arg))
        <3>1. FirstSoon \/ Arming => arg \in Schedule \cup {None} /\ (arg < al \/ arg = al)
            BY <1>2 DEF First, FirstSoon, Arming, LocalsTyped
        <3> QED
            BY <2>2, <3>1
    <2>6. (FirstSoon \/ Arming) /\ clock' < Due(al') => arg < al' /\ al' # arg
        <3>1. FirstSoon \/ Arming => arg \in Schedule \cup {None} /\ (arg < al \/ arg = al)
            BY <1>2 DEF First, FirstSoon, Arming, LocalsTyped
        <3>2. clock' < Due(al') => al < al'
            BY <2>1, <2>3
        <3>3. al \in Nat /\ al' \in Nat /\ (FirstSoon \/ Arming => arg \in Nat)
            BY <1>2, <2>3, <3>1, DueOrdered
        <3> QED
            BY <3>1, <3>2, <3>3
    <2>7. numberOfSchedules' = 0 /\ ~FirstPut => ~(clock' < Due(scheduleQ'[0]))
        <3> SUFFICES ASSUME numberOfSchedules' = 0, ~FirstPut
                     PROVE  ~(clock' < Due(scheduleQ'[0]))
            OBVIOUS
        <3>1. numberOfSchedules = 1 /\ scheduleQ'[0] = scheduleQ[0]
            BY <1>3, <1>4, <2>3
        <3>2. CASE al = scheduleQ[0]
            BY <1>2, <2>2, <3>1, <3>2
        <3>3. CASE Arming
            \* One schedule is left, so that the alarm is the command's own.
            <4>1. al = arg
                BY <1>2, <3>1, <3>3 DEF First
            <4>2. Comes(arg) => scheduleQ[0] = arg
                BY <3>3 DEF First
            <4> QED
                BY <1>2, <2>2, <3>1, <4>1, <4>2
        <3> QED
            BY <1>2, <3>2, <3>3 DEF Armed
    <2> QED
        BY <1>1, <1>3, <2>4, <2>5, <2>6, <2>7 DEF Armed, Emptied, First, Comes, FirstSoon, FirstPut, Arming
<1> QED
    BY <1>6, <1>7, <1>8, <1>9

\* A second without an alarm only passes.
LEMMA SecondKeeps ==
    ASSUME PInv, Second
    PROVE  PInv'
<1> USE DEF PInv
<1>1. rtc_func /\ UNCHANGED <<overrun, pc, reloads, locals, port, before>>
    BY DEF Second
<1>2. rung' \in SUBSET Schedule
    <2>1. Rings => al \in Schedule
        BY DueOrdered DEF Rings, TypeOK
    <2> QED
        BY <2>1 DEF Second, LocalsTyped
<1>3. CASE Rings
    BY <1>1, <1>2, <1>3, RingKeeps
<1>4. CASE ~Rings
    <2>1. UNCHANGED <<overrun, pc, cmd, arg, slot, hole, count, reg, reloads, port, before,
                      scheduleQ, numberOfSchedules, alarmOn, al>>
        BY <1>1, <1>4 DEF rtc_func, locals, queue, alarm
    <2>2. \A s \in Schedule \cup {None} : clock' < Due(s) => Comes(s)
        BY <1>1, DueOrdered DEF rtc_func, Comes, TypeOK
    <2>3. TypeOK'
        BY <1>1, RtcTyped
    <2>4. LocalsTyped' /\ Where' /\ Loops' /\ Own'
        BY <1>2, <2>1 DEF LocalsTyped, Where, InCommand, Inserting, Loops, Own, Mine, PendingBefore, Count
    <2>5. Armed' /\ Emptied' /\ First'
        <3>1. /\ al \in Schedule \cup {None}
              /\ scheduleQ[0] \in Schedule \cup {None}
              /\ arg \in Schedule \cup {None}
            BY FirstSlot DEF TypeOK, LocalsTyped
        <3>2. /\ Comes(al)' => Comes(al)
              /\ Comes(scheduleQ[0])' => Comes(scheduleQ[0])
              /\ Comes(arg)' => Comes(arg)
            BY <2>1, <2>2, <3>1 DEF Comes
        <3> QED
            BY <2>1, <3>2 DEF Armed, Emptied, First, FirstSoon, FirstPut, Arming
    <2> QED
        BY <2>3, <2>4, <2>5
<1> QED
    BY <1>3, <1>4

LEMMA ButtonKeeps ==
    ASSUME PInv, Button
    PROVE  PInv'
<1> USE DEF PInv
<1>1. button_intterupt /\ UNCHANGED overrun
    BY DEF Button
<1>2. UNCHANGED <<overrun, pc, cmd, arg, slot, hole, count, reg, reloads, port, before, rung,
                  scheduleQ, numberOfSchedules, alarmOn, al, clock>>
    BY DEF Button, button_intterupt, locals, queue, alarm
<1>3. TypeOK'
    BY <1>1, ButtonTyped
<1>4. LocalsTyped' /\ Where' /\ Loops' /\ Own'
    BY <1>2 DEF LocalsTyped, Where, InCommand, Inserting, Loops, Own, Mine, PendingBefore, Count
<1>5. Armed' /\ Emptied' /\ First'
    BY <1>2 DEF Armed, Emptied, First, Comes, FirstSoon, FirstPut, Arming
<1> QED
    BY <1>3, <1>4, <1>5

\* The steps a command that stores a meeting never takes.
LEMMA NoDelete ==
    ASSUME PInv, Deletable = {}
    PROVE  /\ \A s \in Schedule : ~BeginDelete(s)
           /\ ~AddOverrun /\ ~Delete /\ ~Rearm /\ ~AlarmOff
<1>1. \A s \in Schedule : ~BeginDelete(s)
    BY DEF BeginDelete
<1>2. ~AddOverrun
    BY DEF AddOverrun, PInv, Where, TypeOK
<1>3. pc \notin {"find", "found", "close", "closeStore", "countDownStore", "rearm", "alarmOff"}
    BY DEF PInv, Where, Inserting
<1>4. ~Delete
    BY <1>3 DEF Delete, Find, Found, CloseLoad, CloseStore, CountDownLoad, CountDownStore
<1>5. ~Rearm /\ ~AlarmOff
    BY <1>3 DEF Rearm, AlarmOff
<1> QED
    BY <1>1, <1>2, <1>4, <1>5

LEMMA PStutter ==
    ASSUME PInv, UNCHANGED pvars
    PROVE  PInv'
<1> USE DEF PInv
<1>1. UNCHANGED <<scheduleQ, numberOfSchedules, alarmOn, al, clock, running, overrun, buzzer, buzzer_counter,
                  display_counter, isShow, screen, pc, cmd, arg, slot, hole, count, reg, reloads, port, before, rung>>
    BY DEF pvars, vars, queue, alarm, panel, locals
<1>2. TypeOK' /\ LocalsTyped'
    BY <1>1 DEF TypeOK, LocalsTyped
<1>3. Where' /\ Loops' /\ Own'
    BY <1>1 DEF Where, InCommand, Inserting, Loops, Own, Mine, PendingBefore, Count
<1>4. Armed' /\ Emptied' /\ First'
    BY <1>1 DEF Armed, Emptied, First, Comes, FirstSoon, FirstPut, Arming
<1> QED
    BY <1>2, <1>3, <1>4

\* Every step of the main loop and of the interrupts keeps the invariant.
LEMMA PNextKeeps ==
    ASSUME Deletable = {}, Punctual, PInv, [PNext]_pvars
    PROVE  PInv'
<1>1. ASSUME NEW s \in Schedule, BeginAdd(s) PROVE PInv'
    BY <1>1, BeginAddKeeps
<1>2. ASSUME NEW t \in SetTo, Clock(t) PROVE PInv'
    BY <1>2, ClockKeeps
<1>3. CASE Add
    BY <1>3, NoDelete, AddCheckKeeps, SearchKeeps, ShiftLoadKeeps, ShiftStoreKeeps, PutKeeps,
       CountUpLoadKeeps, CountUpStoreKeeps DEF Add
<1>4. CASE Arm
    BY <1>4, NoDelete, AlarmOnKeeps, AlarmTimeKeeps DEF Arm
<1>5. CASE Return
    BY <1>5, ReturnKeeps
<1>6. CASE PortRead \/ PortWrite
    BY <1>6, PortKeeps
<1>7. CASE Second
    BY <1>7, SecondKeeps
<1>8. CASE Button
    BY <1>8, ButtonKeeps
<1>9. CASE UNCHANGED pvars
    BY <1>9, PStutter
<1> QED
    BY <1>1, <1>2, <1>3, <1>4, <1>5, <1>6, <1>7, <1>8, <1>9, NoDelete DEF PNext
-----------------------------------------------------------------------------
\* AddSchedule writes only inside its array, wherever rtc_func and the button cut in;
\* what is pending afterwards was pending before or is the new meeting; and between
\* commands an alarm still to come is set for slot 0.
THEOREM AddIsSafe ==
    ASSUME Deletable = {}, Punctual
    PROVE  PSpec => [](PTypeOK /\ InBounds /\ AddsOnlyItsOwn /\ SettledAlarm)
<1>1. PInit => PInv
    BY PInitHolds
<1>2. PInv /\ [PNext]_pvars => PInv'
    BY PNextKeeps
<1>3. PInv => PTypeOK /\ InBounds /\ AddsOnlyItsOwn /\ SettledAlarm
    BY PInvImplies
<1> QED
    BY <1>1, <1>2, <1>3, PTL DEF PSpec

\* The same of the preempted behaviours of the specification that TLC runs: AddSchedule
\* stays inside its array and brings no other meeting back.
THEOREM PreemptedAddIsSafe ==
    ASSUME Deletable = {}, Punctual
    PROVE  mode = "preempted" /\ MCSpec => []AddInv
<1> DEFINE I == PInv /\ mode = "preempted"
<1>1. mode = "preempted" /\ MCInit => I
    BY PInitHolds DEF MCInit
<1>2. I /\ [MCNext]_<<pvars, mode>> => I'
    BY PNextKeeps DEF MCNext
<1>3. I => AddInv
    BY PInvImplies DEF AddInv, PreemptTypeOK, AddInBounds, AddKeepsOthers
<1> QED
    BY <1>1, <1>2, <1>3, PTL DEF MCSpec

\* And that between commands the alarm is that of slot 0.
THEOREM PreemptedAddSettles ==
    ASSUME Deletable = {}, Punctual
    PROVE  mode = "preempted" /\ MCSpec => []AddSettlesAlarm
<1> DEFINE I == PInv /\ mode = "preempted"
<1>1. mode = "preempted" /\ MCInit => I
    BY PInitHolds DEF MCInit
<1>2. I /\ [MCNext]_<<pvars, mode>> => I'
    BY PNextKeeps DEF MCNext
<1>3. I => AddSettlesAlarm
    BY PInvImplies DEF AddSettlesAlarm
<1> QED
    BY <1>1, <1>2, <1>3, PTL DEF MCSpec
-----------------------------------------------------------------------------
(* Commands that run whole *)

\* Where the main loop is between two commands, and where only one of them can be.
Between     == pc \in {"idle", "portWrite"}
AddSteps    == {"addCheck", "search", "shift", "shiftStore", "countUp", "countUpStore"}
DeleteSteps == {"find", "found", "close", "closeStore", "countDownStore", "rearm", "alarmOff"}

Steps ==
    /\ pc \in {"idle", "portWrite", "alarmOn", "alarmTime", "done"} \cup AddSteps \cup DeleteSteps
    /\ pc \in AddSteps => cmd = "add"
    /\ pc \in DeleteSteps => cmd = "delete"

\* The count the command found.
Was == before.n

WholeTyped ==
    /\ scheduleQ \in [Slot -> Schedule \cup {None}]
    /\ numberOfSchedules \in Int /\ numberOfSchedules <= Size
    /\ Between => cmd = "none" /\ slot = 0
    /\ pc = "portWrite" => port = buzzer
    /\ ~Between => /\ cmd \in {"add", "delete"}
                   /\ arg \in Schedule
                   /\ before.q \in [Slot -> Schedule \cup {None}]
                   /\ Was \in Int /\ Was <= Size
                   /\ cmd = "delete" => Was > -Underflow

\* What a command has not written yet.
QueueAsBefore == scheduleQ = before.q /\ numberOfSchedules = Was
AlarmAsBefore == alarmOn = before.on /\ al = before.al

\* The slots from the hole on, up to the old count, hold what was below them.
MovedUp == [j \in Slot |-> IF j > hole /\ j <= Was THEN before.q[j - 1] ELSE before.q[j]]

\* The slots between the meeting's and the hole hold what was above them.
MovedDown == [j \in Slot |-> IF j >= slot /\ j < hole THEN before.q[j + 1] ELSE before.q[j]]

\* The queue when the meeting is in its slot, and when it has left it.
WithIt ==
    [j \in Slot |-> IF j > slot /\ j <= Was THEN before.q[j - 1]
                    ELSE IF j = slot THEN arg ELSE before.q[j]]
WithoutIt ==
    [j \in Slot |-> IF j >= slot /\ j < Was - 1 THEN before.q[j + 1] ELSE before.q[j]]

AllBelow == slot \in 0 .. Was /\ \A j \in 0 .. slot - 1 : arg > before.q[j]

\* The meeting belongs to its slot, and another one is in it, or none.
GoesThere ==
    /\ Was \in Slot
    /\ AllBelow
    /\ slot < Was => arg < before.q[slot]

\* The search of a delete has not come to the meeting before its slot.
NotBelow == slot \in Slot /\ \A j \in 0 .. slot - 1 : before.q[j] # arg
FoundIt  == NotBelow /\ before.q[slot] = arg

\* Where AddSchedule is, and what it has written.
Adding ==
    /\ pc = "addCheck" => slot = 0 /\ QueueAsBefore
    /\ pc = "search" => Was \in Slot /\ count = Was /\ AllBelow /\ QueueAsBefore
    /\ pc \in {"shift", "shiftStore"} =>
           GoesThere /\ count = Was /\ hole \in slot .. Was /\ scheduleQ = MovedUp
    /\ pc = "shiftStore" => hole > slot /\ reg = before.q[hole - 1]
    /\ pc \in {"countUp", "countUpStore"} => GoesThere /\ count = Was /\ scheduleQ = WithIt
    /\ pc \in {"shift", "shiftStore", "countUp", "countUpStore"} => numberOfSchedules = Was

\* Where DeleteSchedule is, and what it has written.
Deleting ==
    /\ pc = "find" => NotBelow /\ QueueAsBefore
    /\ pc = "found" => FoundIt /\ QueueAsBefore
    /\ pc \in {"close", "closeStore"} =>
           /\ FoundIt /\ count = Was
           /\ hole \in slot .. Size - 1
           /\ hole > slot => hole < Was
           /\ scheduleQ = MovedDown
    /\ pc = "closeStore" => hole < Was - 1 /\ reg = before.q[hole + 1]
    /\ pc = "countDownStore" => FoundIt /\ count = Was /\ scheduleQ = WithoutIt
    /\ pc \in {"close", "closeStore", "countDownStore"} => numberOfSchedules = Was

\* The queue as the command leaves it.
Added ==
    \/ Was = Size /\ slot = Full /\ QueueAsBefore
    \/ Was \in Slot /\ AllBelow /\ slot < Was /\ before.q[slot] = arg /\ QueueAsBefore
    \/ GoesThere /\ scheduleQ = WithIt /\ numberOfSchedules = Was + 1
Deleted ==
    \/ slot = Full /\ (\A j \in Slot : before.q[j] # arg) /\ QueueAsBefore
    \/ FoundIt /\ scheduleQ = WithoutIt /\ numberOfSchedules = Was - 1

\* The command goes to the alarm registers only from slot 0.
ToArm ==
    /\ pc \in {"rearm", "alarmOff"} => cmd = "delete" /\ Deleted /\ slot = 0
    /\ pc \in {"alarmOn", "alarmTime"} => /\ slot = 0
                                          /\ IF cmd = "add" THEN Added /\ reg = arg
                                             ELSE Deleted /\ numberOfSchedules # 0
                                                          /\ reg = scheduleQ[0]
    /\ pc = "alarmOff" => numberOfSchedules = 0
    /\ ~Between /\ pc \notin {"alarmTime", "done"} => AlarmAsBefore
    /\ pc = "alarmTime" => alarmOn = TRUE /\ al = before.al

\* The command is done.
AlarmSet(s) == alarmOn = TRUE /\ al = s
AddDone ==
    /\ Added
    /\ IF slot = 0 THEN AlarmSet(arg) ELSE AlarmAsBefore
DeleteDone ==
    /\ Deleted
    /\ IF slot # 0 THEN AlarmAsBefore
       ELSE IF numberOfSchedules # 0 THEN AlarmSet(scheduleQ[0])
       ELSE alarmOn = FALSE /\ al = before.al
Done ==
    pc = "done" /\ ~overrun => IF cmd = "add" THEN AddDone ELSE DeleteDone

WholeInv == WholeTyped /\ Steps /\ Adding /\ Deleting /\ ToArm /\ Done
-----------------------------------------------------------------------------
\* What the steps of a command leave alone, the last one and the overrun aside.
CommandKeeps == UNCHANGED <<cmd, arg, before, clock, running, overrun, panel>>

LEMMA WholeSame ==
    ASSUME MemoryUnchanged
    PROVE  UNCHANGED <<scheduleQ, numberOfSchedules, alarmOn, al, clock, running, overrun, panel,
                       buzzer, reloads, port, before>>
BY DEF MemoryUnchanged, vars, queue, alarm, panel

LEMMA WholeAddCheck ==
    ASSUME WholeInv, AddCheck
    PROVE  WholeInv' /\ CommandKeeps
<1> USE DEF WholeInv
<1>1. UNCHANGED <<scheduleQ, numberOfSchedules, alarmOn, al, clock, running, overrun, panel, buzzer,
                  cmd, arg, before, hole, reg, port>>
    BY WholeSame DEF AddCheck
<1>2. /\ pc = "addCheck" /\ cmd = "add" /\ slot = 0 /\ QueueAsBefore /\ AlarmAsBefore
      /\ numberOfSchedules >= 0 /\ count' = numberOfSchedules /\ arg \in Schedule
      /\ \/ numberOfSchedules = Size /\ pc' = "done" /\ slot' = Full
         \/ numberOfSchedules # Size /\ pc' = "search" /\ slot' = slot
    BY DEF AddCheck, Goto, Steps, AddSteps, DeleteSteps, Adding, ToArm, Between, WholeTyped
<1>3. WholeTyped' /\ Steps'
    BY <1>1, <1>2 DEF WholeTyped, Steps, Between, AddSteps, DeleteSteps, Was
<1>4. Adding'
    BY <1>1, <1>2, ClockAssumption
       DEF Adding, QueueAsBefore, AllBelow, Was, Slot, WholeTyped
<1>5. Deleting' /\ ToArm'
    BY <1>1, <1>2 DEF Deleting, ToArm, AlarmAsBefore
<1>6. Done'
    BY <1>1, <1>2, ClockAssumption DEF Done, AddDone, Added, QueueAsBefore, AlarmAsBefore, Was, Full
<1> QED
    BY <1>1, <1>3, <1>4, <1>5, <1>6 DEF CommandKeeps

LEMMA WholeSearch ==
    ASSUME WholeInv, Search
    PROVE  WholeInv' /\ CommandKeeps
<1> USE DEF WholeInv
<1>1. UNCHANGED <<scheduleQ, numberOfSchedules, alarmOn, al, clock, running, overrun, panel, buzzer,
                  cmd, arg, before, count, port>>
    BY WholeSame DEF Search
<1>2. /\ pc = "search" /\ cmd = "add" /\ AllBelow /\ QueueAsBefore /\ AlarmAsBefore
      /\ count = Was /\ Count = Was /\ Was \in Slot /\ arg \in Schedule
      /\ scheduleQ = before.q /\ before.q \in [Slot -> Schedule \cup {None}]
    BY DEF Search, Steps, AddSteps, DeleteSteps, Adding, ToArm, Between, WholeTyped, Count,
           QueueAsBefore
<1>3. /\ slot \in 0 .. Was /\ Was \in 0 .. Size - 1 /\ Size \in 1 .. 254 /\ arg \in Nat
      /\ \A j \in Slot : before.q[j] \in Nat
    <2>1. slot \in 0 .. Was /\ Was \in 0 .. Size - 1 /\ Size \in 1 .. 254
        BY <1>2, ClockAssumption DEF AllBelow, Slot
    <2>2. Schedule \cup {None} \subseteq Nat
        BY ClockAssumption DEF None
    <2>3. \A j \in Slot : before.q[j] \in Schedule \cup {None}
        BY <1>2
    <2> QED
        BY <1>2, <2>1, <2>2, <2>3
<1>4. Deleting' /\ WholeTyped'
    <2>1. pc' \in {"search", "alarmOn", "done", "shift"}
        BY <1>2 DEF Search, Goto
    <2> QED
        BY <1>1, <1>2, <2>1 DEF Deleting, WholeTyped, Between, Was
<1>5. CASE slot < Count /\ arg > scheduleQ[slot] /\ slot' = slot + 1 /\ UNCHANGED <<pc, hole, reg>>
    <2>1. AllBelow'
        BY <1>1, <1>2, <1>3, <1>5 DEF AllBelow, Was, Slot
    <2>2. Steps' /\ Adding' /\ ToArm' /\ Done'
        BY <1>1, <1>2, <1>5, <2>1
           DEF Steps, Adding, ToArm, Done, QueueAsBefore, AlarmAsBefore, Was, AddSteps, DeleteSteps, Between
    <2> QED
        BY <1>1, <1>4, <2>2 DEF CommandKeeps
<1>6. CASE /\ slot < Count /\ arg = scheduleQ[slot]
           /\ pc' = IF slot = 0 THEN "alarmOn" ELSE "done"
           /\ reg' = arg
           /\ UNCHANGED <<slot, hole>>
    <2>1. Added'
        BY <1>1, <1>2, <1>3, <1>6 DEF Added, AllBelow, QueueAsBefore, Was
    <2>2. Steps' /\ Adding' /\ ToArm' /\ Done'
        BY <1>1, <1>2, <1>6, <2>1
           DEF Steps, Adding, ToArm, Done, AddDone, AlarmAsBefore, AddSteps, DeleteSteps, Between
    <2> QED
        BY <1>1, <1>4, <2>2 DEF CommandKeeps
<1>7. CASE /\ slot < Count => arg < scheduleQ[slot]
           /\ pc' = "shift"
           /\ hole' = Count
           /\ UNCHANGED <<slot, reg>>
    <2>1. GoesThere'
        BY <1>1, <1>2, <1>3, <1>7 DEF GoesThere, AllBelow, Was, Slot
    <2>2. scheduleQ' = MovedUp'
        BY <1>1, <1>2, <1>3, <1>7 DEF MovedUp, Was, Slot
    <2>3. Steps' /\ Adding' /\ ToArm' /\ Done'
        BY <1>1, <1>2, <1>3, <1>7, <2>1, <2>2
           DEF Steps, Adding, ToArm, Done, QueueAsBefore, AlarmAsBefore, Was, AddSteps, DeleteSteps, Between
    <2> QED
        BY <1>1, <1>4, <2>3 DEF CommandKeeps
<1> QED
    BY <1>5, <1>6, <1>7 DEF Search, Goto

\* The steps between the searches and the alarm leave the alarm and the command alone.
LEMMA WholeOnlyQueue ==
    ASSUME OnlyQueue
    PROVE  UNCHANGED <<alarmOn, al, clock, running, overrun, panel, buzzer, reloads, port, before>>
BY DEF OnlyQueue, alarm, panel

LEMMA WholeShiftLoad ==
    ASSUME WholeInv, ShiftLoad
    PROVE  WholeInv' /\ CommandKeeps
<1> USE DEF WholeInv
<1>1. UNCHANGED <<scheduleQ, numberOfSchedules, alarmOn, al, clock, running, overrun, panel, buzzer,
                  cmd, arg, before, slot, hole, count, port>>
    BY WholeSame DEF ShiftLoad
<1>2. /\ pc = "shift" /\ pc' = "shiftStore" /\ cmd = "add" /\ GoesThere /\ AlarmAsBefore
      /\ count = Was /\ hole \in slot .. Was /\ hole > slot /\ scheduleQ = MovedUp
      /\ numberOfSchedules = Was /\ reg' = scheduleQ[hole - 1]
    BY DEF ShiftLoad, Goto, Steps, AddSteps, DeleteSteps, Adding, ToArm, Between
<1>3. hole - 1 \in Slot /\ ~(hole - 1 > hole)
    BY <1>2, ClockAssumption DEF GoesThere, AllBelow, Slot
<1>4. reg' = before.q[hole - 1]
    BY <1>2, <1>3 DEF MovedUp
<1>5. GoesThere' /\ scheduleQ' = MovedUp'
    BY <1>1, <1>2 DEF GoesThere, AllBelow, MovedUp, Was
<1>6. Adding'
    BY <1>1, <1>2, <1>4, <1>5 DEF Adding, Was
<1>7. WholeTyped' /\ Steps' /\ Deleting' /\ ToArm' /\ Done'
    BY <1>1, <1>2 DEF WholeTyped, Steps, Deleting, ToArm, Done, AlarmAsBefore, AddSteps, DeleteSteps, Between, Was
<1> QED
    BY <1>1, <1>6, <1>7 DEF CommandKeeps

LEMMA WholeShiftStore ==
    ASSUME WholeInv, ShiftStore
    PROVE  WholeInv' /\ CommandKeeps
<1> USE DEF WholeInv
<1>1. UNCHANGED <<numberOfSchedules, alarmOn, al, clock, running, overrun, panel, buzzer,
                  cmd, arg, before, slot, count, reg, port>>
    BY WholeOnlyQueue DEF ShiftStore
<1>2. /\ pc = "shiftStore" /\ pc' = "shift" /\ cmd = "add" /\ GoesThere /\ AlarmAsBefore
      /\ count = Was /\ hole \in slot .. Was /\ hole > slot /\ scheduleQ = MovedUp
      /\ numberOfSchedules = Was /\ reg = before.q[hole - 1]
      /\ scheduleQ' = [scheduleQ EXCEPT ![hole] = reg] /\ hole' = hole - 1
      /\ before.q \in [Slot -> Schedule \cup {None}]
    BY DEF ShiftStore, Goto, Steps, AddSteps, DeleteSteps, Adding, ToArm, Between, WholeTyped
<1>3. hole - 1 \in Slot /\ hole \in Slot /\ slot \in Nat /\ Was \in Nat
    BY <1>2, ClockAssumption DEF GoesThere, AllBelow, Slot
<1>4. GoesThere' /\ hole' \in slot' .. Was'
    BY <1>1, <1>2, <1>3 DEF GoesThere, AllBelow, Was
<1>5. scheduleQ' = MovedUp'
    <2>1. MovedUp' = [j \in Slot |-> IF j > hole - 1 /\ j <= Was THEN before.q[j - 1] ELSE before.q[j]]
        BY <1>1, <1>2 DEF MovedUp, Was
    <2>2. scheduleQ' = [j \in Slot |-> IF j = hole THEN reg ELSE MovedUp[j]]
        BY <1>2, <1>3 DEF MovedUp
    <2>3. ASSUME NEW j \in Slot
          PROVE  (IF j = hole THEN reg ELSE MovedUp[j])
                    = IF j > hole - 1 /\ j <= Was THEN before.q[j - 1] ELSE before.q[j]
        BY <1>2, <1>3, ClockAssumption DEF MovedUp, Slot
    <2> QED
        BY <2>1, <2>2, <2>3, Zenon
<1>6. Adding'
    BY <1>1, <1>2, <1>4, <1>5 DEF Adding, Was
<1>7. scheduleQ' \in [Slot -> Schedule \cup {None}]
    BY <1>2, <1>3 DEF WholeTyped
<1>8. WholeTyped' /\ Steps' /\ Deleting' /\ ToArm' /\ Done'
    BY <1>1, <1>2, <1>7 DEF WholeTyped, Steps, Deleting, ToArm, Done, AlarmAsBefore, AddSteps, DeleteSteps, Between, Was
<1> QED
    BY <1>1, <1>6, <1>8 DEF CommandKeeps

LEMMA WholePut ==
    ASSUME WholeInv, Put
    PROVE  WholeInv' /\ CommandKeeps
<1> USE DEF WholeInv
<1>1. UNCHANGED <<numberOfSchedules, alarmOn, al, clock, running, overrun, panel, buzzer,
                  cmd, arg, before, slot, hole, count, reg, port>>
    BY WholeOnlyQueue DEF Put, locals
<1>2. /\ pc = "shift" /\ pc' = "countUp" /\ cmd = "add" /\ GoesThere /\ AlarmAsBefore
      /\ count = Was /\ hole \in slot .. Was /\ hole <= slot /\ scheduleQ = MovedUp
      /\ numberOfSchedules = Was /\ arg \in Schedule
      /\ scheduleQ' = [scheduleQ EXCEPT ![slot] = arg]
    BY DEF Put, Goto, Steps, AddSteps, DeleteSteps, Adding, ToArm, Between, WholeTyped
<1>3. slot \in Slot /\ hole = slot /\ slot \in Nat /\ Was \in Nat
    BY <1>2, ClockAssumption DEF GoesThere, AllBelow, Slot
<1>4. GoesThere'
    BY <1>1, <1>2, <1>3 DEF GoesThere, AllBelow, Was
<1>5. scheduleQ' = WithIt'
    <2>1. WithIt' = WithIt
        BY <1>1, <1>2 DEF WithIt, Was
    <2>2. scheduleQ' = [j \in Slot |-> IF j = slot THEN arg ELSE MovedUp[j]]
        BY <1>2, <1>3 DEF MovedUp
    <2>3. ASSUME NEW j \in Slot
          PROVE  (IF j = slot THEN arg ELSE MovedUp[j]) = WithIt[j]
        BY <1>2, <1>3, ClockAssumption DEF MovedUp, WithIt, Slot
    <2>4. WithIt = [j \in Slot |-> WithIt[j]]
        BY DEF WithIt
    <2> QED
        BY <2>1, <2>2, <2>3, <2>4, Zenon
<1>6. Adding'
    BY <1>1, <1>2, <1>4, <1>5 DEF Adding, Was
<1>7. scheduleQ' \in [Slot -> Schedule \cup {None}]
    BY <1>2, <1>3 DEF WholeTyped
<1>8. WholeTyped' /\ Steps' /\ Deleting' /\ ToArm' /\ Done'
    BY <1>1, <1>2, <1>7 DEF WholeTyped, Steps, Deleting, ToArm, Done, AlarmAsBefore, AddSteps, DeleteSteps, Between, Was
<1> QED
    BY <1>1, <1>6, <1>8 DEF CommandKeeps

LEMMA WholeCountUpLoad ==
    ASSUME WholeInv, CountUpLoad
    PROVE  WholeInv' /\ CommandKeeps
<1> USE DEF WholeInv
<1>1. UNCHANGED <<scheduleQ, numberOfSchedules, alarmOn, al, clock, running, overrun, panel, buzzer,
                  cmd, arg, before, slot, hole, reg, port>>
    BY WholeSame DEF CountUpLoad
<1>2. /\ pc = "countUp" /\ pc' = "countUpStore" /\ cmd = "add" /\ GoesThere /\ AlarmAsBefore
      /\ count' = Was /\ scheduleQ = WithIt /\ numberOfSchedules = Was
    BY DEF CountUpLoad, Goto, Steps, AddSteps, DeleteSteps, Adding, ToArm, Between, Count
<1>3. GoesThere' /\ scheduleQ' = WithIt'
    BY <1>1, <1>2 DEF GoesThere, AllBelow, WithIt, Was
<1>4. Adding'
    BY <1>1, <1>2, <1>3 DEF Adding, Was
<1>5. WholeTyped' /\ Steps' /\ Deleting' /\ ToArm' /\ Done'
    BY <1>1, <1>2 DEF WholeTyped, Steps, Deleting, ToArm, Done, AlarmAsBefore, AddSteps, DeleteSteps, Between, Was
<1> QED
    BY <1>1, <1>4, <1>5 DEF CommandKeeps

LEMMA WholeCountUpStore ==
    ASSUME WholeInv, CountUpStore
    PROVE  WholeInv' /\ CommandKeeps
<1> USE DEF WholeInv
<1>1. UNCHANGED <<scheduleQ, alarmOn, al, clock, running, overrun, panel, buzzer,
                  cmd, arg, before, slot, hole, count, port>>
    BY WholeOnlyQueue DEF CountUpStore
<1>2. /\ pc = "countUpStore" /\ pc' = (IF slot = 0 THEN "alarmOn" ELSE "done") /\ cmd = "add"
      /\ GoesThere /\ AlarmAsBefore /\ scheduleQ = WithIt
      /\ numberOfSchedules' = Was + 1 /\ reg' = arg
    BY DEF CountUpStore, Goto, Steps, AddSteps, DeleteSteps, Adding, ToArm, Between
<1>3. Was \in 0 .. Size - 1
    BY <1>2 DEF GoesThere, Slot
<1>4. Added'
    <2>1. GoesThere' /\ scheduleQ' = WithIt'
        BY <1>1, <1>2 DEF GoesThere, AllBelow, WithIt, Was
    <2> QED
        BY <1>1, <1>2, <2>1 DEF Added, Was
<1>5. WholeTyped'
    BY <1>1, <1>2, <1>3, ClockAssumption DEF WholeTyped, Between, Was
<1>6. Steps' /\ Adding' /\ Deleting' /\ ToArm' /\ Done'
    BY <1>1, <1>2, <1>4
       DEF Steps, Adding, Deleting, ToArm, Done, AddDone, AlarmAsBefore, AddSteps, DeleteSteps, Between
<1> QED
    BY <1>1, <1>5, <1>6 DEF CommandKeeps

LEMMA WholeFind ==
    ASSUME WholeInv, Find
    PROVE  WholeInv' /\ CommandKeeps
<1> USE DEF WholeInv
<1>1. UNCHANGED <<scheduleQ, numberOfSchedules, alarmOn, al, clock, running, overrun, panel, buzzer,
                  cmd, arg, before, hole, count, reg, port>>
    BY WholeSame DEF Find
<1>2. /\ pc = "find" /\ cmd = "delete" /\ NotBelow /\ QueueAsBefore /\ AlarmAsBefore
      /\ scheduleQ = before.q
      /\ \/ scheduleQ[slot] = arg /\ pc' = "found" /\ slot' = slot
         \/ scheduleQ[slot] # arg /\ slot + 1 = Size /\ pc' = "done" /\ slot' = Full
         \/ scheduleQ[slot] # arg /\ slot + 1 # Size /\ pc' = "find" /\ slot' = slot + 1
    BY DEF Find, Goto, Steps, AddSteps, DeleteSteps, Deleting, ToArm, Between, QueueAsBefore
<1>3. slot \in 0 .. Size - 1 /\ Size \in 1 .. 254
    BY <1>2, ClockAssumption DEF NotBelow, Slot
<1>4. WholeTyped' /\ Steps' /\ Adding'
    BY <1>1, <1>2 DEF WholeTyped, Steps, Adding, AddSteps, DeleteSteps, Between, Was
<1>5. CASE scheduleQ[slot] = arg /\ pc' = "found" /\ slot' = slot
    <2>1. FoundIt'
        BY <1>1, <1>2, <1>5 DEF FoundIt, NotBelow
    <2> QED
        BY <1>1, <1>2, <1>4, <1>5, <2>1
           DEF Deleting, ToArm, Done, QueueAsBefore, AlarmAsBefore, Was, CommandKeeps, Between
<1>6. CASE scheduleQ[slot] # arg /\ slot + 1 = Size /\ pc' = "done" /\ slot' = Full
    <2>1. Deleted'
        BY <1>1, <1>2, <1>3, <1>6 DEF Deleted, NotBelow, QueueAsBefore, Was, Slot
    <2> QED
        BY <1>1, <1>2, <1>4, <1>6, <2>1
           DEF Deleting, ToArm, Done, DeleteDone, AlarmAsBefore, CommandKeeps, Full, Between
<1>7. CASE scheduleQ[slot] # arg /\ slot + 1 # Size /\ pc' = "find" /\ slot' = slot + 1
    <2>1. NotBelow'
        BY <1>1, <1>2, <1>3, <1>7 DEF NotBelow, Slot
    <2> QED
        BY <1>1, <1>2, <1>4, <1>7, <2>1
           DEF Deleting, ToArm, Done, QueueAsBefore, AlarmAsBefore, Was, CommandKeeps, Between
<1> QED
    BY <1>2, <1>5, <1>6, <1>7

LEMMA WholeFound ==
    ASSUME WholeInv, Found
    PROVE  WholeInv' /\ CommandKeeps
<1> USE DEF WholeInv
<1>1. UNCHANGED <<scheduleQ, numberOfSchedules, alarmOn, al, clock, running, overrun, panel, buzzer,
                  cmd, arg, before, slot, reg, port>>
    BY WholeSame DEF Found
<1>2. /\ pc = "found" /\ pc' = "close" /\ cmd = "delete" /\ FoundIt /\ QueueAsBefore /\ AlarmAsBefore
      /\ count' = numberOfSchedules /\ hole' = slot
      /\ before.q \in [Slot -> Schedule \cup {None}]
    BY DEF Found, Goto, Steps, AddSteps, DeleteSteps, Deleting, ToArm, Between, WholeTyped
<1>3. slot \in 0 .. Size - 1
    BY <1>2 DEF FoundIt, NotBelow, Slot
<1>4. FoundIt'
    BY <1>1, <1>2 DEF FoundIt, NotBelow
<1>5. scheduleQ' = MovedDown'
    <2>1. MovedDown' = [j \in Slot |-> before.q[j]]
        BY <1>1, <1>2, <1>3 DEF MovedDown, Slot
    <2> QED
        BY <1>1, <1>2, <2>1 DEF QueueAsBefore
<1>6. Deleting'
    BY <1>1, <1>2, <1>3, <1>4, <1>5 DEF Deleting, QueueAsBefore, Was
<1>7. WholeTyped' /\ Steps' /\ Adding' /\ ToArm' /\ Done'
    BY <1>1, <1>2 DEF WholeTyped, Steps, Adding, ToArm, Done, AlarmAsBefore, AddSteps, DeleteSteps, Between, Was
<1> QED
    BY <1>1, <1>6, <1>7 DEF CommandKeeps

LEMMA WholeCloseLoad ==
    ASSUME WholeInv, CloseLoad
    PROVE  WholeInv' /\ CommandKeeps
<1> USE DEF WholeInv
<1>1. UNCHANGED <<scheduleQ, numberOfSchedules, alarmOn, al, clock, running, overrun, panel, buzzer,
                  cmd, arg, before, slot, hole, count, port>>
    BY WholeSame DEF CloseLoad
<1>2. /\ pc = "close" /\ pc' = "closeStore" /\ cmd = "delete" /\ FoundIt /\ AlarmAsBefore
      /\ count = Was /\ hole \in slot .. Size - 1 /\ (hole > slot => hole < Was)
      /\ scheduleQ = MovedDown /\ numberOfSchedules = Was
      /\ hole < Was - 1 /\ reg' = scheduleQ[hole + 1] /\ Was \in Int /\ Was <= Size
    BY DEF CloseLoad, Goto, Count, Steps, AddSteps, DeleteSteps, Deleting, ToArm, Between, WholeTyped
<1>3. slot \in 0 .. Size - 1 /\ hole + 1 \in Slot /\ ~(hole + 1 < hole)
    BY <1>2, ClockAssumption DEF FoundIt, NotBelow, Slot
<1>4. reg' = before.q[hole + 1]
    BY <1>2, <1>3 DEF MovedDown
<1>5. FoundIt' /\ scheduleQ' = MovedDown'
    BY <1>1, <1>2 DEF FoundIt, NotBelow, MovedDown
<1>6. Deleting'
    BY <1>1, <1>2, <1>4, <1>5 DEF Deleting, Was
<1>7. WholeTyped' /\ Steps' /\ Adding' /\ ToArm' /\ Done'
    BY <1>1, <1>2 DEF WholeTyped, Steps, Adding, ToArm, Done, AlarmAsBefore, AddSteps, DeleteSteps, Between, Was
<1> QED
    BY <1>1, <1>6, <1>7 DEF CommandKeeps

LEMMA WholeCloseStore ==
    ASSUME WholeInv, CloseStore
    PROVE  WholeInv' /\ CommandKeeps
<1> USE DEF WholeInv
<1>1. UNCHANGED <<numberOfSchedules, alarmOn, al, clock, running, overrun, panel, buzzer,
                  cmd, arg, before, slot, count, reg, port>>
    BY WholeOnlyQueue DEF CloseStore
<1>2. /\ pc = "closeStore" /\ pc' = "close" /\ cmd = "delete" /\ FoundIt /\ AlarmAsBefore
      /\ count = Was /\ hole \in slot .. Size - 1
      /\ scheduleQ = MovedDown /\ numberOfSchedules = Was
      /\ hole < Was - 1 /\ reg = before.q[hole + 1] /\ Was \in Int /\ Was <= Size
      /\ scheduleQ' = [scheduleQ EXCEPT ![hole] = reg] /\ hole' = hole + 1
      /\ before.q \in [Slot -> Schedule \cup {None}]
    BY DEF CloseStore, Goto, Steps, AddSteps, DeleteSteps, Deleting, ToArm, Between, WholeTyped
<1>3. slot \in Slot /\ slot \in Nat /\ hole \in Slot /\ hole \in Nat /\ hole + 1 \in Slot /\ hole >= slot
    BY <1>2, ClockAssumption DEF FoundIt, NotBelow, Slot
<1>4. FoundIt'
    BY <1>1, <1>2 DEF FoundIt, NotBelow
<1>5. scheduleQ' = MovedDown'
    <2>1. MovedDown' = [j \in Slot |-> IF j >= slot /\ j < hole + 1 THEN before.q[j + 1] ELSE before.q[j]]
        BY <1>1, <1>2 DEF MovedDown
    <2>2. scheduleQ' = [j \in Slot |-> IF j = hole THEN reg ELSE MovedDown[j]]
        BY <1>2, <1>3 DEF MovedDown
    <2>3. ASSUME NEW j \in Slot
          PROVE  (IF j = hole THEN reg ELSE MovedDown[j])
                    = IF j >= slot /\ j < hole + 1 THEN before.q[j + 1] ELSE before.q[j]
        BY <1>2, <1>3, ClockAssumption DEF MovedDown, Slot
    <2> QED
        BY <2>1, <2>2, <2>3, Zenon
<1>6. Deleting'
    <2>1. hole' \in slot' .. Size - 1 /\ hole' < Was'
        BY <1>1, <1>2, <1>3 DEF Was, Slot
    <2> QED
        BY <1>1, <1>2, <1>4, <1>5, <2>1 DEF Deleting, Was
<1>7. scheduleQ' \in [Slot -> Schedule \cup {None}]
    BY <1>2, <1>3 DEF WholeTyped
<1>8. WholeTyped' /\ Steps' /\ Adding' /\ ToArm' /\ Done'
    BY <1>1, <1>2, <1>7
       DEF WholeTyped, Steps, Adding, ToArm, Done, AlarmAsBefore, AddSteps, DeleteSteps, Between, Was
<1> QED
    BY <1>1, <1>6, <1>8 DEF CommandKeeps

LEMMA WholeCountDownLoad ==
    ASSUME WholeInv, CountDownLoad
    PROVE  WholeInv' /\ CommandKeeps
<1> USE DEF WholeInv
<1>1. UNCHANGED <<scheduleQ, numberOfSchedules, alarmOn, al, clock, running, overrun, panel, buzzer,
                  cmd, arg, before, slot, hole, reg, port>>
    BY WholeSame DEF CountDownLoad
<1>2. /\ pc = "close" /\ pc' = "countDownStore" /\ cmd = "delete" /\ FoundIt /\ AlarmAsBefore
      /\ count' = Was /\ hole \in slot .. Size - 1 /\ (hole > slot => hole < Was)
      /\ scheduleQ = MovedDown /\ numberOfSchedules = Was
      /\ hole >= Was - 1 /\ Was \in Int /\ Was <= Size
    BY DEF CountDownLoad, Goto, Count, Steps, AddSteps, DeleteSteps, Deleting, ToArm, Between, WholeTyped
<1>3. slot \in 0 .. Size - 1 /\ Size \in Nat
    BY <1>2, ClockAssumption DEF FoundIt, NotBelow, Slot
<1>4. FoundIt'
    BY <1>1, <1>2 DEF FoundIt, NotBelow
<1>5. scheduleQ' = WithoutIt'
    <2>1. WithoutIt' = WithoutIt
        BY <1>1 DEF WithoutIt, Was
    <2>2. \A j \in Slot : (j >= slot /\ j < hole) <=> (j >= slot /\ j < Was - 1)
        BY <1>2, <1>3 DEF Slot
    <2>3. MovedDown = WithoutIt
        BY <2>2, Zenon DEF MovedDown, WithoutIt
    <2> QED
        BY <1>1, <1>2, <2>1, <2>3
<1>6. Deleting'
    BY <1>1, <1>2, <1>4, <1>5 DEF Deleting, Was
<1>7. WholeTyped' /\ Steps' /\ Adding' /\ ToArm' /\ Done'
    BY <1>1, <1>2 DEF WholeTyped, Steps, Adding, ToArm, Done, AlarmAsBefore, AddSteps, DeleteSteps, Between, Was
<1> QED
    BY <1>1, <1>6, <1>7 DEF CommandKeeps

LEMMA WholeCountDownStore ==
    ASSUME WholeInv, CountDownStore
    PROVE  WholeInv' /\ CommandKeeps
<1> USE DEF WholeInv
<1>1. UNCHANGED <<scheduleQ, alarmOn, al, clock, running, overrun, panel, buzzer,
                  cmd, arg, before, slot, hole, count, reg, port>>
    BY WholeOnlyQueue DEF CountDownStore, locals
<1>2. /\ pc = "countDownStore" /\ pc' = (IF slot = 0 THEN "rearm" ELSE "done") /\ cmd = "delete"
      /\ FoundIt /\ AlarmAsBefore /\ scheduleQ = WithoutIt
      /\ numberOfSchedules' = Was - 1 /\ Was \in Int /\ Was <= Size
    BY DEF CountDownStore, Goto, Steps, AddSteps, DeleteSteps, Deleting, ToArm, Between, WholeTyped
<1>3. Deleted'
    BY <1>1, <1>2 DEF Deleted, FoundIt, NotBelow, WithoutIt, Was
<1>4. WholeTyped'
    BY <1>1, <1>2, ClockAssumption DEF WholeTyped, Between, Was
<1>5. Steps' /\ Adding' /\ Deleting' /\ ToArm' /\ Done'
    BY <1>1, <1>2, <1>3
       DEF Steps, Adding, Deleting, ToArm, Done, DeleteDone, AlarmAsBefore, AddSteps, DeleteSteps, Between
<1> QED
    BY <1>1, <1>4, <1>5 DEF CommandKeeps

\* The steps at the alarm registers leave what the searches found.
LEMMA FoundSame ==
    ASSUME UNCHANGED <<scheduleQ, numberOfSchedules, arg, slot, before>>
    PROVE  Added' = Added /\ Deleted' = Deleted
<1>1. Added' = Added
    BY DEF Added, AllBelow, GoesThere, WithIt, QueueAsBefore, Was
<1>2. Deleted' = Deleted
    BY DEF Deleted, FoundIt, NotBelow, WithoutIt, QueueAsBefore, Was
<1> QED
    BY <1>1, <1>2

LEMMA WholeArm ==
    ASSUME WholeInv, Arm
    PROVE  WholeInv' /\ CommandKeeps
<1> USE DEF WholeInv
<1>1. UNCHANGED <<scheduleQ, numberOfSchedules, clock, running, overrun, panel, buzzer,
                  cmd, arg, before, slot, hole, count, port>>
    BY WholeSame DEF Arm, Rearm, AlarmOff, AlarmOn, AlarmTime, OnlyAlarm, queue, panel, locals
<1>2. Added' = Added /\ Deleted' = Deleted
    BY <1>1, FoundSame
<1>3. CASE Rearm
    <2>1. UNCHANGED <<alarmOn, al>>
        BY <1>3, WholeSame DEF Rearm
    <2>2. /\ pc = "rearm" /\ pc' = (IF numberOfSchedules # 0 THEN "alarmOn" ELSE "alarmOff")
          /\ reg' = scheduleQ[0] /\ cmd = "delete" /\ Deleted /\ slot = 0 /\ AlarmAsBefore
        BY <1>3 DEF Rearm, Goto, ToArm, Steps, DeleteSteps, AddSteps, Between
    <2>3. WholeTyped' /\ Steps' /\ Adding' /\ Deleting' /\ ToArm' /\ Done'
        BY <1>1, <1>2, <2>1, <2>2
           DEF WholeTyped, Steps, Adding, Deleting, ToArm, Done, AlarmAsBefore, Was, AddSteps, DeleteSteps, Between
    <2> QED
        BY <1>1, <2>3 DEF CommandKeeps
<1>4. CASE AlarmOff
    <2>1. /\ pc = "alarmOff" /\ pc' = "done" /\ alarmOn' = FALSE /\ al' = al /\ reg' = reg
          /\ cmd = "delete" /\ Deleted /\ slot = 0 /\ numberOfSchedules = 0 /\ AlarmAsBefore
        BY <1>4 DEF AlarmOff, RTC_DISABLE_ALARM, Goto, ToArm, Steps, DeleteSteps, AddSteps, Between, locals
    <2>2. WholeTyped' /\ Steps' /\ Adding' /\ Deleting' /\ ToArm'
        BY <1>1, <1>2, <2>1
           DEF WholeTyped, Steps, Adding, Deleting, ToArm, Was, AddSteps, DeleteSteps, Between
    <2>3. Done'
        BY <1>1, <1>2, <2>1 DEF Done, DeleteDone, AlarmAsBefore
    <2> QED
        BY <1>1, <2>2, <2>3 DEF CommandKeeps
<1>5. CASE AlarmOn
    <2>1. /\ pc = "alarmOn" /\ pc' = "alarmTime" /\ alarmOn' = TRUE /\ al' = al /\ reg' = reg
          /\ AlarmAsBefore
        BY <1>5 DEF AlarmOn, Goto, ToArm, Steps, DeleteSteps, AddSteps, Between, locals
    <2>2. WholeTyped' /\ Steps' /\ Adding' /\ Deleting' /\ Done'
        BY <1>1, <1>2, <2>1
           DEF WholeTyped, Steps, Adding, Deleting, Done, Was, AddSteps, DeleteSteps, Between
    <2>3. ToArm'
        BY <1>1, <1>2, <2>1 DEF ToArm, AlarmAsBefore, Between
    <2> QED
        BY <1>1, <2>2, <2>3 DEF CommandKeeps
<1>6. CASE AlarmTime
    <2>1. /\ pc = "alarmTime" /\ pc' = "done" /\ alarmOn' = alarmOn /\ al' = reg /\ reg' = reg
          /\ alarmOn = TRUE /\ slot = 0
        BY <1>6 DEF AlarmTime, Goto, ToArm, locals
    <2>2. WholeTyped' /\ Steps' /\ Adding' /\ Deleting' /\ ToArm'
        BY <1>1, <1>2, <2>1
           DEF WholeTyped, Steps, Adding, Deleting, ToArm, Was, AddSteps, DeleteSteps, Between
    <2>3. Done'
        BY <1>1, <1>2, <2>1 DEF Done, AddDone, DeleteDone, AlarmSet, ToArm, WholeTyped, Between
    <2> QED
        BY <1>1, <2>2, <2>3 DEF CommandKeeps
<1> QED
    BY <1>3, <1>4, <1>5, <1>6 DEF Arm

\* A command that adds to a negative count ends in the overrun.
LEMMA WholeOverrun ==
    ASSUME WholeInv, AddOverrun
    PROVE  WholeInv'
<1> USE DEF WholeInv
<1>1. UNCHANGED <<scheduleQ, numberOfSchedules, alarmOn, al, buzzer, cmd, arg, before, slot, hole,
                  count, reg, port>>
    BY DEF AddOverrun, queue, alarm, panel, locals
<1>2. pc = "addCheck" /\ pc' = "done" /\ overrun' = TRUE
    BY DEF AddOverrun, Goto
<1>3. WholeTyped' /\ Steps' /\ Adding' /\ Deleting' /\ ToArm' /\ Done'
    BY <1>1, <1>2
       DEF WholeTyped, Steps, Adding, Deleting, ToArm, Done, Was, AddSteps, DeleteSteps, Between
<1> QED
    BY <1>3

\* Outside the commands the invariant says no more than this.
LEMMA WholeBetween ==
    ASSUME Between, cmd = "none", slot = 0,
           pc = "portWrite" => port = buzzer,
           scheduleQ \in [Slot -> Schedule \cup {None}],
           numberOfSchedules \in Int, numberOfSchedules <= Size
    PROVE  WholeInv
BY DEF WholeInv, WholeTyped, Steps, Adding, Deleting, ToArm, Done, AddSteps, DeleteSteps, Between

LEMMA WholeBetweenNext ==
    ASSUME Between', cmd' = "none", slot' = 0,
           pc' = "portWrite" => port' = buzzer',
           scheduleQ' \in [Slot -> Schedule \cup {None}],
           numberOfSchedules' \in Int, numberOfSchedules' <= Size
    PROVE  WholeInv'
BY DEF WholeInv, WholeTyped, Steps, Adding, Deleting, ToArm, Done, AddSteps, DeleteSteps, Between

LEMMA WholeBegin ==
    ASSUME WholeInv, NEW s \in Schedule, NEW c \in {"add", "delete"}, Begin(c, s),
           pc' = IF c = "add" THEN "addCheck" ELSE "find",
           c = "delete" => numberOfSchedules > -Underflow
    PROVE  WholeInv'
<1> USE DEF WholeInv
<1>1. UNCHANGED <<scheduleQ, numberOfSchedules, alarmOn, al, overrun, buzzer, slot, hole, count, reg, port>>
    BY DEF Begin, vars, queue, alarm, panel
<1>2. /\ pc = "idle" /\ cmd' = c /\ arg' = s /\ slot = 0
      /\ before'.q = scheduleQ /\ before'.n = numberOfSchedules
      /\ before'.on = alarmOn /\ before'.al = al
    BY DEF Begin, WholeTyped, Between
<1>3. WholeTyped'
    BY <1>1, <1>2 DEF WholeTyped, Between, Was
<1>4. QueueAsBefore' /\ AlarmAsBefore'
    BY <1>1, <1>2 DEF QueueAsBefore, AlarmAsBefore, Was
<1>5. NotBelow'
    BY <1>1, <1>2, ClockAssumption DEF NotBelow, Slot
<1>6. Steps' /\ Adding' /\ Deleting' /\ ToArm' /\ Done'
    BY <1>1, <1>2, <1>4, <1>5 DEF Steps, Adding, Deleting, ToArm, Done, AddSteps, DeleteSteps, Between
<1> QED
    BY <1>3, <1>6

\* The interrupts of a whole behaviour come between the commands; the ring takes slot 0.
LEMMA WholeRing ==
    ASSUME WholeInv, pc = "idle", UNCHANGED <<pc, cmd, slot>>,
           \/ UNCHANGED queue
           \/ DeleteSlot(0)
    PROVE  WholeInv'
<1>1. cmd = "none" /\ slot = 0 /\ numberOfSchedules \in Int /\ numberOfSchedules <= Size
      /\ scheduleQ \in [Slot -> Schedule \cup {None}]
    BY DEF WholeInv, WholeTyped, Between
<1>2. /\ scheduleQ' \in [Slot -> Schedule \cup {None}]
      /\ numberOfSchedules' \in Int /\ numberOfSchedules' <= Size
    <2>1. CASE UNCHANGED queue
        BY <1>1, <2>1 DEF queue
    <2>2. CASE DeleteSlot(0)
        <3>1. Removed(0) \in [Slot -> Schedule \cup {None}]
            <4>1. ASSUME NEW j \in Slot
                  PROVE  (IF j >= 0 /\ j < numberOfSchedules - 1 THEN scheduleQ[j + 1] ELSE scheduleQ[j])
                            \in Schedule \cup {None}
                BY <1>1, ClockAssumption DEF Slot
            <4> QED
                BY <4>1 DEF Removed
        <3> QED
            BY <1>1, <2>2, <3>1, ClockAssumption DEF DeleteSlot
    <2> QED
        BY <2>1, <2>2
<1> QED
    BY <1>1, <1>2, WholeBetweenNext DEF Between

LEMMA WholePort ==
    ASSUME WholeInv, PortRead \/ PortWrite
    PROVE  WholeInv' /\ UNCHANGED <<vars, cmd, arg, before>>
<1>1. /\ UNCHANGED <<scheduleQ, numberOfSchedules, alarmOn, al, clock, running, buzzer_counter,
                     display_counter, isShow, screen, overrun, cmd, arg, slot, before>>
      /\ Between /\ Between'
    BY DEF PortRead, PortWrite, Goto, vars, queue, alarm, panel, locals, Between
<1>2. buzzer' = buzzer /\ (pc' = "portWrite" => port' = buzzer')
    BY DEF PortRead, PortWrite, Goto, vars, panel, WholeInv, WholeTyped
<1>3. WholeInv'
    BY <1>1, <1>2, WholeBetweenNext DEF WholeInv, WholeTyped
<1> QED
    BY <1>1, <1>2, <1>3 DEF vars, queue, alarm, panel

LEMMA WholeReturn ==
    ASSUME WholeInv, Return
    PROVE  /\ WholeInv' /\ UNCHANGED vars /\ cmd # "none" /\ cmd' = "none"
           /\ ~overrun => IF cmd = "add" THEN AddDone ELSE cmd = "delete" /\ DeleteDone
<1>1. UNCHANGED vars /\ cmd' = "none" /\ slot' = 0 /\ pc = "done" /\ pc' = "idle"
    BY DEF Return, Goto
<1>2. UNCHANGED <<scheduleQ, numberOfSchedules>>
    BY <1>1 DEF vars, queue
<1>3. cmd \in {"add", "delete"}
    BY <1>1 DEF WholeInv, WholeTyped, Between
<1>4. ~overrun => IF cmd = "add" THEN AddDone ELSE cmd = "delete" /\ DeleteDone
    BY <1>1, <1>3 DEF WholeInv, Done
<1>5. WholeInv'
    BY <1>1, <1>2, WholeBetweenNext DEF WholeInv, WholeTyped, Between
<1> QED
    BY <1>1, <1>3, <1>4, <1>5

LEMMA WholeSetClock ==
    ASSUME WholeInv, NEW t, pc = "idle", SetClock(t), UNCHANGED <<overrun, pc, locals, port>>
    PROVE  WholeInv'
<1>1. UNCHANGED <<scheduleQ, numberOfSchedules, pc, cmd, slot, port, buzzer>>
    BY DEF SetClock, locals, queue, panel
<1> QED
    BY <1>1, WholeBetweenNext DEF WholeInv, WholeTyped, Between

LEMMA WholeStutter ==
    ASSUME WholeInv, UNCHANGED pvars
    PROVE  WholeInv'
BY DEF pvars, vars, queue, alarm, panel, locals, WholeInv, WholeTyped, Between, Steps, AddSteps, DeleteSteps,
       Adding, Deleting, ToArm, Done, Was, QueueAsBefore, AlarmAsBefore, MovedUp, MovedDown, WithIt, WithoutIt,
       AllBelow, GoesThere, NotBelow, FoundIt, Added, Deleted, AlarmSet, AddDone, DeleteDone

LEMMA WholeInit ==
    ASSUME PInit
    PROVE  WholeInv
<1>1. scheduleQ \in [Slot -> Schedule \cup {None}] /\ numberOfSchedules = 0 /\ 0 <= Size
    BY ClockAssumption DEF PInit, Init
<1> QED
    BY <1>1, WholeBetween DEF PInit, Between

\* Every step inside a command.
LEMMA WholeCommand ==
    ASSUME WholeInv, Add \/ Delete \/ Arm
    PROVE  WholeInv' /\ (CommandKeeps \/ AddOverrun)
<1>1. CASE Add
    BY <1>1, WholeAddCheck, WholeOverrun, WholeSearch, WholeShiftLoad, WholeShiftStore, WholePut,
       WholeCountUpLoad, WholeCountUpStore DEF Add
<1>2. CASE Delete
    BY <1>2, WholeFind, WholeFound, WholeCloseLoad, WholeCloseStore, WholeCountDownLoad,
       WholeCountDownStore DEF Delete
<1>3. CASE Arm
    BY <1>3, WholeArm
<1> QED
    BY <1>1, <1>2, <1>3
-----------------------------------------------------------------------------
(* What AlarmClock sees of a step.  Whole!Atomic is Atomic with the constants of *)
(* the whole behaviours: each lemma speaks of both. *)

\* Of a step inside a command, nothing.
LEMMA UnseenInside ==
    ASSUME cmd # "none", cmd' # "none", UNCHANGED <<before, clock, running, overrun, panel>>
    PROVE  UNCHANGED Atomic!vars /\ UNCHANGED Whole!Atomic!vars
BY DEF Atomic!vars, Atomic!queue, Atomic!alarm, Atomic!panel, Busy, panel,
       Whole!Atomic!vars, Whole!Atomic!queue, Whole!Atomic!alarm, Whole!Atomic!panel, Whole!Busy

\* Of the first step of a command, nothing yet.
LEMMA UnseenFirst ==
    ASSUME NEW c \in {"add", "delete"}, NEW s, cmd = "none", Begin(c, s)
    PROVE  UNCHANGED Atomic!vars /\ UNCHANGED Whole!Atomic!vars
<1>1. /\ UNCHANGED <<scheduleQ, numberOfSchedules, alarmOn, al, clock, running, buzzer, buzzer_counter,
                     display_counter, isShow, screen, overrun>>
      /\ cmd' # "none" /\ before'.q = scheduleQ /\ before'.n = numberOfSchedules
      /\ before'.on = alarmOn /\ before'.al = al
    BY DEF Begin, vars, queue, alarm, panel
<1> QED
    BY <1>1 DEF Atomic!vars, Atomic!queue, Atomic!alarm, Atomic!panel, Busy,
       Whole!Atomic!vars, Whole!Atomic!queue, Whole!Atomic!alarm, Whole!Atomic!panel, Whole!Busy

\* Of a step between commands that leaves the memory alone, nothing.
LEMMA UnseenBetween ==
    ASSUME UNCHANGED <<vars, cmd, before>>
    PROVE  UNCHANGED Atomic!vars /\ UNCHANGED Whole!Atomic!vars
BY DEF vars, queue, alarm, panel, Atomic!vars, Atomic!queue, Atomic!alarm, Atomic!panel, Busy,
       Whole!Atomic!vars, Whole!Atomic!queue, Whole!Atomic!alarm, Whole!Atomic!panel, Whole!Busy

\* Of the last step of a command that stores a meeting, its call of AddSchedule and
\* what follows from the result.
LEMMA SeenAddSchedule ==
    ASSUME cmd = "add", cmd' = "none", arg \in Schedule, AddDone, UNCHANGED vars,
           before.q \in [Slot -> Schedule \cup {None}]
    PROVE  /\ slot \in Slot \cup {Full}
           /\ Atomic!AddSchedule(arg, slot)
           /\ IF slot = 0 THEN Atomic!RTC_SET_ALARM(arg) ELSE UNCHANGED Atomic!alarm
<1>1. UNCHANGED <<scheduleQ, numberOfSchedules, alarmOn, al, clock, running, panel, overrun>>
    BY DEF vars, queue, alarm
<1>2. slot \in Slot \cup {Full} /\ (slot = Full => slot # 0)
    BY ClockAssumption DEF AddDone, Added, AllBelow, GoesThere, Slot, Full
<1>3. Atomic!AddSchedule(arg, slot)
    <2>1. CASE Was = Size /\ slot = Full /\ QueueAsBefore
        BY <1>1, <2>1 DEF Atomic!AddSchedule, Atomic!queue, Busy, Was, QueueAsBefore, Full, Atomic!Full
    <2>2. CASE Was \in Slot /\ AllBelow /\ slot < Was /\ before.q[slot] = arg /\ QueueAsBefore
        <3>1. Atomic!StopsAt(arg, slot)
            BY <2>2, ClockAssumption DEF Atomic!StopsAt, Busy, Was, AllBelow, Slot
        <3> QED
            BY <1>1, <2>2, <3>1
               DEF Atomic!AddSchedule, Atomic!queue, Busy, Was, QueueAsBefore, Slot, Atomic!Slot
    <2>3. CASE GoesThere /\ scheduleQ = WithIt /\ numberOfSchedules = Was + 1
        <3>1. Atomic!StopsAt(arg, slot) /\ ~(slot < Was /\ before.q[slot] = arg)
            <4>1. slot \in 0 .. Was /\ Was \in 0 .. Size - 1 /\ (slot < Was => slot \in Slot)
                BY <2>3, ClockAssumption DEF GoesThere, AllBelow, Slot
            <4>2. arg \in Nat /\ (slot < Was => before.q[slot] \in Nat)
                <5>1. Schedule \cup {None} \subseteq Nat
                    BY ClockAssumption DEF None
                <5>2. slot < Was => before.q[slot] \in Schedule \cup {None}
                    BY <4>1
                <5> QED
                    BY <5>1, <5>2
            <4> QED
                BY <2>3, <4>1, <4>2 DEF Atomic!StopsAt, Busy, Was, GoesThere, AllBelow
        <3>2. Atomic!Inserted(arg, slot) = WithIt
            BY DEF Atomic!Inserted, WithIt, Busy, Was, Slot, Atomic!Slot
        <3> QED
            BY <1>1, <2>3, <3>1, <3>2
               DEF Atomic!AddSchedule, Busy, Was, GoesThere, Slot, Atomic!Slot
    <2> QED
        BY <2>1, <2>2, <2>3 DEF AddDone, Added
<1>4. IF slot = 0 THEN Atomic!RTC_SET_ALARM(arg) ELSE UNCHANGED Atomic!alarm
    BY <1>1 DEF AddDone, AlarmSet, AlarmAsBefore, Atomic!RTC_SET_ALARM, Atomic!alarm, Busy
<1> QED
    BY <1>2, <1>3, <1>4

\* Of the last step of a command that stores a meeting, the whole command.
LEMMA SeenAdd ==
    ASSUME cmd = "add", cmd' = "none", arg \in Schedule, AddDone, UNCHANGED vars,
           before.q \in [Slot -> Schedule \cup {None}]
    PROVE  /\ MayStore(arg) => Atomic!SetMeeting(arg) /\ UNCHANGED overrun
           /\ Whole!Atomic!SetMeeting(arg) /\ UNCHANGED overrun
<1>1. UNCHANGED <<scheduleQ, numberOfSchedules, alarmOn, al, clock, running, panel, overrun>>
    BY DEF vars, queue, alarm
<1>2. slot \in Slot \cup {Full}
    BY SeenAddSchedule
<1>3. Atomic!AddSchedule(arg, slot)
    BY SeenAddSchedule
<1>4. IF slot = 0 THEN Atomic!RTC_SET_ALARM(arg) ELSE UNCHANGED Atomic!alarm
    BY SeenAddSchedule
<1>5. ASSUME MayStore(arg) PROVE Atomic!SetMeeting(arg)
    BY <1>1, <1>2, <1>3, <1>4, <1>5
       DEF Atomic!SetMeeting, MayStore, Atomic!MayStore, Atomic!Slot, Slot, Atomic!Full, Full,
           Atomic!panel, panel, Due, Atomic!Due
<1>6. Whole!Atomic!AddSchedule(arg, slot) <=> Atomic!AddSchedule(arg, slot)
    BY DEF Whole!Atomic!AddSchedule, Atomic!AddSchedule, Whole!Atomic!StopsAt, Atomic!StopsAt,
           Whole!Atomic!Inserted, Atomic!Inserted, Whole!Atomic!queue, Atomic!queue, Whole!Busy, Busy,
           Whole!Atomic!Slot, Atomic!Slot, Whole!Atomic!Full, Atomic!Full
<1>7. Whole!Atomic!SetMeeting(arg)
    BY <1>1, <1>2, <1>3, <1>4, <1>6
       DEF Whole!Atomic!SetMeeting, Whole!Atomic!MayStore, Whole!Atomic!Slot, Slot, Whole!Atomic!Full, Full,
           Whole!Atomic!panel, panel, Whole!Atomic!RTC_SET_ALARM, Atomic!RTC_SET_ALARM,
           Whole!Atomic!alarm, Atomic!alarm, Whole!Busy, Busy
<1> QED
    BY <1>1, <1>5, <1>7

\* Of the last step of a command that deletes one, its call of DeleteSchedule and what
\* follows from the result.
LEMMA SeenDeleteSchedule ==
    ASSUME cmd = "delete", cmd' = "none", DeleteDone, UNCHANGED vars
    PROVE  \/ slot = Full /\ ~Atomic!Stored(arg) /\ UNCHANGED <<Atomic!queue, Atomic!alarm>>
           \/ /\ slot \in Slot
              /\ Atomic!FindSchedule(arg, slot)
              /\ Atomic!DeleteSlot(slot)
              /\ IF slot = 0 THEN Atomic!ArmAfterDelete ELSE UNCHANGED Atomic!alarm
<1>1. UNCHANGED <<scheduleQ, numberOfSchedules, alarmOn, al, clock, running, panel, overrun>>
    BY DEF vars, queue, alarm
<1>2. 0 \in Slot /\ Full # 0
    BY ClockAssumption DEF Slot, Full
<1>3. CASE slot = Full /\ (\A j \in Slot : before.q[j] # arg) /\ QueueAsBefore
    BY <1>1, <1>2, <1>3
       DEF DeleteDone, Atomic!Stored, Atomic!queue, Atomic!alarm, Busy, QueueAsBefore, AlarmAsBefore,
           Was, Slot, Atomic!Slot
<1>4. CASE FoundIt /\ scheduleQ = WithoutIt /\ numberOfSchedules = Was - 1
    <2>1. slot \in Slot /\ Atomic!FindSchedule(arg, slot)
        BY <1>4 DEF FoundIt, NotBelow, Atomic!FindSchedule, Busy, Slot, Atomic!Slot
    <2>2. Atomic!DeleteSlot(slot)
        BY <1>1, <1>4 DEF Atomic!DeleteSlot, Atomic!Removed, WithoutIt, Busy, Was, Slot, Atomic!Slot
    <2>3. IF slot = 0 THEN Atomic!ArmAfterDelete ELSE UNCHANGED Atomic!alarm
        BY <1>1 DEF DeleteDone, AlarmSet, AlarmAsBefore, Atomic!ArmAfterDelete, Atomic!RTC_SET_ALARM,
                    Atomic!RTC_DISABLE_ALARM, Atomic!alarm, Busy
    <2> QED
        BY <2>1, <2>2, <2>3
<1> QED
    BY <1>3, <1>4 DEF DeleteDone, Deleted

\* Of the last step of a command that deletes one, the whole command.
LEMMA SeenDelete ==
    ASSUME cmd = "delete", cmd' = "none", arg \in Schedule, Was > -Underflow, DeleteDone, UNCHANGED vars
    PROVE  /\ Atomic!MayDelete(arg) => Atomic!DeleteMeeting(arg) /\ UNCHANGED overrun
           /\ Whole!Atomic!DeleteMeeting(arg) /\ UNCHANGED overrun
<1>1. UNCHANGED <<scheduleQ, numberOfSchedules, alarmOn, al, clock, running, panel, overrun>>
    BY DEF vars, queue, alarm
<1>3. \/ ~Atomic!Stored(arg) /\ UNCHANGED <<Atomic!queue, Atomic!alarm>>
      \/ \E i \in Slot :
            /\ Atomic!FindSchedule(arg, i)
            /\ Atomic!DeleteSlot(i)
            /\ IF i = 0 THEN Atomic!ArmAfterDelete ELSE UNCHANGED Atomic!alarm
    BY SeenDeleteSchedule
<1>4. ASSUME Atomic!MayDelete(arg) PROVE Atomic!DeleteMeeting(arg)
    BY <1>1, <1>3, <1>4 DEF Atomic!DeleteMeeting, Atomic!Slot, Slot, Atomic!panel, panel
<1>5. /\ Whole!Atomic!Stored(arg) <=> Atomic!Stored(arg)
      /\ UNCHANGED <<Atomic!queue, Atomic!alarm>> => UNCHANGED <<Whole!Atomic!queue, Whole!Atomic!alarm>>
      /\ UNCHANGED Atomic!alarm => UNCHANGED Whole!Atomic!alarm
      /\ Whole!Atomic!ArmAfterDelete <=> Atomic!ArmAfterDelete
    BY DEF Whole!Atomic!Stored, Atomic!Stored, Whole!Atomic!queue, Atomic!queue, Whole!Atomic!alarm,
           Atomic!alarm, Whole!Busy, Busy, Whole!Atomic!Slot, Atomic!Slot,
           Whole!Atomic!ArmAfterDelete, Atomic!ArmAfterDelete, Whole!Atomic!RTC_SET_ALARM,
           Atomic!RTC_SET_ALARM, Whole!Atomic!RTC_DISABLE_ALARM, Atomic!RTC_DISABLE_ALARM
<1>6. \A i \in Slot : /\ Whole!Atomic!FindSchedule(arg, i) <=> Atomic!FindSchedule(arg, i)
                      /\ Whole!Atomic!DeleteSlot(i) <=> Atomic!DeleteSlot(i)
    BY DEF Whole!Atomic!FindSchedule, Atomic!FindSchedule, Whole!Atomic!DeleteSlot, Atomic!DeleteSlot,
           Whole!Atomic!Removed, Atomic!Removed, Whole!Busy, Busy, Whole!Atomic!Slot, Atomic!Slot
<1>7. Whole!Atomic!MayDelete(arg)
    BY DEF Whole!Atomic!MayDelete, Whole!Busy, Was
<1>8. Whole!Atomic!DeleteMeeting(arg)
    BY <1>1, <1>3, <1>5, <1>6, <1>7
       DEF Whole!Atomic!DeleteMeeting, Whole!Atomic!Slot, Slot, Whole!Atomic!panel, panel
<1> QED
    BY <1>1, <1>4, <1>8

\* Of the overrun, the overrun.
LEMMA SeenOverrun ==
    ASSUME WholeInv, AddOverrun
    PROVE  /\ \E s \in Schedule : Atomic!SetMeetingOverrun(s)
           /\ \E s \in Schedule : Whole!Atomic!SetMeetingOverrun(s)
<1>1. /\ cmd # "none" /\ arg \in Schedule /\ before.n < 0
    BY DEF AddOverrun, WholeInv, WholeTyped, Steps, AddSteps, DeleteSteps, Adding, QueueAsBefore, Was, Between
<1>2. cmd' = cmd /\ before' = before /\ overrun' = TRUE /\ UNCHANGED <<clock, running, panel>>
    BY DEF AddOverrun, locals
<1> QED
    BY <1>1, <1>2
       DEF Atomic!SetMeetingOverrun, Atomic!queue, Atomic!alarm, Atomic!panel, panel, Busy,
           Whole!Atomic!SetMeetingOverrun, Whole!Atomic!queue, Whole!Atomic!alarm, Whole!Atomic!panel, Whole!Busy

\* Of the interrupts and of the clock between commands, themselves.
LEMMA SeenButton ==
    ASSUME cmd = "none", cmd' = "none", UNCHANGED overrun
    PROVE  /\ button_intterupt => Atomic!button_intterupt
           /\ Whole!button_intterupt => Whole!Atomic!button_intterupt
BY DEF Atomic!button_intterupt, button_intterupt, Busy, Atomic!queue, queue, Atomic!alarm, alarm,
       Whole!Atomic!button_intterupt, Whole!button_intterupt, Whole!Busy, Whole!Atomic!queue, Whole!queue,
       Whole!Atomic!alarm, Whole!alarm

LEMMA SeenSecond ==
    ASSUME cmd = "none", cmd' = "none", rtc_func
    PROVE  Atomic!rtc_func
BY DEF Atomic!rtc_func, rtc_func, Busy, Atomic!queue, queue, Atomic!alarm, alarm, Atomic!Rings, Rings,
       Atomic!Due, Due, Atomic!HandleAlarm, HandleAlarm, Atomic!DeleteSlot, DeleteSlot, Atomic!Removed, Removed,
       Atomic!Slot, Slot, Atomic!ArmAfterRing, ArmAfterRing, Atomic!RTC_SET_ALARM, RTC_SET_ALARM,
       Atomic!RTC_DISABLE_ALARM, RTC_DISABLE_ALARM, Atomic!Buzz, Buzz, Atomic!Display, Display,
       Atomic!NextAlarmPage, NextAlarmPage, Atomic!None, None

LEMMA SeenWholeSecond ==
    ASSUME cmd = "none", cmd' = "none", Whole!rtc_func
    PROVE  Whole!Atomic!rtc_func
BY DEF Whole!Atomic!rtc_func, Whole!rtc_func, Whole!Busy, Whole!Atomic!queue, Whole!queue, Whole!Atomic!alarm,
       Whole!alarm, Whole!Atomic!Rings, Whole!Rings, Whole!Atomic!Due, Whole!Due, Whole!Atomic!HandleAlarm,
       Whole!HandleAlarm, Whole!Atomic!DeleteSlot, Whole!DeleteSlot, Whole!Atomic!Removed, Whole!Removed,
       Whole!Atomic!Slot, Whole!Slot, Whole!Atomic!ArmAfterRing, Whole!ArmAfterRing, Whole!Atomic!RTC_SET_ALARM,
       Whole!RTC_SET_ALARM, Whole!Atomic!RTC_DISABLE_ALARM, Whole!RTC_DISABLE_ALARM, Whole!Atomic!Buzz,
       Whole!Buzz, Whole!Atomic!Display, Whole!Display, Whole!Atomic!NextAlarmPage, Whole!NextAlarmPage,
       Whole!Atomic!None, Whole!None

LEMMA SeenClock ==
    ASSUME cmd = "none", cmd' = "none", NEW t
    PROVE  /\ SetClock(t) => Atomic!SetClock(t)
           /\ Whole!SetClock(t) => Whole!Atomic!SetClock(t)
BY DEF Atomic!SetClock, SetClock, Atomic!MaySet, MaySet, Atomic!Pending, Pending, Atomic!Due, Due, Busy,
       Atomic!queue, queue, Atomic!alarm, alarm, Atomic!panel, panel,
       Whole!Atomic!SetClock, Whole!SetClock, Whole!Atomic!MaySet, Whole!Busy,
       Whole!Atomic!queue, Whole!queue, Whole!Atomic!alarm, Whole!alarm, Whole!Atomic!panel, Whole!panel

\* The command under way was allowed when it began, and nothing has happened since.
Allowed ==
    /\ cmd = "add" => MayStore(arg)
    /\ cmd = "delete" => Atomic!MayDelete(arg)

LEMMA AllowedSame ==
    ASSUME Allowed, UNCHANGED <<cmd, arg, before, clock, running>>
    PROVE  Allowed'
<1>1. CASE cmd = "add"
    BY <1>1 DEF Allowed, MayStore
<1>2. CASE cmd = "delete"
    BY <1>2 DEF Allowed, Atomic!MayDelete, Atomic!Pending, Busy
<1>3. CASE cmd \notin {"add", "delete"}
    BY <1>3 DEF Allowed
<1> QED
    BY <1>1, <1>2, <1>3

\* Every step of whole commands keeps the invariant, and is a step of AlarmClock or unseen.
LEMMA WholeStep ==
    ASSUME ~Preempt, WholeInv, Allowed, [PNext]_pvars
    PROVE  WholeInv' /\ Allowed' /\ [Atomic!Next]_(Atomic!vars)
<1>1. ASSUME NEW s \in Schedule, BeginAdd(s)
      PROVE  WholeInv' /\ Allowed' /\ UNCHANGED Atomic!vars
    <2>1. cmd = "none" /\ Begin("add", s) /\ pc' = "addCheck" /\ MayStore(s)
        BY <1>1 DEF BeginAdd, Begin, Goto, WholeInv, WholeTyped, Between
    <2>2. WholeInv'
        BY <2>1, WholeBegin
    <2>3. UNCHANGED Atomic!vars
        BY <2>1, UnseenFirst
    <2>4. cmd' = "add" /\ arg' = s /\ UNCHANGED <<clock, running>>
        BY <2>1 DEF Begin, vars
    <2>5. Allowed'
        BY <2>1, <2>4 DEF Allowed, MayStore
    <2> QED
        BY <2>2, <2>3, <2>5
<1>2. ASSUME NEW s \in Schedule, BeginDelete(s)
      PROVE  WholeInv' /\ Allowed' /\ UNCHANGED Atomic!vars
    <2>1. cmd = "none" /\ Begin("delete", s) /\ pc' = "find" /\ MayDelete(s)
        BY <1>2 DEF BeginDelete, Begin, Goto, WholeInv, WholeTyped, Between
    <2>2. WholeInv'
        BY <2>1, WholeBegin DEF MayDelete
    <2>3. UNCHANGED Atomic!vars
        BY <2>1, UnseenFirst
    <2>4. cmd' = "delete" /\ arg' = s /\ before'.q = scheduleQ /\ before'.n = numberOfSchedules
        BY <2>1 DEF Begin
    <2>5. Allowed'
        BY <2>1, <2>4 DEF Allowed, MayDelete, Pending, Atomic!MayDelete, Atomic!Pending, Busy
    <2> QED
        BY <2>2, <2>3, <2>5
<1>3. ASSUME ~overrun, NEW t \in SetTo, Clock(t)
      PROVE  WholeInv' /\ Allowed' /\ Atomic!Next
    <2>1. /\ pc = "idle" /\ SetClock(t) /\ UNCHANGED <<overrun, pc, locals, port>>
          /\ cmd = "none" /\ cmd' = "none"
        BY <1>3 DEF Clock, WholeInv, WholeTyped, Between, locals
    <2>2. WholeInv' /\ Atomic!SetClock(t)
        BY <2>1, WholeSetClock, SeenClock
    <2> QED
        BY <1>3, <2>1, <2>2 DEF Allowed, Atomic!Next, Atomic!Command
<1>4. ASSUME ~overrun, Add \/ Delete \/ Arm
      PROVE  WholeInv' /\ Allowed' /\ [Atomic!Next]_(Atomic!vars)
    <2>1. WholeInv' /\ (CommandKeeps \/ AddOverrun)
        BY <1>4, WholeCommand
    <2>2. cmd # "none" /\ UNCHANGED <<cmd, arg, before, clock, running>>
        <3>1. pc \notin {"idle", "portWrite"}
            BY <1>4 DEF Add, Delete, Arm, AddCheck, AddOverrun, Search, ShiftLoad, ShiftStore, Put, CountUpLoad,
               CountUpStore, Find, Found, CloseLoad, CloseStore, CountDownLoad, CountDownStore, Rearm, AlarmOff,
               AlarmOn, AlarmTime
        <3> QED
            BY <2>1, <3>1 DEF WholeInv, WholeTyped, Between, CommandKeeps, AddOverrun, locals
    <2>3. CASE CommandKeeps
        BY <2>1, <2>2, <2>3, AllowedSame, UnseenInside DEF CommandKeeps
    <2>4. CASE AddOverrun
        BY <1>4, <2>1, <2>2, <2>4, AllowedSame, SeenOverrun DEF Atomic!Next
    <2> QED
        BY <2>1, <2>3, <2>4
<1>5. ASSUME ~overrun, Return
      PROVE  WholeInv' /\ Allowed' /\ Atomic!Next
    <2>1. /\ WholeInv' /\ UNCHANGED vars /\ cmd \in {"add", "delete"} /\ cmd' = "none"
          /\ IF cmd = "add" THEN AddDone ELSE cmd = "delete" /\ DeleteDone
        BY <1>5, WholeReturn
    <2>2. arg \in Schedule /\ before.q \in [Slot -> Schedule \cup {None}] /\ (cmd = "delete" => Was > -Underflow)
        BY <1>5 DEF Return, WholeInv, WholeTyped, Between
    <2>3. Atomic!Command /\ UNCHANGED overrun
        BY <2>1, <2>2, SeenAdd, SeenDelete DEF Allowed, Atomic!Command
    <2> QED
        BY <1>5, <2>1, <2>3 DEF Allowed, Atomic!Next
<1>6. ASSUME PortRead \/ PortWrite
      PROVE  WholeInv' /\ Allowed' /\ UNCHANGED Atomic!vars
    <2>1. WholeInv' /\ UNCHANGED <<vars, cmd, arg, before>>
        BY <1>6, WholePort
    <2> QED
        BY <2>1, UnseenBetween, AllowedSame DEF vars
<1>7. ASSUME ~overrun, Second
      PROVE  WholeInv' /\ Allowed' /\ Atomic!Next
    <2>1. /\ pc = "idle" /\ rtc_func /\ UNCHANGED <<overrun, pc, cmd, slot>>
          /\ cmd = "none" /\ cmd' = "none"
        BY <1>7 DEF Second, WholeInv, WholeTyped, Between, locals
    <2>2. UNCHANGED queue \/ DeleteSlot(0)
        BY <2>1 DEF rtc_func, HandleAlarm
    <2>3. WholeInv' /\ Atomic!rtc_func
        BY <2>1, <2>2, WholeRing, SeenSecond
    <2> QED
        BY <1>7, <2>1, <2>3 DEF Allowed, Atomic!Next
<1>8. ASSUME ~overrun, Button
      PROVE  WholeInv' /\ Allowed' /\ Atomic!Next
    <2>1. /\ pc = "idle" /\ button_intterupt /\ UNCHANGED <<overrun, pc, cmd, slot>> /\ UNCHANGED queue
          /\ cmd = "none" /\ cmd' = "none"
        BY <1>8 DEF Button, button_intterupt, WholeInv, WholeTyped, Between, locals
    <2>2. WholeInv' /\ Atomic!button_intterupt
        BY <2>1, WholeRing, SeenButton
    <2> QED
        BY <1>8, <2>1, <2>2 DEF Allowed, Atomic!Next
<1>9. ASSUME UNCHANGED pvars
      PROVE  WholeInv' /\ Allowed' /\ UNCHANGED Atomic!vars
    <2>1. UNCHANGED <<vars, cmd, arg, before>>
        BY <1>9 DEF pvars, locals
    <2> QED
        BY <1>9, <2>1, WholeStutter, UnseenBetween, AllowedSame DEF vars
<1> QED
    BY <1>1, <1>2, <1>3, <1>4, <1>5, <1>6, <1>7, <1>8, <1>9 DEF PNext

\* Most steps are the same in both modes; those of the environment and the interrupts differ
\* in the constants only.
LEMMA WholeActions ==
    /\ \A s \in Schedule : Whole!BeginAdd(s) => Begin("add", s) /\ pc' = "addCheck"
    /\ \A s \in Schedule : Whole!BeginDelete(s) =>
           Begin("delete", s) /\ pc' = "find" /\ numberOfSchedules > -Underflow
    /\ Whole!Add => Add
    /\ Whole!Delete => Delete
    /\ Whole!Arm => Arm
    /\ Whole!Return => Return
    /\ Whole!PortRead \/ Whole!PortWrite => PortRead \/ PortWrite
<1> USE DEF Whole!Goto, Goto, Whole!MemoryUnchanged, MemoryUnchanged, Whole!OnlyQueue, OnlyQueue,
            Whole!OnlyAlarm, OnlyAlarm, Whole!vars, vars, Whole!queue, queue, Whole!alarm, alarm,
            Whole!panel, panel, Whole!locals, locals, Whole!Count, Count
<1>1. \A s \in Schedule : Whole!BeginAdd(s) => Begin("add", s) /\ pc' = "addCheck"
    BY DEF Whole!BeginAdd, Whole!Begin, Begin
<1>2. \A s \in Schedule : Whole!BeginDelete(s) =>
          Begin("delete", s) /\ pc' = "find" /\ numberOfSchedules > -Underflow
    BY DEF Whole!BeginDelete, Whole!Begin, Begin, Whole!MayDelete
<1>3. Whole!Add => Add
    <2>1. /\ Whole!AddCheck => AddCheck
          /\ Whole!AddOverrun => AddOverrun
        BY DEF Whole!AddCheck, AddCheck, Whole!AddOverrun, AddOverrun, Whole!Full, Full
    <2>2. Whole!Search => Search
        BY DEF Whole!Search, Search
    <2>3. /\ Whole!ShiftLoad => ShiftLoad
          /\ Whole!ShiftStore => ShiftStore
          /\ Whole!Put => Put
        BY DEF Whole!ShiftLoad, ShiftLoad, Whole!ShiftStore, ShiftStore, Whole!Put, Put
    <2>4. /\ Whole!CountUpLoad => CountUpLoad
          /\ Whole!CountUpStore => CountUpStore
        BY DEF Whole!CountUpLoad, CountUpLoad, Whole!CountUpStore, CountUpStore
    <2> QED
        BY <2>1, <2>2, <2>3, <2>4 DEF Whole!Add, Add
<1>4. Whole!Delete => Delete
    <2>1. /\ Whole!Find => Find
          /\ Whole!Found => Found
        BY DEF Whole!Find, Find, Whole!Found, Found, Whole!Full, Full
    <2>2. /\ Whole!CloseLoad => CloseLoad
          /\ Whole!CloseStore => CloseStore
        BY DEF Whole!CloseLoad, CloseLoad, Whole!CloseStore, CloseStore
    <2>3. /\ Whole!CountDownLoad => CountDownLoad
          /\ Whole!CountDownStore => CountDownStore
        BY DEF Whole!CountDownLoad, CountDownLoad, Whole!CountDownStore, CountDownStore
    <2> QED
        BY <2>1, <2>2, <2>3 DEF Whole!Delete, Delete
<1>5. Whole!Arm => Arm
    BY DEF Whole!Arm, Arm, Whole!Rearm, Rearm, Whole!AlarmOff, AlarmOff, Whole!AlarmOn, AlarmOn,
           Whole!AlarmTime, AlarmTime, Whole!RTC_DISABLE_ALARM, RTC_DISABLE_ALARM
<1>6. Whole!Return => Return
    BY DEF Whole!Return, Return, Whole!None, None, Whole!NoCommand, NoCommand, Whole!Slot, Slot
<1>7. Whole!PortRead \/ Whole!PortWrite => PortRead \/ PortWrite
    BY DEF Whole!PortRead, PortRead, Whole!PortWrite, PortWrite
<1> QED
    BY <1>1, <1>2, <1>3, <1>4, <1>5, <1>6, <1>7

\* What happens between commands happens in AlarmClock too.
LEMMA WholeSeen ==
    ASSUME WholeInv, ~overrun
    PROVE  /\ \A t \in SetTo : Whole!Clock(t) => WholeInv' /\ Whole!Atomic!Next
           /\ Whole!Second => WholeInv' /\ Whole!Atomic!Next
           /\ Whole!Button => WholeInv' /\ Whole!Atomic!Next
<1>1. ASSUME NEW t \in SetTo, Whole!Clock(t)
      PROVE  WholeInv' /\ Whole!Atomic!Next
    <2>1. /\ pc = "idle" /\ Whole!SetClock(t) /\ UNCHANGED <<overrun, pc, cmd, slot, queue, port, buzzer>>
          /\ cmd = "none" /\ cmd' = "none"
        BY <1>1 DEF Whole!Clock, Whole!SetClock, WholeInv, WholeTyped, Between, Whole!locals,
                    Whole!queue, queue, Whole!panel
    <2>2. WholeInv' /\ Whole!Atomic!SetClock(t)
        BY <2>1, WholeRing, SeenClock
    <2> QED
        BY <2>1, <2>2 DEF Whole!Atomic!Next, Whole!Atomic!Command
<1>2. ASSUME Whole!Second
      PROVE  WholeInv' /\ Whole!Atomic!Next
    <2>1. /\ pc = "idle" /\ Whole!rtc_func /\ UNCHANGED <<overrun, pc, cmd, slot>>
          /\ cmd = "none" /\ cmd' = "none"
        BY <1>2 DEF Whole!Second, WholeInv, WholeTyped, Between, Whole!locals
    <2>2. UNCHANGED queue \/ DeleteSlot(0)
        BY <2>1 DEF Whole!rtc_func, Whole!HandleAlarm, Whole!DeleteSlot, DeleteSlot, Whole!Removed, Removed,
                    Whole!Slot, Slot, Whole!queue, queue
    <2>3. WholeInv' /\ Whole!Atomic!rtc_func
        BY <2>1, <2>2, WholeRing, SeenWholeSecond
    <2> QED
        BY <2>1, <2>3 DEF Whole!Atomic!Next
<1>3. ASSUME Whole!Button
      PROVE  WholeInv' /\ Whole!Atomic!Next
    <2>1. /\ pc = "idle" /\ Whole!button_intterupt /\ UNCHANGED <<overrun, pc, cmd, slot>> /\ UNCHANGED queue
          /\ cmd = "none" /\ cmd' = "none"
        BY <1>3 DEF Whole!Button, Whole!button_intterupt, WholeInv, WholeTyped, Between, Whole!locals,
                    Whole!queue, queue
    <2>2. WholeInv' /\ Whole!Atomic!button_intterupt
        BY <2>1, WholeRing, SeenButton
    <2> QED
        BY <2>1, <2>2 DEF Whole!Atomic!Next
<1> QED
    BY <1>1, <1>2, <1>3

LEMMA WholeModeStep ==
    ASSUME mode = "whole", WholeInv, [MCNext]_<<pvars, mode>>
    PROVE  WholeInv' /\ mode' = "whole" /\ [Whole!Atomic!Next]_(Whole!Atomic!vars)
<1>1. mode' = "whole"
    BY DEF MCNext
<1>2. CASE UNCHANGED <<pvars, mode>> \/ Overrun
    <2>1. UNCHANGED pvars /\ UNCHANGED <<vars, cmd, before>>
        BY <1>2 DEF Overrun, pvars, locals
    <2> QED
        BY <1>1, <2>1, WholeStutter, UnseenBetween
<1>3. CASE Whole!PNext
    <2>0. ~overrun
        BY <1>3 DEF Whole!PNext
    <2>1. ASSUME NEW s \in Schedule, Whole!BeginAdd(s) \/ Whole!BeginDelete(s)
          PROVE  WholeInv' /\ UNCHANGED Whole!Atomic!vars
        <3>1. cmd = "none"
            BY <2>1, WholeActions DEF Begin, WholeInv, WholeTyped, Between
        <3>2. CASE Begin("add", s) /\ pc' = "addCheck"
            BY <3>1, <3>2, WholeBegin, UnseenFirst
        <3>3. CASE Begin("delete", s) /\ pc' = "find" /\ numberOfSchedules > -Underflow
            BY <3>1, <3>3, WholeBegin, UnseenFirst
        <3> QED
            BY <2>1, <3>2, <3>3, WholeActions
    <2>2. ASSUME Add \/ Delete \/ Arm
          PROVE  WholeInv' /\ [Whole!Atomic!Next]_(Whole!Atomic!vars)
        <3>1. WholeInv' /\ (CommandKeeps \/ AddOverrun)
            BY <2>2, WholeCommand
        <3>2. CASE CommandKeeps
            <4>1. cmd # "none"
                BY <2>2 DEF Add, Delete, Arm, AddCheck, AddOverrun, Search, ShiftLoad, ShiftStore, Put, CountUpLoad,
                   CountUpStore, Find, Found, CloseLoad, CloseStore, CountDownLoad, CountDownStore, Rearm, AlarmOff,
                   AlarmOn, AlarmTime, WholeInv, WholeTyped, Between
            <4> QED
                BY <3>1, <3>2, <4>1, UnseenInside DEF CommandKeeps
        <3>3. CASE AddOverrun
            BY <2>0, <3>1, <3>3, SeenOverrun DEF Whole!Atomic!Next
        <3> QED
            BY <3>1, <3>2, <3>3
    <2>3. ASSUME Return
          PROVE  WholeInv' /\ Whole!Atomic!Next
        <3>1. /\ WholeInv' /\ UNCHANGED vars /\ cmd \in {"add", "delete"} /\ cmd' = "none"
              /\ IF cmd = "add" THEN AddDone ELSE cmd = "delete" /\ DeleteDone
            BY <2>0, <2>3, WholeReturn
        <3>2. arg \in Schedule /\ before.q \in [Slot -> Schedule \cup {None}]
              /\ (cmd = "delete" => Was > -Underflow)
            BY <2>3 DEF Return, WholeInv, WholeTyped, Between
        <3>3. Whole!Atomic!Command /\ UNCHANGED overrun
            BY <3>1, <3>2, SeenAdd, SeenDelete DEF Whole!Atomic!Command
        <3> QED
            BY <2>0, <3>1, <3>3 DEF Whole!Atomic!Next
    <2>4. ASSUME PortRead \/ PortWrite
          PROVE  WholeInv' /\ UNCHANGED Whole!Atomic!vars
        BY <2>4, WholePort, UnseenBetween
    <2> QED
        BY <1>1, <1>3, <2>0, <2>1, <2>2, <2>3, <2>4, WholeActions, WholeSeen DEF Whole!PNext
<1> QED
    BY <1>2, <1>3 DEF MCNext

LEMMA WholeStarts ==
    /\ PInit => Atomic!Init
    /\ Whole!PInit => PInit /\ Whole!Atomic!Init
<1>1. PInit => Atomic!Init
    BY DEF PInit, Init, Atomic!Init, Busy, Slot, Atomic!Slot, None, Atomic!None
<1>2. Whole!PInit => PInit
    BY DEF Whole!PInit, PInit, Whole!Init, Init, Whole!Slot, Slot, Whole!None, None,
           Whole!NoCommand, NoCommand
<1>3. Whole!PInit => Whole!Atomic!Init
    BY DEF Whole!PInit, Whole!Init, Whole!Atomic!Init, Whole!Busy, Whole!Slot, Whole!Atomic!Slot,
           Whole!None, Whole!Atomic!None
<1> QED
    BY <1>1, <1>2, <1>3
-----------------------------------------------------------------------------
\* Without interrupts in between, the commands taken apart at every access to memory are
\* those of AlarmClock, where each is one step: in any environment, for every size of the
\* array, and both ways to compile the count.
THEOREM CommandsAreAtomic ==
    ASSUME ~Preempt
    PROVE  PSpec => AtomicSpec
<1>1. PInit => WholeInv /\ Allowed /\ Atomic!Init
    BY WholeInit, WholeStarts DEF Allowed, PInit
<1>2. WholeInv /\ Allowed /\ [PNext]_pvars => WholeInv' /\ Allowed' /\ [Atomic!Next]_(Atomic!vars)
    BY WholeStep
<1> QED
    BY <1>1, <1>2, PTL DEF PSpec, AtomicSpec, Atomic!Spec

\* AlarmClock, as Atomic shows it, with what is proved of it.
Shown == INSTANCE AlarmClockProofs WITH
    scheduleQ         <- IF Busy THEN before.q ELSE scheduleQ,
    numberOfSchedules <- IF Busy THEN before.n ELSE numberOfSchedules,
    alarmOn           <- IF Busy THEN before.on ELSE alarmOn,
    al                <- IF Busy THEN before.al ELSE al

LEMMA ShownAssumption == Shown!ClockAssumption
    BY ClockAssumption DEF ClockAssumption, Shown!ClockAssumption

LEMMA ShownCommands ==
    ASSUME NEW s
    PROVE  /\ Atomic!SetClock(s) => Shown!SetClock(s)
           /\ Atomic!SetMeeting(s) => Shown!SetMeeting(s)
           /\ Atomic!SetMeetingOverrun(s) => Shown!SetMeetingOverrun(s)
           /\ Atomic!DeleteMeeting(s) => Shown!DeleteMeeting(s)
<1> USE DEF Shown!queue, Atomic!queue, Shown!alarm, Atomic!alarm, Shown!panel, Atomic!panel
<1>1. Atomic!SetClock(s) => Shown!SetClock(s)
    BY DEF Shown!SetClock, Atomic!SetClock, Shown!MaySet, Atomic!MaySet, Shown!Pending, Atomic!Pending,
           Shown!Due, Atomic!Due
<1>2. Atomic!SetMeeting(s) => Shown!SetMeeting(s)
    BY DEF Shown!SetMeeting, Atomic!SetMeeting, Shown!MayStore, Atomic!MayStore, Shown!Slot, Atomic!Slot,
           Shown!Full, Atomic!Full, Shown!AddSchedule, Atomic!AddSchedule, Shown!StopsAt, Atomic!StopsAt,
           Shown!Inserted, Atomic!Inserted, Shown!RTC_SET_ALARM, Atomic!RTC_SET_ALARM, Shown!Due, Atomic!Due
<1>3. Atomic!SetMeetingOverrun(s) => Shown!SetMeetingOverrun(s)
    BY DEF Shown!SetMeetingOverrun, Atomic!SetMeetingOverrun
<1>4. Atomic!DeleteMeeting(s) => Shown!DeleteMeeting(s)
    BY DEF Shown!DeleteMeeting, Atomic!DeleteMeeting, Shown!MayDelete, Atomic!MayDelete, Shown!Slot, Atomic!Slot,
           Shown!Stored, Atomic!Stored, Shown!FindSchedule, Atomic!FindSchedule, Shown!DeleteSlot, Atomic!DeleteSlot,
           Shown!Removed, Atomic!Removed, Shown!ArmAfterDelete, Atomic!ArmAfterDelete, Shown!Pending, Atomic!Pending,
           Shown!RTC_SET_ALARM, Atomic!RTC_SET_ALARM, Shown!RTC_DISABLE_ALARM, Atomic!RTC_DISABLE_ALARM
<1> QED
    BY <1>1, <1>2, <1>3, <1>4

LEMMA ShownSecond ==
    /\ Atomic!rtc_func => Shown!rtc_func
    /\ Atomic!button_intterupt => Shown!button_intterupt
<1>1. Atomic!Rings <=> Shown!Rings
    BY DEF Shown!Rings, Atomic!Rings, Shown!Due, Atomic!Due
<1>2. Atomic!HandleAlarm => Shown!HandleAlarm
    BY DEF Shown!HandleAlarm, Atomic!HandleAlarm, Shown!DeleteSlot, Atomic!DeleteSlot, Shown!Removed, Atomic!Removed,
           Shown!Slot, Atomic!Slot, Shown!ArmAfterRing, Atomic!ArmAfterRing,
           Shown!RTC_SET_ALARM, Atomic!RTC_SET_ALARM, Shown!RTC_DISABLE_ALARM, Atomic!RTC_DISABLE_ALARM
<1>3. Atomic!Buzz(Atomic!Rings) => Shown!Buzz(Shown!Rings)
    BY <1>1 DEF Shown!Buzz, Atomic!Buzz
<1>4. Atomic!Display => Shown!Display
    BY DEF Shown!Display, Atomic!Display, Shown!NextAlarmPage, Atomic!NextAlarmPage, Shown!None, Atomic!None
<1>5. Atomic!rtc_func => Shown!rtc_func
    BY <1>1, <1>2, <1>3, <1>4
       DEF Shown!rtc_func, Atomic!rtc_func, Shown!queue, Atomic!queue, Shown!alarm, Atomic!alarm
<1>6. Atomic!button_intterupt => Shown!button_intterupt
    BY DEF Shown!button_intterupt, Atomic!button_intterupt, Shown!queue, Atomic!queue, Shown!alarm, Atomic!alarm,
           Shown!NextAlarmPage, Atomic!NextAlarmPage, Shown!None, Atomic!None
<1> QED
    BY <1>5, <1>6

LEMMA ShownStarts == Atomic!Init => Shown!Init
    BY DEF Atomic!Init, Shown!Init, Atomic!Slot, Shown!Slot, Atomic!None, Shown!None

LEMMA ShownStep == [Atomic!Next]_(Atomic!vars) => [Shown!Next]_(Shown!vars)
<1>1. Atomic!Next => Shown!Next
    BY ShownCommands, ShownSecond DEF Atomic!Next, Shown!Next, Atomic!Command, Shown!Command
<1>2. UNCHANGED Atomic!vars => UNCHANGED Shown!vars
    BY DEF Atomic!vars, Shown!vars, Atomic!queue, Shown!queue, Atomic!alarm, Shown!alarm, Atomic!panel, Shown!panel
<1> QED
    BY <1>1, <1>2

\* So they implement AlarmBook where only stored meetings are deleted: the code of
\* AddSchedule, DeleteSchedule and RTC_SET_ALARM, access by access, keeps the book of
\* meetings that AlarmBook promises, as long as nothing cuts into it.
THEOREM CommandsKeepTheBook ==
    ASSUME ~Preempt, StoredOnly
    PROVE  PSpec => Shown!BookSpec
<1>1. PSpec => Atomic!Init /\ [][Atomic!Next]_(Atomic!vars)
    BY CommandsAreAtomic DEF AtomicSpec, Atomic!Spec
<1>2. Shown!Spec => Shown!BookSpec
    BY ShownAssumption, Shown!ImplementsBook
<1> QED
    BY <1>1, <1>2, ShownStarts, ShownStep, PTL DEF Shown!Spec

\* The same of the whole behaviours of the specification that TLC runs.
THEOREM WholeCommandsAreAtomic == MCSpec => WholeIsAtomic
<1> DEFINE I == mode = "whole" => WholeInv
<1>1. MCInit => I /\ (mode = "whole" => Whole!Atomic!Init)
    BY WholeInit, WholeStarts DEF MCInit
<1>2. I /\ [MCNext]_<<pvars, mode>> => I' /\ [mode = "whole" => Whole!Atomic!Next]_(Whole!Atomic!vars)
    <2> SUFFICES ASSUME I, [MCNext]_<<pvars, mode>>
                 PROVE  I' /\ [mode = "whole" => Whole!Atomic!Next]_(Whole!Atomic!vars)
        OBVIOUS
    <2>1. CASE mode = "whole"
        BY <2>1, WholeModeStep
    <2>2. CASE mode # "whole"
        BY <2>2 DEF MCNext
    <2> QED
        BY <2>1, <2>2
<1> QED
    BY <1>1, <1>2, PTL DEF MCSpec, WholeIsAtomic
-----------------------------------------------------------------------------
(* Commands that interrupts cut into, in any environment *)

\* What holds of a command even if alarms ring in it: it leaves an array and a count that
\* the next command can begin with.
Bounded ==
    /\ scheduleQ \in [Slot -> Schedule \cup {None}]
    /\ numberOfSchedules \in Int /\ numberOfSchedules <= Size
    /\ count \in Int /\ count <= Size
    /\ slot \in Nat
    /\ reg \in Schedule \cup {None}
    /\ Between => cmd = "none" /\ slot = 0
    /\ ~Between => cmd \in {"add", "delete"} /\ arg \in Schedule
    /\ Steps
    /\ pc \in Inserting => numberOfSchedules < Size /\ count < Size
    /\ pc \in {"shift", "shiftStore"} => hole \in Int /\ hole <= Size
    /\ pc \in {"close", "closeStore"} => hole \in Nat

\* As long as none rings, the command is where it would be without interrupts.
Undisturbed == cmd # "none" /\ rung = {} => WholeInv

LEMMA BoundedAdd ==
    ASSUME Bounded, Add
    PROVE  Bounded'
<1> USE DEF Bounded, Steps, AddSteps, DeleteSteps, Between, Inserting, Goto
<1>0. Size \in Nat /\ Full \in Nat /\ 0 \in Slot /\ Slot = 0 .. Size - 1
    BY ClockAssumption DEF Full, Slot
<1>1. CASE AddCheck
    <2>1. UNCHANGED <<scheduleQ, numberOfSchedules, cmd, arg, hole, reg>>
        BY <1>1, WholeSame DEF AddCheck
    <2> QED
        BY <1>0, <1>1, <2>1 DEF AddCheck
<1>2. CASE AddOverrun
    BY <1>0, <1>2 DEF AddOverrun, queue, locals
<1>3. CASE Search
    <2>1. UNCHANGED <<scheduleQ, numberOfSchedules, cmd, arg, count>>
        BY <1>3, WholeSame DEF Search
    <2>2. Count \in Int /\ Count <= Size
        BY DEF Count
    <2> QED
        BY <1>0, <1>3, <2>1, <2>2 DEF Search
<1>4. CASE ShiftLoad
    <2>1. UNCHANGED <<scheduleQ, numberOfSchedules, cmd, arg, slot, hole, count>>
        BY <1>4, WholeSame DEF ShiftLoad
    <2>2. hole - 1 \in Slot
        BY <1>0, <1>4 DEF ShiftLoad
    <2> QED
        BY <1>0, <1>4, <2>1, <2>2 DEF ShiftLoad
<1>5. CASE ShiftStore
    <2>1. scheduleQ' \in [Slot -> Schedule \cup {None}]
        BY <1>5 DEF ShiftStore
    <2>2. hole' \in Int /\ hole' <= Size
        BY <1>0, <1>5 DEF ShiftStore
    <2> QED
        BY <1>5, <2>1, <2>2 DEF ShiftStore
<1>6. CASE Put
    BY <1>0, <1>6 DEF Put, locals
<1>7. CASE CountUpLoad
    <2>1. UNCHANGED <<scheduleQ, numberOfSchedules, cmd, arg, slot, hole, reg>>
        BY <1>7, WholeSame DEF CountUpLoad
    <2> QED
        BY <1>0, <1>7, <2>1 DEF CountUpLoad, Count
<1>8. CASE CountUpStore
    BY <1>0, <1>8 DEF CountUpStore
<1> QED
    BY <1>1, <1>2, <1>3, <1>4, <1>5, <1>6, <1>7, <1>8 DEF Add

LEMMA BoundedDelete ==
    ASSUME Bounded, Delete
    PROVE  Bounded'
<1> USE DEF Bounded, Steps, AddSteps, DeleteSteps, Between, Inserting, Goto
<1>0. Size \in Nat /\ Full \in Nat /\ 0 \in Slot /\ Slot = 0 .. Size - 1
    BY ClockAssumption DEF Full, Slot
<1>1. CASE Find
    <2>1. UNCHANGED <<scheduleQ, numberOfSchedules, cmd, arg, hole, count, reg>>
        BY <1>1, WholeSame DEF Find
    <2> QED
        BY <1>0, <1>1, <2>1 DEF Find
<1>2. CASE Found
    <2>1. UNCHANGED <<scheduleQ, numberOfSchedules, cmd, arg, slot, reg>>
        BY <1>2, WholeSame DEF Found
    <2> QED
        BY <1>0, <1>2, <2>1 DEF Found
<1>3. CASE CloseLoad
    <2>1. UNCHANGED <<scheduleQ, numberOfSchedules, cmd, arg, slot, hole, count>>
        BY <1>3, WholeSame DEF CloseLoad
    <2>2. hole + 1 \in Slot
        BY <1>0, <1>3 DEF CloseLoad, Count
    <2> QED
        BY <1>0, <1>3, <2>1, <2>2 DEF CloseLoad
<1>4. CASE CloseStore
    <2>1. scheduleQ' \in [Slot -> Schedule \cup {None}]
        BY <1>4 DEF CloseStore
    <2>2. hole' \in Nat
        BY <1>0, <1>4 DEF CloseStore
    <2> QED
        BY <1>4, <2>1, <2>2 DEF CloseStore
<1>5. CASE CountDownLoad
    <2>1. UNCHANGED <<scheduleQ, numberOfSchedules, cmd, arg, slot, hole, reg>>
        BY <1>5, WholeSame DEF CountDownLoad
    <2> QED
        BY <1>0, <1>5, <2>1 DEF CountDownLoad, Count
<1>6. CASE CountDownStore
    BY <1>0, <1>6 DEF CountDownStore, locals
<1> QED
    BY <1>1, <1>2, <1>3, <1>4, <1>5, <1>6 DEF Delete

LEMMA BoundedArm ==
    ASSUME Bounded, Arm
    PROVE  Bounded'
<1> USE DEF Bounded, Steps, AddSteps, DeleteSteps, Between, Inserting, Goto
<1>1. UNCHANGED <<scheduleQ, numberOfSchedules, cmd, arg, slot, hole, count>>
    BY WholeSame DEF Arm, Rearm, AlarmOff, AlarmOn, AlarmTime, OnlyAlarm, queue, locals
<1>2. CASE Rearm
    BY <1>1, <1>2, FirstSlot DEF Rearm
<1>3. CASE AlarmOff \/ AlarmOn \/ AlarmTime
    BY <1>1, <1>3 DEF AlarmOff, AlarmOn, AlarmTime, locals
<1> QED
    BY <1>2, <1>3 DEF Arm

\* The interrupts: a ring takes slot 0, and nothing else touches the queue.
LEMMA BoundedInterrupt ==
    ASSUME Bounded, UNCHANGED <<pc, locals>>, UNCHANGED queue \/ DeleteSlot(0)
    PROVE  Bounded'
<1>1. /\ scheduleQ' \in [Slot -> Schedule \cup {None}]
      /\ numberOfSchedules' \in Int /\ numberOfSchedules' <= numberOfSchedules
    <2>1. CASE UNCHANGED queue
        BY <2>1 DEF queue, Bounded
    <2>2. CASE DeleteSlot(0)
        <3>1. ASSUME NEW j \in Slot
              PROVE  (IF j >= 0 /\ j < numberOfSchedules - 1 THEN scheduleQ[j + 1] ELSE scheduleQ[j])
                        \in Schedule \cup {None}
            BY ClockAssumption DEF Slot, Bounded
        <3>2. Removed(0) \in [Slot -> Schedule \cup {None}]
            BY <3>1 DEF Removed
        <3> QED
            BY <2>2, <3>2 DEF DeleteSlot, Bounded
    <2> QED
        BY <2>1, <2>2
<1> QED
    BY <1>1, ClockAssumption DEF Bounded, Steps, AddSteps, DeleteSteps, Between, Inserting, locals

\* An interrupt that does not ring leaves a command where it is.
LEMMA WholeInterrupt ==
    ASSUME WholeInv, ~Between, UNCHANGED <<queue, alarm, overrun, pc, reloads, locals, before>>
    PROVE  WholeInv'
BY DEF queue, alarm, locals, WholeInv, WholeTyped, Between, Steps, AddSteps, DeleteSteps,
       Adding, Deleting, ToArm, Done, Was, QueueAsBefore, AlarmAsBefore, MovedUp, MovedDown, WithIt, WithoutIt,
       AllBelow, GoesThere, NotBelow, FoundIt, Added, Deleted, AlarmSet, AddDone, DeleteDone

\* The first step of a command begins with what the commands before it left.
LEMMA UndisturbedBegin ==
    ASSUME Bounded, NEW s \in Schedule, BeginAdd(s) \/ BeginDelete(s)
    PROVE  Bounded' /\ WholeInv'
<1>1. pc = "idle"
    BY DEF BeginAdd, BeginDelete, Begin
<1>2. WholeInv
    BY <1>1, WholeBetween DEF Bounded, Between
<1>3. CASE BeginAdd(s)
    <2>1. WholeInv'
        BY <1>2, <1>3, WholeBegin DEF BeginAdd, Goto
    <2>2. Bounded'
        BY <1>3 DEF BeginAdd, Begin, Goto, Bounded, Steps, AddSteps, DeleteSteps, Between, Inserting,
                    vars, queue
    <2> QED
        BY <2>1, <2>2
<1>4. CASE BeginDelete(s)
    <2>1. WholeInv'
        BY <1>2, <1>4, WholeBegin DEF BeginDelete, Goto, MayDelete
    <2>2. Bounded'
        BY <1>4 DEF BeginDelete, Begin, Goto, Bounded, Steps, AddSteps, DeleteSteps, Between, Inserting,
                    vars, queue
    <2> QED
        BY <2>1, <2>2
<1> QED
    BY <1>3, <1>4

LEMMA UndisturbedInterrupt ==
    ASSUME Bounded, Undisturbed, Second \/ Button
    PROVE  Bounded' /\ Undisturbed'
<1>1. UNCHANGED <<overrun, pc, reloads, locals, before>> /\ cmd' = cmd
    BY DEF Second, Button, locals
<1>2. UNCHANGED queue \/ DeleteSlot(0)
    BY DEF Second, Button, rtc_func, HandleAlarm, button_intterupt
<1>3. Bounded'
    BY <1>1, <1>2, BoundedInterrupt
<1>4. ASSUME cmd # "none", rung' = {}
      PROVE  WholeInv'
    <2>1. UNCHANGED <<queue, alarm>> /\ rung = {}
        BY <1>4 DEF Second, Button, rtc_func, button_intterupt
    <2> QED
        BY <1>1, <1>4, <2>1, WholeInterrupt DEF Undisturbed, Bounded
<1> QED
    BY <1>1, <1>3, <1>4 DEF Undisturbed

\* Every step leaves a count and an array to begin with, and as long as no alarm rings a
\* command is where it would be without interrupts.
LEMMA UndisturbedStep ==
    ASSUME Bounded, Undisturbed, [PNext]_pvars
    PROVE  Bounded' /\ Undisturbed'
<1>1. ASSUME NEW s \in Schedule, BeginAdd(s) \/ BeginDelete(s)
      PROVE  Bounded' /\ Undisturbed'
    BY <1>1, UndisturbedBegin DEF Undisturbed
<1>2. ASSUME Add \/ Delete \/ Arm
      PROVE  Bounded' /\ Undisturbed'
    <2>1. Bounded'
        BY <1>2, BoundedAdd, BoundedDelete, BoundedArm
    <2>2. cmd' = cmd /\ rung' = rung
        BY <1>2 DEF Add, Delete, Arm, AddCheck, AddOverrun, Search, ShiftLoad, ShiftStore, Put, CountUpLoad,
           CountUpStore, Find, Found, CloseLoad, CloseStore, CountDownLoad, CountDownStore, Rearm, AlarmOff,
           AlarmOn, AlarmTime, MemoryUnchanged, OnlyQueue, OnlyAlarm, locals
    <2> QED
        BY <1>2, <2>1, <2>2, WholeCommand DEF Undisturbed
<1>3. ASSUME NEW t \in SetTo, Clock(t)
      PROVE  Bounded' /\ Undisturbed'
    <2>1. UNCHANGED <<pc, locals, queue, cmd>> /\ cmd = "none"
        BY <1>3 DEF Clock, SetClock, locals, Bounded, Between
    <2> QED
        BY <2>1, BoundedInterrupt DEF Undisturbed
<1>4. CASE Return
    BY <1>4, ClockAssumption
       DEF Return, Goto, vars, queue, Bounded, Undisturbed, Steps, AddSteps, DeleteSteps, Between,
           Inserting, None
<1>5. CASE PortRead \/ PortWrite
    BY <1>5 DEF PortRead, PortWrite, Goto, vars, queue, locals, Bounded, Undisturbed, Steps, AddSteps,
                DeleteSteps, Between, Inserting
<1>6. CASE Second \/ Button
    BY <1>6, UndisturbedInterrupt
<1>7. CASE UNCHANGED pvars
    <2>1. UNCHANGED <<pc, locals, queue, cmd, rung>>
        BY <1>7 DEF pvars, vars, locals
    <2> QED
        BY <1>7, <2>1, BoundedInterrupt, WholeStutter DEF Undisturbed
<1> QED
    BY <1>1, <1>2, <1>3, <1>4, <1>5, <1>6, <1>7 DEF PNext

\* Such a command ends as the one step of AlarmClock does.
LEMMA UndisturbedReturn ==
    ASSUME Bounded, Undisturbed, ~overrun, Return, rung = {}
    PROVE  IF cmd = "add"
           THEN /\ Atomic!AddSchedule(arg, slot)
                /\ IF slot = 0 THEN Atomic!RTC_SET_ALARM(arg) ELSE UNCHANGED Atomic!alarm
           ELSE \/ /\ slot = Full
                   /\ ~Atomic!Stored(arg)
                   /\ UNCHANGED <<Atomic!queue, Atomic!alarm>>
                \/ /\ Atomic!FindSchedule(arg, slot)
                   /\ Atomic!DeleteSlot(slot)
                   /\ IF slot = 0 THEN Atomic!ArmAfterDelete ELSE UNCHANGED Atomic!alarm
<1>1. pc = "done" /\ ~Between /\ cmd # "none"
    BY DEF Return, Bounded, Between
<1>2. WholeInv
    BY <1>1 DEF Undisturbed
<1>3. /\ UNCHANGED vars /\ cmd' = "none"
      /\ IF cmd = "add" THEN AddDone ELSE cmd = "delete" /\ DeleteDone
    BY <1>2, WholeReturn
<1>4. arg \in Schedule /\ before.q \in [Slot -> Schedule \cup {None}]
    BY <1>1, <1>2 DEF WholeInv, WholeTyped
<1>5. CASE cmd = "add"
    BY <1>3, <1>4, <1>5, SeenAddSchedule
<1>6. CASE cmd # "add"
    BY <1>3, <1>6, SeenDeleteSchedule
<1> QED
    BY <1>5, <1>6

\* Only an alarm can disturb a command, for every size of the array, any meetings and
\* environment, both ways to compile the count, and wherever the interrupts cut in: without
\* one its result, the queue and the alarm are those of AlarmClock's one step.
THEOREM CommandsWithstandInterrupts == PSpec => OnlyRingsDisturb
<1>1. PInit => Bounded /\ Undisturbed
    BY ClockAssumption
       DEF PInit, Init, Bounded, Undisturbed, Steps, AddSteps, DeleteSteps, Between, Inserting, None
<1>2. Bounded /\ Undisturbed /\ [PNext]_pvars => Bounded' /\ Undisturbed'
    BY UndisturbedStep
<1>3. Bounded /\ Undisturbed /\ [PNext]_pvars =>
        [Return /\ rung = {} =>
            IF cmd = "add"
            THEN /\ Atomic!AddSchedule(arg, slot)
                 /\ IF slot = 0 THEN Atomic!RTC_SET_ALARM(arg) ELSE UNCHANGED Atomic!alarm
            ELSE \/ /\ slot = Full
                    /\ ~Atomic!Stored(arg)
                    /\ UNCHANGED <<Atomic!queue, Atomic!alarm>>
                 \/ /\ Atomic!FindSchedule(arg, slot)
                    /\ Atomic!DeleteSlot(slot)
                    /\ IF slot = 0 THEN Atomic!ArmAfterDelete ELSE UNCHANGED Atomic!alarm]_pvars
    BY UndisturbedReturn DEF PNext
<1> QED
    BY <1>1, <1>2, <1>3, PTL DEF PSpec, OnlyRingsDisturb
=============================================================================
