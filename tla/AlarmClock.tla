------------------------------ MODULE AlarmClock ------------------------------
(***************************************************************************)
(* The alarm core of the firmware: the schedule queue of alarm-watch.c,    *)
(* the RTC, buzzer and display handlers of rtc.c, and the three commands   *)
(* (set clock, set meeting, delete meeting) that httpd.c executes.         *)
(*                                                                         *)
(* A command is one step here, and so is one interrupt of the RTC: this    *)
(* module holds for executions in which no interrupt arrives while a       *)
(* command is being executed.  AlarmPreempt splits the commands at every   *)
(* access to shared memory.                                                *)
(*                                                                         *)
(* CompareSchedules orders schedules by date and time (ScheduleOrder), so  *)
(* a schedule is the number of its minute and 0 is the zeroed .bss slot.   *)
(***************************************************************************)
EXTENDS Integers

CONSTANTS
    Size,          \* NUM_OF_SHEDULES
    Schedule,      \* the minutes a meeting can be set for
    SecPerMinute,  \* seconds in a minute
    BuzzerTime,    \* BUZZER_TIME
    DisplayTime,   \* seconds the next-alarm page stays (4 in rtc.c)
    SetTo,         \* the seconds the server sets the clock to
    LastSecond,    \* bound: the second at which the clock stops
    Underflow,     \* bound: how far below 0 deletes take the count
    StoredOnly,    \* environment: only stored meetings are deleted
    Punctual       \* environment: meetings lie ahead of the clock, and the
                   \* clock is never set back or past a stored meeting

ASSUME ClockAssumption ==
    /\ Size \in 1 .. 254             \* indexes are C chars, 255 means "full"
    /\ Schedule \subseteq Nat \ {0}
    /\ SecPerMinute \in Nat \ {0}
    /\ BuzzerTime \in Nat \ {0}
    /\ DisplayTime \in Nat \ {0}
    /\ SetTo \subseteq Nat
    /\ LastSecond \in Nat
    /\ Underflow \in Nat
    /\ StoredOnly \in BOOLEAN
    /\ Punctual \in BOOLEAN

VARIABLES
    scheduleQ,          \* the array, slots beyond the count included
    numberOfSchedules,  \* its count
    alarmOn,            \* AMR compares the alarm registers with the clock
    al,                 \* ALSEC..ALYEAR: the minute the alarm is set for
    clock,              \* SEC..YEAR as a number of seconds
    running,            \* RTC_init was called: clock and IRQs are enabled
    buzzer,             \* BIT7 of IOPIN0 is low: the buzzer sounds
    buzzer_counter,
    display_counter,
    isShow,
    screen,             \* what the LCD shows: a page and the schedule on it
    overrun             \* AddSchedule wrote outside scheduleQ

queue   == <<scheduleQ, numberOfSchedules>>
alarm   == <<alarmOn, al>>
panel   == <<buzzer, buzzer_counter, display_counter, isShow, screen>>
vars    == <<queue, alarm, clock, running, panel, overrun>>

Slot    == 0 .. Size - 1
None    == 0                       \* the value of a slot never written
Full    == 255                     \* (char) -1
Pending == {scheduleQ[i] : i \in 0 .. numberOfSchedules - 1}
Due(s)  == s * SecPerMinute        \* ALSEC is always set to 0

Page    == [page : {"blank", "time", "none", "next"}, of : Schedule \cup {None}]
-----------------------------------------------------------------------------
(* alarm-watch.c *)

\* Mutant of StopsAt: the meeting itself does not stop the search.
StopsAtLater(s, i) ==
    /\ i \in 0 .. numberOfSchedules
    /\ \A j \in 0 .. i - 1 : s >= scheduleQ[j]
    /\ i < numberOfSchedules => s < scheduleQ[i]

\* The slot at which the search loop of AddSchedule stops.
StopsAt(s, i) ==
    /\ i \in 0 .. numberOfSchedules
    /\ \A j \in 0 .. i - 1 : s > scheduleQ[j]
    /\ i < numberOfSchedules => s <= scheduleQ[i]

\* Mutant of Inserted: nothing moves up.
InsertedOver(s, i) == [scheduleQ EXCEPT ![i] = s]

\* The array after the schedules from slot i on have moved up one slot.
Inserted(s, i) ==
    [j \in Slot |-> IF j > i /\ j <= numberOfSchedules THEN scheduleQ[j - 1]
                    ELSE IF j = i THEN s ELSE scheduleQ[j]]

\* Mutant of AddSchedule: the test for a full array is off by one.
AddScheduleFullEarly(s, r) ==
    \/ /\ numberOfSchedules >= Size - 1
       /\ r = Full
       /\ UNCHANGED queue
    \/ /\ numberOfSchedules \in 0 .. Size - 2
       /\ StopsAt(s, r)
       /\ IF r < numberOfSchedules /\ scheduleQ[r] = s
          THEN UNCHANGED queue
          ELSE /\ scheduleQ' = Inserted(s, r)
               /\ numberOfSchedules' = numberOfSchedules + 1

\* Mutant of AddSchedule: the test for a full array is missing.
AddScheduleNeverFull(s, r) ==
    /\ numberOfSchedules >= 0
    /\ r \in 0 .. numberOfSchedules
    /\ \A j \in Slot : j < r => s > scheduleQ[j]
    /\ r \in Slot => s <= scheduleQ[r] \/ r = numberOfSchedules
    /\ IF r \in Slot /\ r < numberOfSchedules /\ scheduleQ[r] = s
       THEN UNCHANGED queue
       ELSE /\ scheduleQ' = Inserted(s, r)
            /\ numberOfSchedules' = numberOfSchedules + 1

\* AddSchedule(s) with r as the char it returns.
AddSchedule(s, r) ==
    \/ /\ numberOfSchedules = Size
       /\ r = Full
       /\ UNCHANGED queue
    \/ /\ numberOfSchedules \in Slot
       /\ StopsAt(s, r)
       /\ IF r < numberOfSchedules /\ scheduleQ[r] = s
          THEN UNCHANGED queue
          ELSE /\ scheduleQ' = Inserted(s, r)
               /\ numberOfSchedules' = numberOfSchedules + 1

\* FindSchedule(s) = i: the search runs over the whole array, not only over
\* the slots in use.
FindSchedule(s, i) ==
    /\ i \in Slot
    /\ scheduleQ[i] = s
    /\ \A j \in 0 .. i - 1 : scheduleQ[j] # s

Stored(s) == \E i \in Slot : scheduleQ[i] = s

\* The array after the schedules in use above slot i have moved down one slot.
Removed(i) ==
    [j \in Slot |-> IF j >= i /\ j < numberOfSchedules - 1
                    THEN scheduleQ[j + 1] ELSE scheduleQ[j]]

\* The part of DeleteSchedule that follows a successful search.
DeleteSlot(i) ==
    /\ scheduleQ' = Removed(i)
    /\ numberOfSchedules' = numberOfSchedules - 1
-----------------------------------------------------------------------------
(* rtc.c: the alarm registers *)

RTC_SET_ALARM(s) == alarmOn' = TRUE /\ al' = s

RTC_DISABLE_ALARM == alarmOn' = FALSE /\ UNCHANGED al
-----------------------------------------------------------------------------
(* httpd.c: the commands of the server *)

\* The settings, meetings and deletes the environment may ask for.
MaySet(t)    == Punctual => t >= clock /\ \A s \in Pending : t < Due(s)
MayStore(s)  == Punctual => running /\ Due(s) > clock
MayDelete(s) == /\ StoredOnly => s \in Pending
                /\ numberOfSchedules > -Underflow

\* 'S': RTC_init sets the clock, starts it and enables the interrupts.
SetClock(t) ==
    /\ MaySet(t)
    /\ clock' = t
    /\ running' = TRUE
    /\ UNCHANGED <<queue, alarm, panel>>

\* 'M': only a meeting stored in (or found at) slot 0 is armed.
SetMeeting(s) ==
    /\ MayStore(s)
    /\ \E r \in Slot \cup {Full} :
        /\ AddSchedule(s, r)
        /\ IF r = 0 THEN RTC_SET_ALARM(s) ELSE UNCHANGED alarm
    /\ UNCHANGED <<clock, running, panel>>

\* 'M' when the count is negative: the char index k of the shift loop starts
\* at 255 and the loop writes far beyond the array.  What the program does
\* from there on is undefined; the model stops.
SetMeetingOverrun(s) ==
    /\ numberOfSchedules < 0
    /\ overrun' = TRUE
    /\ UNCHANGED <<queue, alarm, clock, running, panel>>

\* Which alarm is set after slot 0 was deleted by a command.
ArmAfterDelete ==
    IF numberOfSchedules' # 0 THEN RTC_SET_ALARM(scheduleQ'[0])
                              ELSE RTC_DISABLE_ALARM

\* 'D'
DeleteMeeting(s) ==
    /\ MayDelete(s)
    /\ \/ ~Stored(s) /\ UNCHANGED <<queue, alarm>>
       \/ \E i \in Slot :
            /\ FindSchedule(s, i)
            /\ DeleteSlot(i)
            /\ IF i = 0 THEN ArmAfterDelete ELSE UNCHANGED alarm
    /\ UNCHANGED <<clock, running, panel>>
-----------------------------------------------------------------------------
(* rtc.c: the interrupts *)

\* Mutant of ArmAfterRing: the alarm that rang stays set.
ArmAfterRingForgotten == UNCHANGED alarm

\* Which alarm is set after one has rung: the code re-arms only when more
\* than one schedule is left.
ArmAfterRing ==
    IF numberOfSchedules' > 1 THEN RTC_SET_ALARM(scheduleQ'[0])
                              ELSE RTC_DISABLE_ALARM

\* Mutant of HandleAlarm: the schedule that rang stays in the queue.
HandleAlarmKeeps ==
    /\ UNCHANGED queue
    /\ ArmAfterRing

\* handleALARM without its buzzer part (see Buzz).
HandleAlarm ==
    /\ DeleteSlot(0)
    /\ ArmAfterRing

\* Mutant of Buzz: the countdown ends without switching the buzzer off.
BuzzOnAndOn(rings) ==
    LET counter == IF rings THEN BuzzerTime ELSE buzzer_counter IN
    /\ buzzer' = (rings \/ buzzer)
    /\ buzzer_counter' = IF counter = 0 THEN 0 ELSE counter - 1

\* The buzzer after one run of rtc_func: handleALARM starts it, the second
\* interrupt of the same run counts down and stops it.
Buzz(rings) ==
    LET counter == IF rings THEN BuzzerTime ELSE buzzer_counter IN
    IF counter = 0
    THEN buzzer' = FALSE /\ buzzer_counter' = 0
    ELSE buzzer' = (rings \/ buzzer) /\ buzzer_counter' = counter - 1

\* PrintNextAlarm
NextAlarmPage ==
    IF numberOfSchedules' # 0 THEN [page |-> "next", of |-> scheduleQ'[0]]
                              ELSE [page |-> "none", of |-> None]

\* The display after one run of rtc_func.
Display ==
    IF display_counter = 0
    THEN /\ screen' = [page |-> "time", of |-> None]
         /\ UNCHANGED <<display_counter, isShow>>
    ELSE IF ~isShow
         THEN /\ screen' = NextAlarmPage
              /\ isShow' = TRUE
              /\ UNCHANGED display_counter
         ELSE /\ display_counter' = display_counter - 1
              /\ UNCHANGED <<screen, isShow>>

\* The alarm registers match the clock when it reaches the next second.
Rings == alarmOn /\ clock + 1 = Due(al)

\* A second passes: the RTC interrupts, with or without an alarm.
rtc_func ==
    /\ running
    /\ clock < LastSecond
    /\ clock' = clock + 1
    /\ IF Rings THEN HandleAlarm ELSE UNCHANGED <<queue, alarm>>
    /\ Buzz(Rings)
    /\ Display
    /\ UNCHANGED running

\* Mutant of button_intterupt: the button switches the alarm off together with the buzzer.
button_intteruptDisarms ==
    /\ running
    /\ display_counter' = DisplayTime
    /\ isShow' = FALSE
    /\ buzzer' = FALSE
    /\ RTC_DISABLE_ALARM
    /\ UNCHANGED <<queue, clock, running, buzzer_counter, screen>>

\* The button silences the buzzer and asks for the next-alarm page.
button_intterupt ==
    /\ running
    /\ display_counter' = DisplayTime
    /\ isShow' = FALSE
    /\ buzzer' = FALSE
    /\ UNCHANGED <<queue, alarm, clock, running, buzzer_counter, screen>>
-----------------------------------------------------------------------------
Init ==
    /\ scheduleQ = [i \in Slot |-> None]
    /\ numberOfSchedules = 0
    /\ alarmOn = FALSE
    /\ al = None
    /\ clock = 0
    /\ running = FALSE
    /\ buzzer = FALSE
    /\ buzzer_counter = 0
    /\ display_counter = 0
    /\ isShow = FALSE
    /\ screen = [page |-> "blank", of |-> None]
    /\ overrun = FALSE

Command ==
    \/ \E t \in SetTo : SetClock(t)
    \/ \E s \in Schedule : SetMeeting(s) \/ DeleteMeeting(s)

Next ==
    /\ ~overrun
    /\ \/ Command /\ UNCHANGED overrun
       \/ \E s \in Schedule : SetMeetingOverrun(s)
       \/ rtc_func /\ UNCHANGED overrun
       \/ button_intterupt /\ UNCHANGED overrun

Spec == Init /\ [][Next]_vars

\* The RTC counts on and its interrupt is served.
FairSpec == Spec /\ WF_vars(~overrun /\ rtc_func /\ UNCHANGED overrun)
-----------------------------------------------------------------------------
(* Properties of every environment *)

\* Every variable has its type, and the count never exceeds the array: the
\* "full" test of AddSchedule is the only thing that keeps it so.
TypeOK ==
    /\ scheduleQ \in [Slot -> Schedule \cup {None}]
    /\ numberOfSchedules \in Int /\ numberOfSchedules <= Size
    /\ alarmOn \in BOOLEAN
    /\ al \in Schedule \cup {None}
    /\ clock \in Nat
    /\ running \in BOOLEAN
    /\ buzzer \in BOOLEAN
    /\ buzzer_counter \in 0 .. BuzzerTime - 1
    /\ display_counter \in 0 .. DisplayTime
    /\ isShow \in BOOLEAN
    /\ screen \in Page
    /\ overrun \in BOOLEAN

\* The schedules in use are strictly ascending: insertion keeps the order and
\* refuses duplicates, and deleting keeps both.
QueueSorted ==
    \A i, j \in 0 .. numberOfSchedules - 1 : i < j => scheduleQ[i] < scheduleQ[j]

\* Whenever an alarm is set, it is set for slot 0: no sequence of commands and
\* rings leaves the alarm registers behind the queue.
AlarmFollowsQueue == alarmOn => al = scheduleQ[0]

\* The three together: what commands, rings and the button keep in every environment, the
\* ones in which the count goes below zero included.
ClockInv == TypeOK /\ QueueSorted /\ AlarmFollowsQueue
-----------------------------------------------------------------------------
(* Properties that hold when only stored meetings are deleted *)

\* The count stays in range, so AddSchedule never writes outside the array,
\* and an alarm is set only while a schedule is stored.
CountInRange ==
    /\ numberOfSchedules \in 0 .. Size
    /\ alarmOn => numberOfSchedules > 0
    /\ ~overrun

\* The array, the count and the registers implement the set of pending
\* schedules of AlarmBook: what is stored, cancelled and rung, and when.
Book == INSTANCE AlarmBook WITH
    pending <- Pending,
    armed   <- IF alarmOn THEN {al} ELSE {},
    now     <- clock

BookSpec == Book!Spec

\* A new meeting is refused only when the array is full: a refusal changes
\* nothing and the server is not told of it, so a lost one shows nowhere else.
RoomIsUsed ==
    \A s \in Schedule :
        MayStore(s) /\ s \notin Pending /\ numberOfSchedules \in Slot
            => ENABLED <<SetMeeting(s) /\ UNCHANGED overrun>>_vars
-----------------------------------------------------------------------------
(* Liveness, for a punctual environment *)

\* An alarm set for a minute still to come is not waited for forever: it rings,
\* is deleted, or makes room for an earlier one (or AddSchedule overruns).
ArmedAlarmComes ==
    \A s \in Schedule :
        (alarmOn /\ al = s /\ clock < Due(s)) ~> (s \notin Pending \/ al # s \/ overrun)

\* The buzzer does not sound forever (configuration.h: how much time to buzz).
BuzzerStops == buzzer ~> (~buzzer \/ overrun)
-----------------------------------------------------------------------------
(* What the repository says and the code does not do *)

\* rtc.c:92, "next alarm:": the schedule the page announces is one the alarm
\* is set for.
NextAlarmIsSet ==
    [][rtc_func /\ isShow' /\ ~isShow /\ screen'.page = "next"
        => alarmOn' /\ al' = screen'.of]_vars
=============================================================================
