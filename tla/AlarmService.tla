----------------------------- MODULE AlarmService -----------------------------
(* The Dispatcher's account and the clock together: every command that gets    *)
(* through is executed by the clock (AlarmClock) before anything else happens. *)
(* A minute is the unit of time, and the clock's second 0 of a minute is all   *)
(* of it.  The panel is the clock's own affair: the button is not pressed.     *)
EXTENDS Dispatcher

CONSTANT Size   \* NUM_OF_SHEDULES

ASSUME ServiceAssumption ==
    /\ Size \in 1 .. 254
    /\ 0 \notin Start      \* no event starts in the minute of a slot never written

VARIABLES scheduleQ, numberOfSchedules, alarmOn, al, clock, running,
          buzzer, buzzer_counter, display_counter, isShow, screen, overrun,
          missed    \* history: the clock's array was full for a meeting, or the clock
                    \* took the remains of one that had rung for the one to delete

Clock == INSTANCE AlarmClock WITH
    Schedule <- Start, SecPerMinute <- 1, BuzzerTime <- 1, DisplayTime <- 1,
    SetTo <- 0 .. LastTime, LastSecond <- LastTime, Underflow <- Size,
    StoredOnly <- FALSE, Punctual <- FALSE

clockVars   == <<scheduleQ, numberOfSchedules, alarmOn, al, clock, running,
                 buzzer, buzzer_counter, display_counter, isShow, screen, overrun>>
serviceVars == <<vars, clockVars, missed>>

\* The switch of handle_input for the command on the wire.
Execute(c) ==
    /\ IF overrun THEN UNCHANGED clockVars
       ELSE \/ c.cmd = "S" /\ Clock!SetClock(c.at) /\ UNCHANGED overrun
            \/ c.cmd = "M" /\ Clock!SetMeeting(c.at) /\ UNCHANGED overrun
            \/ c.cmd = "M" /\ Clock!SetMeetingOverrun(c.at)
            \/ c.cmd = "D" /\ Clock!DeleteMeeting(c.at) /\ UNCHANGED overrun
            \/ c.cmd = "none" /\ UNCHANGED clockVars
    /\ missed' = \/ missed
                 \/ c.cmd = "M" /\ numberOfSchedules = Size
                 \/ c.cmd = "D" /\ c.at \notin Clock!Pending /\ Clock!Stored(c.at)

AccountTurn == Account /\ Execute(out')

CalendarChanges ==
    /\ \E e \in Event, start \in Start, live \in BOOLEAN : Change(e, start, live)
    /\ UNCHANGED <<clockVars, missed>>

\* Time passes for the Dispatcher and for the clock, once it is set.
Minute ==
    /\ Tick
    /\ IF running /\ ~overrun THEN Clock!rtc_func /\ UNCHANGED overrun
                              ELSE UNCHANGED clockVars
    /\ UNCHANGED missed

ServiceInit == Init /\ Clock!Init /\ missed = FALSE

ServiceNext ==
    \/ AccountTurn \/ CalendarChanges \/ Minute
    \/ TimeStops /\ UNCHANGED <<clockVars, missed>>

ServiceSpec ==
    /\ ServiceInit /\ [][ServiceNext]_serviceVars
    /\ WF_serviceVars(AccountTurn) /\ WF_serviceVars(Minute)

-----------------------------------------------------------------------------
(* Properties.                                                                 *)

\* When nothing fails and no two events start at once, the send flags of the list and
\* the clock's queue tell the same, until the clock has no room for a meeting or a deletion
\* comes too late (see below): the clock has an alarm for every event ahead that is marked
\* as sent, and for nothing that was deleted or moved.
AlarmsMirrored ==
    Reliable /\ env.distinct /\ ~missed =>
        {s \in Clock!Pending : s > now} = {events[i].start : i \in SentIn(events)} \ 0 .. now

\* Until then the clock keeps the book of AlarmBook under whatever the account sends and
\* whenever, with or without failures: it stores, cancels, rings and arms as promised.
BookKept == [][~missed' => [Clock!Book!Next]_(Clock!Book!book)]_serviceVars

-----------------------------------------------------------------------------
(* What the repository says and the code does not do.                          *)

\* alarm-watch.c:73, "delete schedule s if exist": a deletion of a meeting that is not
\* stored any more leaves the count alone.
DeleteIfExists ==
    [][out'.cmd = "D" /\ out'.at \notin Clock!Pending
        => numberOfSchedules' = numberOfSchedules]_serviceVars
=============================================================================
