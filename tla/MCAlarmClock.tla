---------------------------- MODULE MCAlarmClock ----------------------------
(* Small instances of AlarmClock for TLC. *)
EXTENDS AlarmClock

\* Four meetings for an array of three slots, so that it fills up.
MCSchedule == 1 .. 4

\* The server sets the clock to the start, to the middle of the second minute
\* and to the minute of the third meeting.
MCSetTo == {0, 3, 6}
=============================================================================
