--------------------------- MODULE MCAlarmPreempt ---------------------------
(* Small instances of AlarmPreempt for TLC. *)
EXTENDS AlarmPreempt

MCSchedule == 1 .. 4

\* The server sets the clock once to the start and once to the second minute.
MCSetTo == {0, 2}

NoSchedules == {}
=============================================================================
