---------------------------- MODULE ScheduleOrder ----------------------------
(***************************************************************************)
(* CompareSchedules of alarm-watch.c.  AlarmClock takes a schedule for the *)
(* number of its minute and compares numbers: this module says why.  The   *)
(* comparison of two schedules field by field is the comparison of the     *)
(* numbers whose digits are the fields.                                    *)
(*                                                                         *)
(* The two variables only enumerate pairs of schedules for TLC.            *)
(***************************************************************************)
EXTENDS Integers

CONSTANTS Year, Month, Day, Hour, Minute

\* The fields fit in the registers of the RTC (the masks in handleUPDATETIME).
ASSUME FieldAssumption ==
    /\ Year   \subseteq Nat
    /\ Month  \subseteq 0 .. 15
    /\ Day    \subseteq 0 .. 31
    /\ Hour   \subseteq 0 .. 31
    /\ Minute \subseteq 0 .. 63

VARIABLES s, t

Schedule == [year : Year, month : Month, day : Day, houre : Hour, minuts : Minute]

CreateSchedule(year, month, day, houre, minuts) ==
    [year |-> year, month |-> month, day |-> day, houre |-> houre, minuts |-> minuts]

\* One field: it decides, or leaves the decision to the fields that follow.
By(a, b, rest) == IF a < b THEN -1 ELSE IF a > b THEN 1 ELSE rest

\* Mutant of CompareSchedules: the day is compared before the month.
CompareDayFirst(s1, s2) ==
    By(s1.year, s2.year, By(s1.day, s2.day, By(s1.month, s2.month,
        By(s1.houre, s2.houre, By(s1.minuts, s2.minuts, 0)))))

CompareSchedules(s1, s2) ==
    By(s1.year, s2.year, By(s1.month, s2.month, By(s1.day, s2.day,
        By(s1.houre, s2.houre, By(s1.minuts, s2.minuts, 0)))))

\* The number whose digits are the fields, in the order of a calendar.
Number(r) == (((r.year * 16 + r.month) * 32 + r.day) * 32 + r.houre) * 64 + r.minuts

Init == s \in Schedule /\ t \in Schedule

Next ==
    /\ s' = t
    /\ \E y \in Year, mo \in Month, d \in Day, h \in Hour, mi \in Minute :
        t' = CreateSchedule(y, mo, d, h, mi)

Spec == Init /\ [][Next]_<<s, t>>
-----------------------------------------------------------------------------
\* alarm-watch.c:8, "return 1 if s1>s2 -1 if s1<s2 and 0 else": the comparison
\* is the one of the moments the schedules stand for, and only a schedule with
\* the same fields is found equal.
OrderIsByTime ==
    /\ CompareSchedules(s, t) = By(Number(s), Number(t), 0)
    /\ CompareSchedules(s, t) = 0 <=> s = t
=============================================================================
