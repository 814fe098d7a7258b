------------------------------ MODULE AlarmBook ------------------------------
(***************************************************************************)
(* What the alarm clock promises, without its array, its counter or its    *)
(* alarm registers: a set of pending schedules, the one schedule (at most) *)
(* the clock is armed for, and the second it is.  AlarmClock implements    *)
(* this specification.                                                     *)
(***************************************************************************)
EXTENDS Naturals

CONSTANTS
    Schedule,      \* the minutes a meeting can be set for
    SecPerMinute   \* seconds in a minute; a schedule is due at second 0

VARIABLES
    pending,  \* the schedules stored and not yet rung or cancelled
    armed,    \* {} or {s}: the schedule the clock is going to ring for
    now       \* the second the clock shows

book == <<pending, armed, now>>

\* {} or the singleton of the first schedule of S.
Earliest(S) == {s \in S : \A t \in S : s <= t}

Due(s) == s * SecPerMinute

Init ==
    /\ pending = {}
    /\ armed = {}
    /\ now \in Nat

\* A meeting is stored; it arms the clock exactly when it comes first.
Store(s) ==
    /\ pending' = pending \cup {s}
    /\ armed' = IF s \in Earliest(pending') THEN {s} ELSE armed
    /\ UNCHANGED now

\* A pending meeting is cancelled; the next one takes its place.
Cancel(s) ==
    /\ s \in pending
    /\ pending' = pending \ {s}
    /\ armed' = IF s \in Earliest(pending) THEN Earliest(pending') ELSE armed
    /\ UNCHANGED now

\* A second passes in which nothing is due.
Pass ==
    /\ now' = now + 1
    /\ \A s \in armed : now' # Due(s)
    /\ UNCHANGED <<pending, armed>>

\* A second passes and the armed schedule rings.  The clock may then be armed
\* for the earliest schedule left, and for no other.
Ring ==
    /\ now' = now + 1
    /\ \E s \in armed :
        /\ now' = Due(s)
        /\ s \in Earliest(pending)
        /\ pending' = pending \ {s}
    /\ armed' \in {{}, Earliest(pending')}

\* The clock is set.
Adjust ==
    /\ now' \in Nat
    /\ UNCHANGED <<pending, armed>>

Next ==
    \/ \E s \in Schedule : Store(s) \/ Cancel(s)
    \/ Pass
    \/ Ring
    \/ Adjust

Spec == Init /\ [][Next]_book
=============================================================================
