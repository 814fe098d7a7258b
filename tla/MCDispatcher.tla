---------------------------- MODULE MCDispatcher ----------------------------
(* Small instances of Dispatcher for TLC. *)
EXTENDS AlarmService, TLC

CONSTANTS e1, e2

TwoEvents == {e1, e2}
SymmetryOfTwo == Permutations(TwoEvents)

MCStart == {1, 2}

\* One event can start after time has stopped.
LateStart == {2, 4}

Env(fetch, connection, time, first, apart, n) ==
    [calendar |-> fetch, network |-> connection, ntp |-> time, count |-> first, distinct |-> apart, changes |-> n]

\* Nothing fails and num_send is as every build hopes, with the clock or without it;
\* or calendar and network fail, or network and NTP, and num_send is as the memory left
\* it, beyond the value that sendEvents takes for full.
WithClock     == {Env(FALSE, FALSE, FALSE, 0, TRUE, 1)}
MCEnvironment ==
    WithClock \cup {Env(FALSE, FALSE, FALSE, 0, FALSE, 2)}
              \cup {Env(TRUE, TRUE, FALSE, MaxSend + 1, FALSE, 1),
                    Env(FALSE, TRUE, TRUE, MaxSend + 1, FALSE, 0)}

\* A fetch fails.
FetchFails == {Env(TRUE, FALSE, FALSE, 0, FALSE, 2)}

\* Events that may start at once are for the Dispatcher alone.
MCAccount == IF env.distinct THEN AccountTurn ELSE Account /\ UNCHANGED <<clockVars, missed>>
MCMinute  == IF env.distinct THEN Minute ELSE Tick /\ UNCHANGED <<clockVars, missed>>
MCNext    == MCAccount \/ MCMinute \/ CalendarChanges \/ (TimeStops /\ UNCHANGED <<clockVars, missed>>)

MCSpec == ServiceInit /\ [][MCNext]_serviceVars /\ WF_serviceVars(MCAccount) /\ WF_serviceVars(MCMinute)
=============================================================================
