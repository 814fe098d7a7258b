-------------------------------- MODULE Server --------------------------------
(***************************************************************************)
(* The server of the Dispatcher: it binds to its port and gives every      *)
(* clock that registers an account and a thread.  The thread is handed the *)
(* address of the local variable gca, not its value: it serves whatever    *)
(* account gca points to when it first runs.                               *)
(* Sockets and clocks are external.  A clock that registers again is, to   *)
(* the server, another one.                                                *)
(***************************************************************************)
EXTENDS Integers, Sequences

CONSTANTS
    Registrations  \* bound: how many accounts are made

ASSUME ServerAssumption == Registrations \in Nat

VARIABLES
    server,   \* "off", "listening" or "stopped"
    gca,      \* the account that the local variable points to, 0 before the first
    thread    \* per account, the thread made for it: the account it serves, and
              \* whether it has started and whether it runs

serverVars == <<server, gca, thread>>

\* What trying an address can come to.
Attempt == {"no socket", "no option", "in use", "free"}

\* The loop over the addresses: to the first that is free, unless an option fails.
Binds(addresses) ==
    \E i \in DOMAIN addresses :
        /\ addresses[i] = "free"
        /\ \A j \in 1 .. i - 1 : addresses[j] \in {"no socket", "in use"}

\* main, up to the first accept; the rest of it can fail as well.
Start ==
    /\ server = "off"
    /\ \E n \in 0 .. 2 : \E addresses \in [1 .. n -> Attempt], listens \in BOOLEAN :
        server' = IF Binds(addresses) /\ listens THEN "listening" ELSE "stopped"
    /\ UNCHANGED <<gca, thread>>

Stopped == [i \in DOMAIN thread |-> [thread[i] EXCEPT !.runs = FALSE]]

\* exit, or a crash, ends every thread.
Exit ==
    /\ server' = "stopped"
    /\ thread' = Stopped
    /\ UNCHANGED gca

\* Mutant of Register: the thread is made before gca is assigned.
RegisterLate ==
    /\ server = "listening"
    /\ Len(thread) < Registrations
    /\ gca' = Len(thread)
    /\ thread' = Append(thread, [serves |-> 0, started |-> FALSE, runs |-> TRUE])
    /\ UNCHANGED server

\* accept, recv, the new account and its thread.
Register ==
    /\ server = "listening"
    /\ Len(thread) < Registrations
    /\ gca' = Len(thread) + 1
    /\ thread' = Append(thread, [serves |-> 0, started |-> FALSE, runs |-> TRUE])
    /\ UNCHANGED server

\* recv fails, the user or the password is missing (strdup(NULL)), or the
\* constructor of the account cannot reach the clock: the program ends.
RegistrationFails ==
    /\ server = "listening"
    /\ Exit

\* threadfunc reads the account through the pointer.
ReadAccount(i) ==
    /\ thread[i].runs /\ ~thread[i].started
    /\ thread' = [thread EXCEPT ![i].started = TRUE, ![i].serves = gca]
    /\ UNCHANGED <<server, gca>>

\* action does not return 1.
EndOfThread(i) ==
    /\ thread[i].runs /\ thread[i].started
    /\ thread' = [thread EXCEPT ![i].runs = FALSE]
    /\ UNCHANGED <<server, gca>>

ServerInit == server = "off" /\ gca = 0 /\ thread = <<>>

ServerNext ==
    \/ Start
    \/ Register
    \/ RegistrationFails
    \/ \E i \in DOMAIN thread : ReadAccount(i) \/ EndOfThread(i)

ServerSpec == ServerInit /\ [][ServerNext]_serverVars
-----------------------------------------------------------------------------
(* Properties *)

\* A thread that first runs late may serve a newer account than its own, but
\* never an older one: once all threads have run, the last clock that
\* registered is served, whichever other was lost.
NewestServed ==
    /\ \A i \in DOMAIN thread : thread[i].started => thread[i].serves \in i .. Len(thread)
    /\ thread # <<>> /\ (\A i \in DOMAIN thread : thread[i].started) =>
           \E i \in DOMAIN thread : thread[i].serves = Len(thread)
=============================================================================
