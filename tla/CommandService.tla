--------------------------- MODULE CommandService ---------------------------
(* What the clock's command port promises the Dispatcher: a command is carried *)
(* out at most once, whole and as it was sent, and only with the password.     *)
EXTENDS Sequences, SequencesExt

CONSTANTS
    Client,   \* the Dispatcher's connections, one command each
    Good,     \* the clients that know the password
    Whole(_)  \* the command a client sends

VARIABLES
    executed,  \* the commands carried out, oldest first
    refused    \* the clients told off for a wrong password

serviceVars == <<executed, refused>>

ServiceInit == executed = <<>> /\ refused = {}

Execute(c) ==
    /\ c \in Good
    /\ ~Contains(executed, Whole(c))
    /\ executed' = Append(executed, Whole(c))
    /\ UNCHANGED refused

Refuse(c) ==
    /\ c \notin Good
    /\ refused' = refused \cup {c}
    /\ UNCHANGED executed

ServiceNext == \E c \in Client : Execute(c) \/ Refuse(c)

Service == ServiceInit /\ [][ServiceNext]_serviceVars
=============================================================================
