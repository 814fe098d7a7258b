----------------------------- MODULE Dispatcher -----------------------------
(***************************************************************************)
(* One account of the Dispatcher: the GCAccount object and the thread that *)
(* keeps the clock in step with a Google calendar.  The constructor sends  *)
(* the time and every event ahead; then, for ever, the thread sleeps,      *)
(* drops the events that are over, fetches what changed in the calendar    *)
(* since the last time, and sends deletions and new events.                *)
(*                                                                         *)
(* The calendar is external: users change it at any moment, and a fetch    *)
(* takes a snapshot of it.  Every command is a connection of its own to    *)
(* the clock; out is the command that the last step put on the wire.       *)
(* num_events and the texts of the events are left out: nothing reads them.*)
(***************************************************************************)
EXTENDS Integers, FiniteSets, SequencesExt

CONSTANTS
    Event,          \* the ids of the calendar's events
    Start,          \* the times events can start at
    MaxSend,        \* MAX_SEND_EVENTS
    Environment,    \* the environments: what may fail (a fetch of the calendar, a
                    \* connection to the clock, all NTP servers), what num_send,
                    \* never initialised, holds at first, whether no two events of
                    \* the calendar start at once, and, a bound, how often it changes
    LastTime        \* bound: when time stops

ASSUME DispatcherAssumption ==
    /\ IsFiniteSet(Event)
    /\ Start \subseteq Nat
    /\ MaxSend \in Nat \ {0}
    /\ Environment \subseteq [calendar : BOOLEAN, network : BOOLEAN, ntp : BOOLEAN,
                             count : Int, distinct : BOOLEAN, changes : Nat]
    /\ LastTime \in Nat

VARIABLES
    env,        \* the environment of this behaviour
    now,        \* the time, of the NTP servers and of the operating system
    calendar,   \* external: per event its start, whether it is there and
                \* titled as an alarm, and when it was changed last
    changes,    \* how often the calendar changed
    pc,         \* where the account is
    ready,      \* its constructor has returned
    events,     \* the list of events, each with its send flag
    num_send,
    timestamp,  \* the time of the last update
    tmit,       \* the NTP time read for this round, -1 if no server answered
    local,      \* timestampLOCAL: the time events are compared with
    next,       \* the index of the loop of deleteOldEvents
    fetched,    \* the events of the snapshot that are not merged yet
    out         \* the command sent by the last step

outside == <<env, now, calendar, changes>>
account == <<pc, ready, events, num_send, timestamp, tmit, local, next, fetched>>
vars    == <<outside, account, out>>

Entry   == [id : Event, start : Start, sent : BOOLEAN]
Item    == [id : Event, start : Start, live : BOOLEAN]
Command == [cmd : {"M", "D"}, at : Start] \cup [cmd : {"S"}, at : 0 .. LastTime]
Silence == [cmd |-> "none", at |-> 0]

\* What ntpdate returns: -1 if no server answers.
ntpdate == {now} \cup {t \in {-1} : env.ntp}

\* Mutant of Time: the answer of ntpdate is not looked at.
TimeOfNtp(t) == t

\* get_timestamp_UTC: without an NTP time, the operating system's at the moment.
Time(t) == IF t = -1 THEN now ELSE t

SentIn(list) == {i \in DOMAIN list : list[i].sent}
-----------------------------------------------------------------------------
(* The list of events *)

\* Mutant of addEvent: always at the end.
addEventAtEnd(list, x) == Append(list, [id |-> x.id, start |-> x.start, sent |-> FALSE])

\* addEvent: before the first event that starts later.
addEvent(list, x) ==
    LET later == SelectInSeq(list, LAMBDA e : x.start < e.start)
        entry == [id |-> x.id, start |-> x.start, sent |-> FALSE]
    IN  IF later = 0 THEN Append(list, entry) ELSE InsertAt(list, later, entry)

\* The event of a snapshot belongs into the list.
Wanted(x) == x.live /\ x.start >= local
-----------------------------------------------------------------------------
(* send_packet: a connection that is made takes the command *)

Send(c)  == out' = c
SendFails == env.network /\ out' = Silence

send_delete_event(e) == Send([cmd |-> "D", at |-> e.start])
send_new_event(e)    == Send([cmd |-> "M", at |-> e.start])
-----------------------------------------------------------------------------
(* The constructor *)

ReadTime ==
    /\ pc = "start"
    /\ tmit' \in ntpdate
    /\ timestamp' = Time(tmit')
    /\ pc' = "time"
    /\ out' = Silence
    /\ UNCHANGED <<outside, ready, events, num_send, local, next, fetched>>

send_time ==
    /\ pc = "time"
    /\ local' = Time(tmit)
    /\ \/ Send([cmd |-> "S", at |-> Time(tmit)]) /\ pc' = "fetch"
       \/ SendFails /\ pc' = "stopped"
    /\ UNCHANGED <<outside, ready, events, num_send, timestamp, tmit, next, fetched>>

\* gcal_get_events and gcal_get_updated_events: the events changed since then.
Snapshot(since) ==
    {[id |-> e, start |-> calendar[e].start, live |-> calendar[e].live] :
        e \in {f \in Event : calendar[f].changed >= since}}

\* A failed fetch leaves an empty array; its result is only printed.
Fetch(since) ==
    /\ \/ fetched' = Snapshot(since)
       \/ env.calendar /\ fetched' = {}
    /\ pc' = "merge"

getAllEvents ==
    /\ pc = "fetch" /\ ~ready
    /\ Fetch(0)
    /\ out' = Silence
    /\ UNCHANGED <<outside, ready, events, num_send, timestamp, tmit, local, next>>
-----------------------------------------------------------------------------
(* The thread *)

\* SLEEP_TIME has passed.
action ==
    /\ pc = "sleep"
    /\ now > local
    /\ tmit' \in ntpdate
    /\ local' = Time(tmit')
    /\ pc' = "clean"
    /\ next' = 1
    /\ out' = Silence
    /\ UNCHANGED <<outside, ready, events, num_send, timestamp, fetched>>

\* Mutant of deleteOldEvents: the count is not corrected.
deleteOldEventsUncounted ==
    /\ pc = "clean"
    /\ next \in DOMAIN events
    /\ events' = IF events[next].start < local THEN RemoveAt(events, next) ELSE events
    /\ next' = next + 1
    /\ out' = Silence
    /\ UNCHANGED <<outside, pc, ready, num_send, timestamp, tmit, local, fetched>>

\* One round of the loop of deleteOldEvents: it erases an event that is over and goes
\* on with the next index, so that the event after an erased one is kept unseen.
deleteOldEvents ==
    /\ pc = "clean"
    /\ next \in DOMAIN events
    /\ IF events[next].start < local
       THEN /\ events' = RemoveAt(events, next)
            /\ num_send' = IF events[next].sent THEN num_send - 1 ELSE num_send
       ELSE UNCHANGED <<events, num_send>>
    /\ next' = next + 1
    /\ out' = Silence
    /\ UNCHANGED <<outside, pc, ready, timestamp, tmit, local, fetched>>

\* Mutant of OldEventsDeleted: nothing is fetched while the clock has all it may have.
OldEventsDeletedIdleWhenFull ==
    /\ pc = "clean"
    /\ next \notin DOMAIN events
    /\ local' = Time(tmit)
    /\ pc' = IF num_send = MaxSend THEN "send" ELSE "fetch"
    /\ next' = 0
    /\ out' = Silence
    /\ UNCHANGED <<outside, ready, events, num_send, timestamp, tmit, fetched>>

\* The loop ends, and getNewEvents begins: it takes the time again.
OldEventsDeleted ==
    /\ pc = "clean"
    /\ next \notin DOMAIN events
    /\ local' = Time(tmit)
    /\ pc' = "fetch"
    /\ next' = 0
    /\ out' = Silence
    /\ UNCHANGED <<outside, ready, events, num_send, timestamp, tmit, fetched>>

\* When libgcal cannot be set up the thread ends.
getNewEvents ==
    /\ pc = "fetch" /\ ready
    /\ \/ Fetch(timestamp)
       \/ env.calendar /\ pc' = "stopped" /\ UNCHANGED fetched
    /\ out' = Silence
    /\ UNCHANGED <<outside, ready, events, num_send, timestamp, tmit, local, next>>

\* Mutant of remove_event_id: an event that was not sent stays in the list.
remove_event_idOfSent(id, rest) ==
    LET i == SelectInSeq(events, LAMBDA e : e.id = id) IN
    \/ /\ i # 0 => ~events[i].sent
       /\ rest = events
       /\ out' = Silence
       /\ UNCHANGED num_send
    \/ /\ i # 0 /\ events[i].sent
       /\ num_send' = num_send - 1
       /\ \/ send_delete_event(events[i]) /\ rest = RemoveAt(events, i)
          \/ SendFails /\ rest = events

\* Mutant of remove_event_id: the clock is not told.
remove_event_idQuietly(id, rest) ==
    LET i == SelectInSeq(events, LAMBDA e : e.id = id) IN
    /\ rest = IF i = 0 THEN events ELSE RemoveAt(events, i)
    /\ num_send' = IF i # 0 /\ events[i].sent THEN num_send - 1 ELSE num_send
    /\ out' = Silence

\* remove_event_id(id): the list left in rest.  A failed deletion leaves the
\* event in the list, and its result is not looked at.
remove_event_id(id, rest) ==
    LET i == SelectInSeq(events, LAMBDA e : e.id = id) IN
    \/ /\ i = 0
       /\ rest = events
       /\ out' = Silence
       /\ UNCHANGED num_send
    \/ /\ i # 0 /\ ~events[i].sent
       /\ rest = RemoveAt(events, i)
       /\ out' = Silence
       /\ UNCHANGED num_send
    \/ /\ i # 0 /\ events[i].sent
       /\ num_send' = num_send - 1
       /\ \/ send_delete_event(events[i]) /\ rest = RemoveAt(events, i)
          \/ SendFails /\ rest = events

\* One round of the loop over the snapshot.  In the constructor the list holds
\* no event of the snapshot yet, and nothing is removed.
Merge(x) ==
    /\ pc = "merge"
    /\ x \in fetched
    /\ fetched' = fetched \ {x}
    /\ \E rest \in {events} \cup {RemoveAt(events, i) : i \in DOMAIN events} :
        /\ remove_event_id(x.id, rest)
        /\ events' = IF Wanted(x) THEN addEvent(rest, x) ELSE rest
    /\ UNCHANGED <<outside, pc, ready, timestamp, tmit, local, next>>

\* Mutant of Merged: the time of the update is read after the fetch.
MergedLate ==
    /\ pc = "merge"
    /\ fetched = {}
    /\ timestamp' = now
    /\ pc' = "send"
    /\ out' = Silence
    /\ UNCHANGED <<outside, ready, events, num_send, tmit, local, next, fetched>>

\* The update counts as made at the time read before the fetch, but the first
\* one, without an NTP time, at the time after it.
Merged ==
    /\ pc = "merge"
    /\ fetched = {}
    /\ timestamp' = IF ready THEN local ELSE Time(tmit)
    /\ pc' = "send"
    /\ out' = Silence
    /\ UNCHANGED <<outside, ready, events, num_send, tmit, local, next, fetched>>

\* The first event of the list that was not sent, 0 if there is none.
Unsent == SelectInSeq(events, LAMBDA e : ~e.sent)

\* One round of the loop of sendEvents that sends an event.
sendEvent ==
    /\ pc = "send"
    /\ num_send # MaxSend
    /\ Unsent # 0
    /\ \/ /\ send_new_event(events[Unsent])
          /\ events' = [events EXCEPT ![Unsent].sent = TRUE]
          /\ num_send' = num_send + 1
          /\ UNCHANGED pc
       \/ /\ SendFails
          /\ pc' = "stopped"
          /\ UNCHANGED <<events, num_send>>
    /\ UNCHANGED <<outside, ready, timestamp, tmit, local, next, fetched>>

sendEventsReturns ==
    /\ pc = "send"
    /\ num_send = MaxSend \/ Unsent = 0
    /\ ready' = TRUE
    /\ pc' = "sleep"
    /\ out' = Silence
    /\ UNCHANGED <<outside, events, num_send, timestamp, tmit, local, next, fetched>>
-----------------------------------------------------------------------------
(* The outside world *)

\* What the users keep to.
Apart(c) ==
    env.distinct => \A e, f \in Event : c[e].live /\ c[f].live /\ c[e].start = c[f].start => e = f

\* A user adds, moves, retitles or deletes an event.  Bound: not when time has
\* stopped, the thread would not wake up any more.
Change(e, start, live) ==
    /\ now < LastTime
    /\ changes < env.changes
    /\ changes' = changes + 1
    /\ calendar' = [calendar EXCEPT ![e] = [start |-> start, live |-> live, changed |-> now]]
    /\ Apart(calendar')
    /\ out' = Silence
    /\ UNCHANGED <<env, now, account>>

Tick ==
    /\ now < LastTime
    /\ now' = now + 1
    /\ out' = Silence
    /\ UNCHANGED <<env, calendar, changes, account>>
-----------------------------------------------------------------------------
Init ==
    /\ env \in Environment
    /\ now = 0
    /\ calendar \in [Event -> [start : Start, live : BOOLEAN, changed : {0}]]
    /\ Apart(calendar)
    /\ changes = 0
    /\ pc = "start"
    /\ ready = FALSE
    /\ events = <<>>
    /\ num_send = env.count
    /\ timestamp = 0
    /\ tmit = -1
    /\ local = 0
    /\ next = 0
    /\ fetched = {}
    /\ out = Silence

Account ==
    \/ ReadTime \/ send_time \/ getAllEvents
    \/ action \/ deleteOldEvents \/ OldEventsDeleted \/ getNewEvents
    \/ \E x \in fetched : Merge(x)
    \/ Merged \/ sendEvent \/ sendEventsReturns

Outside ==
    \/ \E e \in Event, start \in Start, live \in BOOLEAN : Change(e, start, live)
    \/ Tick

\* Bound: a thread that sleeps when time stops sleeps on, and one that has ended
\* does so anyway.
TimeStops ==
    /\ now = LastTime
    /\ pc = "stopped" \/ (pc = "sleep" /\ local = now)
    /\ UNCHANGED vars

Next == Account \/ Outside \/ TimeStops

Spec == Init /\ [][Next]_vars

\* The thread is scheduled, and time passes.
FairSpec == Spec /\ WF_vars(Account) /\ WF_vars(Tick)
-----------------------------------------------------------------------------
(* Properties *)

\* Every variable has its type.
TypeOK ==
    /\ env \in Environment
    /\ now \in 0 .. LastTime /\ changes \in 0 .. env.changes
    /\ calendar \in [Event -> [start : Start, live : BOOLEAN, changed : 0 .. now]]
    /\ pc \in {"start", "time", "clean", "fetch", "merge", "send", "sleep", "stopped"}
    /\ ready \in BOOLEAN
    /\ events \in Seq(Entry)
    /\ num_send \in Int
    /\ timestamp \in 0 .. now /\ tmit \in -1 .. now /\ local \in 0 .. now /\ next \in Nat
    /\ fetched \in SUBSET Item
    /\ out \in Command \cup {Silence}

\* The list is in the order of the starts, whatever fails: sendEvents sends
\* the next events first only because of it.
ListSorted ==
    \A i, j \in DOMAIN events : i < j => events[i].start <= events[j].start

\* No event is in the list twice, however often it changes, if every deletion
\* gets through.
OnePerEvent ==
    ~env.network => \A i, j \in DOMAIN events : events[i].id = events[j].id => i = j

\* The list is a list of events: each of them once, in the order they start.
ListInv == TypeOK /\ ListSorted /\ OnePerEvent

\* num_send counts the events of the list the clock was sent, and there are
\* never more of them than MAX_SEND_EVENTS, if the count began with zero and every
\* command gets through.
CountsSent ==
    ~env.network /\ env.count = 0 =>
        /\ num_send = Cardinality(SentIn(events))
        /\ num_send <= MaxSend

Reliable == ~env.calendar /\ ~env.network /\ ~env.ntp

\* The list and the calendar agree on an event that is still to come.
Agree(e) ==
    \A s \in Start :
        LET listed == \E i \in DOMAIN events : events[i].id = e /\ events[i].start = s
            wanted == calendar[e].live /\ calendar[e].start = s
        IN  /\ listed => wanted
            /\ wanted /\ s >= timestamp => listed

\* When nothing fails, nothing the calendar changed before the last update was
\* missed: the list holds each event that is still wanted with its present start,
\* and no event that is gone.  (Without NTP the constructor reads the time of the
\* first update after its fetch, and a change between the two is missed.)
Synced ==
    pc = "sleep" /\ Reliable =>
        \A e \in Event : calendar[e].changed < timestamp => Agree(e)

\* When nothing fails a change of the calendar reaches the list, unless the event
\* is changed again or starts first: no change falls between two updates.  (Time stops before
\* some events start; those cannot be excused by their start.)
ChangeArrives ==
    \A e \in Event, s \in Start :
        (Reliable /\ calendar[e].live /\ calendar[e].start = s)
            ~> \/ ~calendar[e].live \/ calendar[e].start # s \/ now > s
               \/ \E i \in DOMAIN events : events[i].id = e /\ events[i].start = s
-----------------------------------------------------------------------------
(* What the comments say and the code does not do *)

\* GCAccount.cpp:311, "Getting all the changes (add/delete/Edit) that hapend in
\* the google Account since our last connection".
GetsAllChanges ==
    pc = "sleep" => \A e \in Event : calendar[e].changed < timestamp => Agree(e)
=============================================================================
