-------------------------- MODULE AlarmClockProofs --------------------------
(***************************************************************************)
(* Theorems about AlarmClock, for every size of the array, every set of    *)
(* schedules, every length of a minute and every environment, unless the   *)
(* theorem names StoredOnly.                                               *)
(***************************************************************************)
EXTENDS AlarmClock, NaturalsInduction, WellFoundedInduction, TLAPS

\* What the helpers on the array return: an array again.
LEMMA HelpersTyped ==
    ASSUME TypeOK
    PROVE  /\ \A s \in Schedule, i \in Slot : Inserted(s, i) \in [Slot -> Schedule \cup {None}]
           /\ \A i \in Slot : Removed(i) \in [Slot -> Schedule \cup {None}]
  <1>1. ASSUME NEW s \in Schedule, NEW i \in Slot
        PROVE  Inserted(s, i) \in [Slot -> Schedule \cup {None}]
    <2>1. ASSUME NEW j \in Slot
          PROVE  Inserted(s, i)[j] \in Schedule \cup {None}
      <3>1. CASE j = i
        BY <3>1, <2>1, ClockAssumption DEF Inserted, Slot
      <3>2. CASE j > i /\ j <= numberOfSchedules
        <4>1. j - 1 \in Slot
          BY <3>2, ClockAssumption DEF Slot
        <4>2. QED
          BY <3>2, <4>1, <2>1, ClockAssumption DEF Inserted, TypeOK, Slot
      <3>3. CASE j # i /\ ~(j > i /\ j <= numberOfSchedules)
        BY <3>3, <2>1 DEF Inserted, TypeOK
      <3>4. QED
        BY <3>1, <3>2, <3>3
    <2>2. QED
      BY <2>1 DEF Inserted
  <1>2. ASSUME NEW i \in Slot
        PROVE  Removed(i) \in [Slot -> Schedule \cup {None}]
    <2>1. ASSUME NEW j \in Slot
          PROVE  Removed(i)[j] \in Schedule \cup {None}
      <3>1. CASE j >= i /\ j < numberOfSchedules - 1
        <4>1. j + 1 \in Slot
          BY <3>1, ClockAssumption DEF Slot, TypeOK
        <4>2. QED
          BY <3>1, <4>1 DEF Removed, TypeOK
      <3>2. CASE ~(j >= i /\ j < numberOfSchedules - 1)
        BY <3>2 DEF Removed, TypeOK
      <3>3. QED
        BY <3>1, <3>2
    <2>2. QED
      BY <2>1 DEF Removed
  <1>3. QED
    BY <1>1, <1>2

\* Whatever AddSchedule returns, it leaves an array and a count that fits it.
LEMMA AddTyped ==
    ASSUME TypeOK, NEW s \in Schedule, NEW r \in Slot \cup {Full}, AddSchedule(s, r)
    PROVE  /\ scheduleQ' \in [Slot -> Schedule \cup {None}]
           /\ numberOfSchedules' \in Int /\ numberOfSchedules' <= Size
  <1>1. CASE numberOfSchedules = Size
    BY <1>1, ClockAssumption DEF AddSchedule, queue, TypeOK, Slot
  <1>2. CASE numberOfSchedules \in Slot
    <2>1. StopsAt(s, r) /\ r \in Slot
      BY <1>2, ClockAssumption DEF AddSchedule, StopsAt, Slot
    <2>2. CASE UNCHANGED queue
      BY <2>2 DEF queue, TypeOK
    <2>3. CASE scheduleQ' = Inserted(s, r) /\ numberOfSchedules' = numberOfSchedules + 1
      BY <2>1, <2>3, <1>2, HelpersTyped, ClockAssumption DEF Slot, TypeOK
    <2>4. QED
      BY <1>2, <2>2, <2>3, ClockAssumption DEF AddSchedule, Slot
  <1>3. QED
    BY <1>1, <1>2 DEF AddSchedule

\* So does deleting a slot; the alarm it may set is one of the array.
LEMMA DeleteTyped ==
    ASSUME TypeOK, NEW i \in Slot, DeleteSlot(i)
    PROVE  /\ scheduleQ' \in [Slot -> Schedule \cup {None}]
           /\ numberOfSchedules' \in Int /\ numberOfSchedules' <= Size
           /\ scheduleQ'[0] \in Schedule \cup {None}
  <1>1. 0 \in Slot
    BY ClockAssumption DEF Slot
  <1>2. scheduleQ' \in [Slot -> Schedule \cup {None}]
    BY HelpersTyped DEF DeleteSlot
  <1>3. numberOfSchedules' \in Int /\ numberOfSchedules' <= Size
    BY ClockAssumption DEF DeleteSlot, TypeOK
  <1>4. QED
    BY <1>1, <1>2, <1>3

\* An interrupt of the RTC leaves every variable its type.
LEMMA RtcTyped ==
    ASSUME TypeOK, rtc_func, UNCHANGED overrun
    PROVE  TypeOK'
  <1>0. 0 \in Slot
    BY ClockAssumption DEF Slot
  <1>1. /\ scheduleQ' \in [Slot -> Schedule \cup {None}]
        /\ numberOfSchedules' \in Int /\ numberOfSchedules' <= Size
        /\ scheduleQ'[0] \in Schedule \cup {None}
        /\ alarmOn' \in BOOLEAN /\ al' \in Schedule \cup {None}
    <2>1. CASE Rings
      BY <2>1, <1>0, DeleteTyped
         DEF rtc_func, HandleAlarm, ArmAfterRing, RTC_SET_ALARM, RTC_DISABLE_ALARM, TypeOK
    <2>2. CASE ~Rings
      BY <2>2, <1>0 DEF rtc_func, queue, alarm, TypeOK
    <2>3. QED
      BY <2>1, <2>2
  <1>2. buzzer' \in BOOLEAN /\ buzzer_counter' \in 0 .. BuzzerTime - 1
    <2>1. Buzz(Rings)
      BY DEF rtc_func
    <2>2. buzzer' = FALSE \/ buzzer' = (Rings \/ buzzer)
      BY <2>1, Zenon DEF Buzz
    <2>3. \/ buzzer_counter' = 0
          \/ buzzer_counter # 0 /\ buzzer_counter' = buzzer_counter - 1
          \/ buzzer_counter' = BuzzerTime - 1
      BY <2>1, Zenon DEF Buzz
    <2>4. buzzer_counter' \in 0 .. BuzzerTime - 1
      BY <2>3, ClockAssumption DEF TypeOK
    <2>5. QED
      BY <2>2, <2>4, Zenon
  <1>3. /\ display_counter' \in 0 .. DisplayTime
        /\ isShow' \in BOOLEAN
        /\ screen' \in Page
    <2>1. Display
      BY DEF rtc_func
    <2>2. NextAlarmPage \in Page
      <3>1. CASE numberOfSchedules' # 0
        BY <3>1, <1>1 DEF NextAlarmPage, Page
      <3>2. CASE numberOfSchedules' = 0
        BY <3>2 DEF NextAlarmPage, Page
      <3>3. QED
        BY <3>1, <3>2
    <2>3. [page |-> "time", of |-> None] \in Page
      BY DEF Page
    <2>4. CASE display_counter = 0
      BY <2>1, <2>3, <2>4 DEF Display, TypeOK
    <2>5. CASE display_counter # 0 /\ ~isShow
      BY <2>1, <2>2, <2>5 DEF Display, TypeOK
    <2>6. CASE display_counter # 0 /\ isShow
      <3>1. display_counter' = display_counter - 1 /\ UNCHANGED <<screen, isShow>>
        BY <2>1, <2>6 DEF Display
      <3>2. QED
        BY <2>6, <3>1, ClockAssumption DEF TypeOK
    <2>7. QED
      BY <2>4, <2>5, <2>6
  <1>4. clock' \in Nat /\ running' \in BOOLEAN
    BY DEF rtc_func, TypeOK
  <1>5. QED
    BY <1>1, <1>2, <1>3, <1>4 DEF TypeOK

\* So does one of the button.
LEMMA ButtonTyped ==
    ASSUME TypeOK, button_intterupt, UNCHANGED overrun
    PROVE  TypeOK'
  <1>1. UNCHANGED <<queue, alarm, clock, running, buzzer_counter, screen, overrun>>
    BY DEF button_intterupt
  <1>2. display_counter' \in 0 .. DisplayTime
    BY ClockAssumption DEF button_intterupt
  <1>3. isShow' \in BOOLEAN /\ buzzer' \in BOOLEAN
    BY Zenon DEF button_intterupt
  <1>4. QED
    BY <1>1, <1>2, <1>3 DEF TypeOK, queue, alarm
-----------------------------------------------------------------------------
\* Every variable keeps its type, in every environment: in particular the
\* count never exceeds the size of the array.
THEOREM TypeCorrect == Spec => []TypeOK
<1>1. Init => TypeOK
  <2> SUFFICES ASSUME Init PROVE TypeOK
    OBVIOUS
  <2>1. /\ scheduleQ \in [Slot -> Schedule \cup {None}]
        /\ numberOfSchedules \in Int /\ numberOfSchedules <= Size
        /\ al \in Schedule \cup {None}
        /\ clock \in Nat
        /\ buzzer_counter \in 0 .. BuzzerTime - 1
        /\ display_counter \in 0 .. DisplayTime
    BY ClockAssumption DEF Init
  <2>2. {alarmOn, running, buzzer, isShow, overrun} \subseteq BOOLEAN
    BY Zenon DEF Init
  <2>3. screen \in Page
    BY DEF Init, Page
  <2>4. QED
    BY <2>1, <2>2, <2>3 DEF TypeOK
<1>2. TypeOK /\ [Next]_vars => TypeOK'
  <2> SUFFICES ASSUME TypeOK, [Next]_vars
               PROVE  TypeOK'
    OBVIOUS
  <2>0. 0 \in Slot
    BY ClockAssumption DEF Slot
  <2>1. ASSUME NEW t \in SetTo, SetClock(t), UNCHANGED overrun
        PROVE  TypeOK'
    BY <2>1, ClockAssumption DEF SetClock, TypeOK, queue, alarm, panel
  <2>2. ASSUME NEW s \in Schedule, SetMeeting(s), UNCHANGED overrun
        PROVE  TypeOK'
    <3>1. PICK r \in Slot \cup {Full} : AddSchedule(s, r)
      BY <2>2 DEF SetMeeting
    <3>2. alarmOn' \in BOOLEAN /\ al' \in Schedule \cup {None}
      BY <2>2 DEF SetMeeting, RTC_SET_ALARM, alarm, TypeOK
    <3>3. QED
      BY <2>2, <3>1, <3>2, AddTyped DEF SetMeeting, TypeOK, panel
  <2>3. ASSUME NEW s \in Schedule, DeleteMeeting(s), UNCHANGED overrun
        PROVE  TypeOK'
    <3>1. CASE UNCHANGED <<queue, alarm>>
      BY <2>3, <3>1 DEF DeleteMeeting, TypeOK, queue, alarm, panel
    <3>2. CASE \E i \in Slot : /\ DeleteSlot(i)
                               /\ IF i = 0 THEN ArmAfterDelete ELSE UNCHANGED alarm
      <4>1. PICK i \in Slot : /\ DeleteSlot(i)
                              /\ IF i = 0 THEN ArmAfterDelete ELSE UNCHANGED alarm
        BY <3>2
      <4>2. alarmOn' \in BOOLEAN /\ al' \in Schedule \cup {None}
        BY <4>1, DeleteTyped DEF ArmAfterDelete, RTC_SET_ALARM, RTC_DISABLE_ALARM,
                                 alarm, TypeOK
      <4>3. QED
        BY <2>3, <4>1, <4>2, DeleteTyped DEF DeleteMeeting, TypeOK, panel
    <3>3. QED
      BY <2>3, <3>1, <3>2 DEF DeleteMeeting
  <2>4. ASSUME NEW s \in Schedule, SetMeetingOverrun(s)
        PROVE  TypeOK'
    BY <2>4 DEF SetMeetingOverrun, TypeOK, queue, alarm, panel
  <2>5. ASSUME rtc_func, UNCHANGED overrun
        PROVE  TypeOK'
    BY <2>5, RtcTyped
  <2>6. ASSUME button_intterupt, UNCHANGED overrun
        PROVE  TypeOK'
    BY <2>6, ButtonTyped
  <2>7. CASE UNCHANGED vars
    BY <2>7 DEF TypeOK, vars, queue, alarm, panel
  <2>8. QED
    BY <2>1, <2>2, <2>3, <2>4, <2>5, <2>6, <2>7 DEF Next, Command
<1>3. QED
  BY <1>1, <1>2, PTL DEF Spec
-----------------------------------------------------------------------------
\* Insertion at the slot where the search stops keeps the queue ascending.
LEMMA AddSorted ==
    ASSUME TypeOK, QueueSorted,
           NEW s \in Schedule, NEW r \in Slot \cup {Full}, AddSchedule(s, r)
    PROVE  QueueSorted'
  <1>1. CASE UNCHANGED queue
    BY <1>1 DEF queue, QueueSorted
  <1>2. CASE /\ numberOfSchedules \in Slot
             /\ StopsAt(s, r)
             /\ ~(r < numberOfSchedules /\ scheduleQ[r] = s)
             /\ scheduleQ' = Inserted(s, r)
             /\ numberOfSchedules' = numberOfSchedules + 1
    <2> SUFFICES ASSUME NEW i \in 0 .. numberOfSchedules, NEW j \in 0 .. numberOfSchedules, i < j
                 PROVE  scheduleQ'[i] < scheduleQ'[j]
      BY <1>2 DEF QueueSorted, Slot
    <2>1. /\ i \in Slot /\ j \in Slot
          /\ r \in 0 .. numberOfSchedules
          /\ \A k \in 0 .. numberOfSchedules - 1 : scheduleQ[k] \in Nat /\ k \in Slot
      <3>1. /\ i \in Slot /\ j \in Slot
            /\ r \in 0 .. numberOfSchedules
        BY <1>2, ClockAssumption DEF Slot, StopsAt
      <3>2. \A k \in Slot : scheduleQ[k] \in Nat
        <4>1. Schedule \cup {None} \subseteq Nat
          BY ClockAssumption DEF None
        <4>2. QED
          BY <4>1 DEF TypeOK
      <3>3. \A k \in 0 .. numberOfSchedules - 1 : k \in Slot
        BY <1>2, ClockAssumption DEF Slot
      <3>4. QED
        BY <3>1, <3>2, <3>3
    <2>2. \A k \in Slot : scheduleQ'[k] =
            IF k > r /\ k <= numberOfSchedules THEN scheduleQ[k - 1]
            ELSE IF k = r THEN s ELSE scheduleQ[k]
      BY <1>2 DEF Inserted
    <2>3. \A k \in 0 .. numberOfSchedules - 1 :
            IF k < r THEN scheduleQ[k] < s ELSE scheduleQ[r] <= scheduleQ[k] /\ s < scheduleQ[r]
      <3>1. ASSUME NEW k \in 0 .. numberOfSchedules - 1, k >= r
            PROVE  scheduleQ[r] <= scheduleQ[k] /\ s < scheduleQ[r]
        <4>1. r \in 0 .. numberOfSchedules - 1
          BY <2>1, <3>1, <1>2 DEF Slot
        <4>2. s <= scheduleQ[r] /\ scheduleQ[r] # s
          BY <1>2, <4>1 DEF StopsAt
        <4>3. r = k \/ scheduleQ[r] < scheduleQ[k]
          BY <3>1, <4>1, <1>2 DEF QueueSorted, Slot
        <4>4. QED
          BY <2>1, <4>1, <4>2, <4>3, <3>1, ClockAssumption
      <3>2. ASSUME NEW k \in 0 .. numberOfSchedules - 1, k < r
            PROVE  scheduleQ[k] < s
        BY <3>2, <2>1, <1>2, ClockAssumption DEF StopsAt, Slot
      <3>3. QED
        BY <3>1, <3>2, <2>1, <1>2 DEF Slot
    <2>4. numberOfSchedules \in Nat /\ r \in Nat /\ s \in Nat
      BY <1>2, <2>1, ClockAssumption DEF Slot
    <2>5. CASE j < r
      BY <2>1, <2>2, <2>4, <2>5 DEF QueueSorted
    <2>6. CASE j = r
      BY <2>1, <2>2, <2>3, <2>4, <2>6
    <2>7. CASE j > r /\ i > r
      <3>1. scheduleQ'[i] = scheduleQ[i - 1] /\ scheduleQ'[j] = scheduleQ[j - 1]
        BY <2>1, <2>2, <2>4, <2>7
      <3>2. i - 1 \in 0 .. numberOfSchedules - 1 /\ j - 1 \in 0 .. numberOfSchedules - 1 /\ i - 1 < j - 1
        BY <2>1, <2>4, <2>7
      <3>3. QED
        BY <3>1, <3>2 DEF QueueSorted
    <2>8. CASE j > r /\ i = r
      <3>1. scheduleQ'[i] = s /\ scheduleQ'[j] = scheduleQ[j - 1]
        BY <2>1, <2>2, <2>4, <2>8
      <3>2. j - 1 \in 0 .. numberOfSchedules - 1 /\ ~(j - 1 < r)
        BY <2>1, <2>4, <2>8
      <3>3. scheduleQ[r] <= scheduleQ[j - 1] /\ s < scheduleQ[r] /\ r \in 0 .. numberOfSchedules - 1
        BY <3>2, <2>3, <2>1, <2>4
      <3>4. QED
        BY <3>1, <3>2, <3>3, <2>1, <2>4
    <2>9. CASE j > r /\ i < r
      <3>1. scheduleQ'[i] = scheduleQ[i] /\ scheduleQ'[j] = scheduleQ[j - 1]
        BY <2>1, <2>2, <2>4, <2>9
      <3>2. i \in 0 .. numberOfSchedules - 1 /\ j - 1 \in 0 .. numberOfSchedules - 1 /\ i < j - 1
        BY <2>1, <2>4, <2>9
      <3>3. QED
        BY <3>1, <3>2 DEF QueueSorted
    <2>10. QED
      BY <2>1, <2>4, <2>5, <2>6, <2>7, <2>8, <2>9
  <1>3. QED
    BY <1>1, <1>2 DEF AddSchedule

\* Deleting any slot keeps it ascending.
LEMMA DeleteSorted ==
    ASSUME TypeOK, QueueSorted, NEW i \in Slot, DeleteSlot(i)
    PROVE  QueueSorted'
  <1> SUFFICES ASSUME NEW j \in 0 .. numberOfSchedules - 2, NEW k \in 0 .. numberOfSchedules - 2, j < k
               PROVE  scheduleQ'[j] < scheduleQ'[k]
    BY DEF DeleteSlot, QueueSorted, TypeOK
  <1>1. /\ numberOfSchedules \in Int /\ i \in Nat
        /\ j \in Slot /\ k \in Slot
    BY ClockAssumption DEF TypeOK, Slot
  <1>2. \A x \in Slot : scheduleQ'[x] = IF x >= i /\ x < numberOfSchedules - 1
                                       THEN scheduleQ[x + 1] ELSE scheduleQ[x]
    BY DEF DeleteSlot, Removed
  <1>3. CASE k < i
    BY <1>1, <1>2, <1>3 DEF QueueSorted
  <1>4. CASE j < i /\ k >= i
    <2>1. scheduleQ'[j] = scheduleQ[j] /\ scheduleQ'[k] = scheduleQ[k + 1]
      BY <1>1, <1>2, <1>4
    <2>2. j \in 0 .. numberOfSchedules - 1 /\ k + 1 \in 0 .. numberOfSchedules - 1 /\ j < k + 1
      BY <1>1
    <2>3. QED
      BY <2>1, <2>2 DEF QueueSorted
  <1>5. CASE j >= i
    <2>1. scheduleQ'[j] = scheduleQ[j + 1] /\ scheduleQ'[k] = scheduleQ[k + 1]
      BY <1>1, <1>2, <1>5
    <2>2. j + 1 \in 0 .. numberOfSchedules - 1 /\ k + 1 \in 0 .. numberOfSchedules - 1 /\ j + 1 < k + 1
      BY <1>1
    <2>3. QED
      BY <2>1, <2>2 DEF QueueSorted
  <1>6. QED
    BY <1>1, <1>3, <1>4, <1>5

\* The schedules in use are strictly ascending in every environment.
THEOREM Sorted == Spec => []QueueSorted
<1>1. Init => QueueSorted
  BY DEF Init, QueueSorted
<1>2. TypeOK /\ QueueSorted /\ [Next]_vars => QueueSorted'
  <2> SUFFICES ASSUME TypeOK, QueueSorted, [Next]_vars
               PROVE  QueueSorted'
    OBVIOUS
  <2>1. CASE UNCHANGED queue
    BY <2>1 DEF queue, QueueSorted
  <2>2. ASSUME NEW s \in Schedule, SetMeeting(s)
        PROVE  QueueSorted'
    BY <2>2, AddSorted DEF SetMeeting
  <2>3. ASSUME NEW s \in Schedule, DeleteMeeting(s)
        PROVE  QueueSorted'
    BY <2>1, <2>3, DeleteSorted DEF DeleteMeeting
  <2>4. CASE rtc_func
    <3>1. 0 \in Slot
      BY ClockAssumption DEF Slot
    <3>2. QED
      BY <2>1, <2>4, <3>1, DeleteSorted DEF rtc_func, HandleAlarm
  <2>5. QED
    BY <2>1, <2>2, <2>3, <2>4
       DEF Next, Command, SetClock, SetMeetingOverrun, button_intterupt, vars
<1>3. QED
  BY <1>1, <1>2, TypeCorrect, PTL DEF Spec

\* An alarm that is set is set for slot 0, in every environment: no sequence of
\* commands, deletes of unknown meetings included, lets the registers fall
\* behind the queue.
THEOREM FollowsQueue == Spec => []AlarmFollowsQueue
<1>1. Init => AlarmFollowsQueue
  BY DEF Init, AlarmFollowsQueue
<1>2. TypeOK /\ AlarmFollowsQueue /\ [Next]_vars => AlarmFollowsQueue'
  <2> SUFFICES ASSUME TypeOK, AlarmFollowsQueue, [Next]_vars
               PROVE  AlarmFollowsQueue'
    OBVIOUS
  <2>0. 0 \in Slot
    BY ClockAssumption DEF Slot
  <2>1. CASE UNCHANGED <<queue, alarm>>
    BY <2>1 DEF queue, alarm, AlarmFollowsQueue
  <2>2. ASSUME NEW s \in Schedule, SetMeeting(s)
        PROVE  AlarmFollowsQueue'
    <3>1. PICK r \in Slot \cup {Full} :
            /\ AddSchedule(s, r)
            /\ IF r = 0 THEN RTC_SET_ALARM(s) ELSE UNCHANGED alarm
      BY <2>2 DEF SetMeeting
    <3>2. CASE r = 0
      <4>1. alarmOn' /\ al' = s
        BY <3>1, <3>2 DEF RTC_SET_ALARM
      <4>2. scheduleQ'[0] = s
        BY <3>1, <3>2, <2>0, ClockAssumption DEF AddSchedule, Inserted, queue, Full
      <4>3. QED
        BY <4>1, <4>2 DEF AlarmFollowsQueue
    <3>3. CASE r # 0
      <4>1. UNCHANGED alarm
        BY <3>1, <3>3
      <4>2. scheduleQ'[0] = scheduleQ[0]
        <5>1. CASE UNCHANGED queue
          BY <5>1 DEF queue
        <5>2. CASE StopsAt(s, r) /\ numberOfSchedules \in Slot /\ scheduleQ' = Inserted(s, r)
          <6>1. ~(0 > r) /\ ~(0 = r)
            BY <3>3, <5>2, ClockAssumption DEF StopsAt, Slot
          <6>2. QED
            BY <5>2, <6>1, <2>0 DEF Inserted
        <5>3. QED
          BY <3>1, <5>1, <5>2 DEF AddSchedule
      <4>3. QED
        BY <4>1, <4>2 DEF alarm, AlarmFollowsQueue
    <3>4. QED
      BY <3>2, <3>3
  <2>3. ASSUME NEW s \in Schedule, DeleteMeeting(s)
        PROVE  AlarmFollowsQueue'
    <3>1. ASSUME NEW i \in Slot, DeleteSlot(i),
                 IF i = 0 THEN ArmAfterDelete ELSE UNCHANGED alarm
          PROVE  AlarmFollowsQueue'
      <4>1. CASE i = 0
        BY <3>1, <4>1 DEF ArmAfterDelete, RTC_SET_ALARM, RTC_DISABLE_ALARM, AlarmFollowsQueue
      <4>2. CASE i # 0
        <5>1. scheduleQ'[0] = scheduleQ[0]
          BY <3>1, <4>2, <2>0, ClockAssumption DEF DeleteSlot, Removed, Slot
        <5>2. QED
          BY <3>1, <4>2, <5>1 DEF alarm, AlarmFollowsQueue
      <4>3. QED
        BY <4>1, <4>2
    <3>2. QED
      BY <2>1, <2>3, <3>1 DEF DeleteMeeting
  <2>4. CASE rtc_func
    <3>1. CASE Rings
      BY <2>4, <3>1 DEF rtc_func, HandleAlarm, ArmAfterRing, RTC_SET_ALARM,
                        RTC_DISABLE_ALARM, AlarmFollowsQueue
    <3>2. CASE ~Rings
      BY <2>1, <2>4, <3>2 DEF rtc_func
    <3>3. QED
      BY <3>1, <3>2
  <2>5. QED
    BY <2>1, <2>2, <2>3, <2>4
       DEF Next, Command, SetClock, SetMeetingOverrun, button_intterupt, vars
<1>3. QED
  BY <1>1, <1>2, TypeCorrect, PTL DEF Spec

\* In every environment, also one that takes the count below zero: the variables have their
\* types, the schedules in use ascend, and an alarm that is set is set for slot 0.
THEOREM ClockIsSound == Spec => []ClockInv
BY TypeCorrect, Sorted, FollowsQueue, PTL DEF ClockInv

\* A step that deletes no meeting of which the array holds only the remains.
CarefulStep ==
    \/ UNCHANGED <<queue, alarm, overrun>>
    \/ /\ UNCHANGED overrun
       /\ \/ rtc_func
          \/ \E s \in Schedule :
               SetMeeting(s) \/ (DeleteMeeting(s) /\ (s \in Pending \/ ~Stored(s)))
    \/ \E s \in Schedule : SetMeetingOverrun(s)

\* Such a step keeps the count in range.
LEMMA CarefulStepInRange ==
    ASSUME TypeOK, CountInRange, CarefulStep
    PROVE  CountInRange'
<1>1. CASE UNCHANGED <<queue, alarm, overrun>>
  BY <1>1 DEF queue, alarm, CountInRange
<1>2. ASSUME NEW s \in Schedule, SetMeeting(s), UNCHANGED overrun
      PROVE  CountInRange'
  <2>1. PICK r \in Slot \cup {Full} :
          /\ AddSchedule(s, r)
          /\ IF r = 0 THEN RTC_SET_ALARM(s) ELSE UNCHANGED alarm
    BY <1>2 DEF SetMeeting
  <2>2. numberOfSchedules' \in 0 .. Size /\ numberOfSchedules' >= numberOfSchedules
    BY <2>1, ClockAssumption DEF AddSchedule, queue, CountInRange, Slot
  <2>3. r = 0 => numberOfSchedules' > 0
    BY <2>1, ClockAssumption DEF AddSchedule, queue, CountInRange, Slot, Full
  <2>4. alarmOn' => numberOfSchedules' > 0
    <3>1. CASE r = 0
      BY <2>3, <3>1
    <3>2. CASE r # 0
      <4>1. alarmOn' = alarmOn
        BY <2>1, <3>2 DEF alarm
      <4>2. alarmOn' => numberOfSchedules > 0
        BY <4>1, Zenon DEF CountInRange
      <4>3. numberOfSchedules > 0 => numberOfSchedules' > 0
        BY <2>2, ClockAssumption DEF CountInRange
      <4>4. QED
        BY <4>2, <4>3
    <3>3. QED
      BY <3>1, <3>2
  <2>5. QED
    BY <1>2, <2>2, <2>4 DEF CountInRange
<1>3. ASSUME NEW s \in Schedule, DeleteMeeting(s), UNCHANGED overrun, s \in Pending \/ ~Stored(s)
      PROVE  CountInRange'
  <2>2. ASSUME NEW i \in Slot, FindSchedule(s, i), DeleteSlot(i),
               IF i = 0 THEN ArmAfterDelete ELSE UNCHANGED alarm
        PROVE  CountInRange'
    <3>5. PICK k \in 0 .. numberOfSchedules - 1 : scheduleQ[k] = s
      <4>1. Stored(s)
        BY <2>2 DEF FindSchedule, Stored
      <4>2. QED
        BY <1>3, <4>1 DEF Pending
    <3>1. i <= k
      BY <3>5, <2>2, ClockAssumption DEF FindSchedule, Slot, CountInRange
    <3>2. numberOfSchedules' \in 0 .. Size
      BY <3>5, <2>2, <3>1, ClockAssumption DEF DeleteSlot, Slot, CountInRange
    <3>3. i # 0 => numberOfSchedules' > 0
      BY <3>5, <2>2, <3>1, ClockAssumption DEF DeleteSlot, Slot, CountInRange
    <3>4. alarmOn' => numberOfSchedules' > 0
      <4>1. CASE i = 0
        <5>1. alarmOn' => numberOfSchedules' # 0
          BY <2>2, <4>1 DEF ArmAfterDelete, RTC_DISABLE_ALARM
        <5>2. numberOfSchedules' # 0 => numberOfSchedules' > 0
          BY <3>2, ClockAssumption
        <5>3. QED
          BY <5>1, <5>2, Zenon
      <4>2. CASE i # 0
        BY <3>3, <4>2
      <4>3. QED
        BY <4>1, <4>2
    <3>6. QED
      BY <1>3, <3>2, <3>4 DEF CountInRange
  <2>3. QED
    BY <1>1, <1>3, <2>2 DEF DeleteMeeting
<1>4. CASE rtc_func /\ UNCHANGED overrun
  <2>1. CASE Rings
    <3>1. numberOfSchedules' = numberOfSchedules - 1 /\ numberOfSchedules > 0
      BY <1>4, <2>1 DEF rtc_func, HandleAlarm, DeleteSlot, Rings, CountInRange
    <3>2. numberOfSchedules' \in 0 .. Size
      BY <3>1, ClockAssumption DEF CountInRange
    <3>3. alarmOn' => numberOfSchedules' > 1
      BY <1>4, <2>1 DEF rtc_func, HandleAlarm, ArmAfterRing, RTC_DISABLE_ALARM
    <3>4. QED
      BY <1>4, <3>2, <3>3, ClockAssumption DEF CountInRange
  <2>2. CASE ~Rings
    BY <1>1, <1>4, <2>2 DEF rtc_func
  <2>3. QED
    BY <2>1, <2>2
<1>5. ASSUME NEW s \in Schedule, SetMeetingOverrun(s)
      PROVE  CountInRange'
  BY <1>5, ClockAssumption DEF SetMeetingOverrun, CountInRange
<1>6. QED
  BY <1>1, <1>2, <1>3, <1>4, <1>5 DEF CarefulStep

\* When only stored meetings are deleted the count stays in range, no write
\* leaves the array, and no alarm is set for an empty queue.
THEOREM CountStaysInRange ==
    ASSUME StoredOnly
    PROVE  Spec => []CountInRange
<1>1. Init => CountInRange
  BY ClockAssumption DEF Init, CountInRange
<1>2. TypeOK /\ CountInRange /\ [Next]_vars => CountInRange'
  <2>1. [Next]_vars => CarefulStep
    <3>1. ASSUME NEW s \in Schedule, DeleteMeeting(s) PROVE s \in Pending
      BY <3>1 DEF DeleteMeeting, MayDelete
    <3>2. (\E t \in SetTo : SetClock(t)) \/ button_intterupt => UNCHANGED <<queue, alarm>>
      BY DEF SetClock, button_intterupt
    <3>3. UNCHANGED vars => UNCHANGED <<queue, alarm, overrun>>
      BY DEF vars
    <3>4. ASSUME Command, UNCHANGED overrun PROVE CarefulStep
      <4>1. CASE \E t \in SetTo : SetClock(t)
        BY <3>2, <3>4, <4>1 DEF CarefulStep
      <4>2. CASE \E s \in Schedule : SetMeeting(s) \/ DeleteMeeting(s)
        BY <3>1, <3>4, <4>2 DEF CarefulStep
      <4>3. QED
        BY <3>4, <4>1, <4>2 DEF Command
    <3>5. ASSUME button_intterupt, UNCHANGED overrun PROVE CarefulStep
      BY <3>2, <3>5 DEF CarefulStep
    <3>6. ASSUME rtc_func, UNCHANGED overrun PROVE CarefulStep
      BY <3>6 DEF CarefulStep
    <3>7. ASSUME NEW s \in Schedule, SetMeetingOverrun(s) PROVE CarefulStep
      BY <3>7 DEF CarefulStep
    <3>8. ASSUME UNCHANGED vars PROVE CarefulStep
      BY <3>3, <3>8 DEF CarefulStep
    <3>9. QED
      BY <3>4, <3>5, <3>6, <3>7, <3>8 DEF Next
  <2>2. QED
    BY <2>1, CarefulStepInRange
<1>3. QED
  BY <1>1, <1>2, TypeCorrect, PTL DEF Spec
-----------------------------------------------------------------------------
(* AlarmClock implements AlarmBook.                                        *)

\* What the steps of the implementation rely on.
IInv == TypeOK /\ QueueSorted /\ AlarmFollowsQueue /\ CountInRange

\* The earliest of the values of an ascending array is its first.
LEMMA FirstIsEarliest ==
    ASSUME NEW q, NEW n \in Nat, n > 0,
           \A i \in 0 .. n - 1 : q[i] \in Nat,
           \A i, j \in 0 .. n - 1 : i < j => q[i] < q[j]
    PROVE  Book!Earliest({q[i] : i \in 0 .. n - 1}) = {q[0]}
  <1> DEFINE S == {q[i] : i \in 0 .. n - 1}
  <1>1. 0 \in 0 .. n - 1
    OBVIOUS
  <1>2. \A i \in 0 .. n - 1 : i # 0 => q[0] < q[i]
    BY <1>1
  <1>3. \A i \in 0 .. n - 1 : q[0] <= q[i]
    BY <1>1, <1>2
  <1>4. ASSUME NEW x \in S, \A t \in S : x <= t
        PROVE  x = q[0]
    <2>1. PICK i \in 0 .. n - 1 : x = q[i]
      OBVIOUS
    <2>2. q[i] <= q[0]
      BY <1>1, <1>4, <2>1
    <2>3. QED
      BY <1>1, <1>2, <2>1, <2>2
  <1>5. q[0] \in S /\ \A t \in S : q[0] <= t
    BY <1>1, <1>3
  <1>6. QED
    BY <1>4, <1>5 DEF Book!Earliest

\* The slots of any count that fits the array are slots of the array.
LEMMA InUse ==
    ASSUME NEW n \in Nat, n <= Size
    PROVE  0 .. n - 1 \subseteq Slot
  BY ClockAssumption DEF Slot

\* The first slot in use, and any other one in use.
LEMMA FirstAndLater ==
    ASSUME NEW n \in Nat, NEW r \in Nat, r # 0, n > r
    PROVE  0 \in 0 .. n - 1 /\ r \in 0 .. n - 1 /\ 0 < r
  OBVIOUS

\* Slot 0 holds the earliest of the pending schedules.
LEMMA HeadIsEarliest ==
    ASSUME TypeOK, QueueSorted, numberOfSchedules > 0
    PROVE  Book!Earliest(Pending) = {scheduleQ[0]}
  <1>1. numberOfSchedules \in Nat
    BY ClockAssumption DEF TypeOK
  <1>2. ASSUME NEW i \in 0 .. numberOfSchedules - 1
        PROVE  scheduleQ[i] \in Nat
    <2>1. Schedule \cup {None} \subseteq Nat
      BY ClockAssumption DEF None
    <2>2. i \in Slot
      BY ClockAssumption DEF TypeOK, Slot
    <2>3. QED
      BY <2>1, <2>2 DEF TypeOK
  <1>3. QED
    BY <1>1, <1>2, FirstIsEarliest DEF QueueSorted, Pending

\* The same of the next state.
LEMMA NextHeadIsEarliest ==
    ASSUME TypeOK', QueueSorted', numberOfSchedules' > 0
    PROVE  Book!Earliest(Pending)' = {scheduleQ'[0]}
  <1>1. numberOfSchedules' \in Nat /\ numberOfSchedules' <= Size
    BY ClockAssumption DEF TypeOK
  <1>2. ASSUME NEW i \in 0 .. numberOfSchedules' - 1
        PROVE  scheduleQ'[i] \in Nat
    <2>1. Schedule \cup {None} \subseteq Nat
      BY ClockAssumption DEF None
    <2>2. i \in Slot
      BY <1>1, InUse
    <2>3. QED
      BY <2>1, <2>2 DEF TypeOK
  <1>3. Book!Earliest({scheduleQ'[i] : i \in 0 .. numberOfSchedules' - 1}) = {scheduleQ'[0]}
    BY <1>1, <1>2, FirstIsEarliest DEF QueueSorted
  <1>4. QED
    BY <1>3 DEF Pending, Book!Earliest

\* An insertion adds the meeting to the pending schedules.
LEMMA AddPending ==
    ASSUME TypeOK, NEW s \in Schedule, NEW r \in Slot \cup {Full},
           numberOfSchedules \in Slot, AddSchedule(s, r)
    PROVE  /\ Pending' = Pending \cup {s}
           /\ numberOfSchedules' > r
           /\ scheduleQ'[r] = s
  <1>1. /\ numberOfSchedules \in Nat
        /\ r \in Slot /\ r \in 0 .. numberOfSchedules
        /\ numberOfSchedules # Size
    BY ClockAssumption DEF AddSchedule, StopsAt, Slot
  <1>2. CASE r < numberOfSchedules /\ scheduleQ[r] = s
    <2>1. UNCHANGED queue
      BY <1>1, <1>2 DEF AddSchedule
    <2>2. QED
      BY <1>1, <1>2, <2>1 DEF Pending, queue
  <1>3. CASE ~(r < numberOfSchedules /\ scheduleQ[r] = s)
    <2>1. scheduleQ' = Inserted(s, r) /\ numberOfSchedules' = numberOfSchedules + 1
      BY <1>1, <1>3 DEF AddSchedule
    <2>2. \A k \in Slot : scheduleQ'[k] =
            IF k > r /\ k <= numberOfSchedules THEN scheduleQ[k - 1]
            ELSE IF k = r THEN s ELSE scheduleQ[k]
      BY <2>1 DEF Inserted
    <2>3. ASSUME NEW k \in 0 .. numberOfSchedules
          PROVE  scheduleQ'[k] \in Pending \cup {s}
      <3>1. k \in Slot
        BY <1>1, ClockAssumption DEF Slot
      <3>2. CASE k > r
        BY <1>1, <2>2, <3>1, <3>2 DEF Pending
      <3>3. CASE k = r
        BY <1>1, <2>2, <3>1, <3>3
      <3>4. CASE k < r
        BY <1>1, <2>2, <3>1, <3>4 DEF Pending
      <3>5. QED
        BY <1>1, <3>2, <3>3, <3>4
    <2>4. ASSUME NEW k \in 0 .. numberOfSchedules - 1
          PROVE  scheduleQ[k] \in Pending'
      <3>1. Pending' = {scheduleQ'[i] : i \in 0 .. numberOfSchedules}
        BY <1>1, <2>1 DEF Pending
      <3>2. CASE k < r
        <4>1. scheduleQ'[k] = scheduleQ[k] /\ k \in 0 .. numberOfSchedules
          BY <1>1, <2>2, <3>2, ClockAssumption DEF Slot
        <4>2. QED
          BY <3>1, <4>1
      <3>3. CASE k >= r
        <4>1. scheduleQ'[k + 1] = scheduleQ[k] /\ k + 1 \in 0 .. numberOfSchedules
          BY <1>1, <2>2, <3>3, ClockAssumption DEF Slot
        <4>2. QED
          BY <3>1, <4>1
      <3>4. QED
        BY <1>1, <3>2, <3>3
    <2>5. scheduleQ'[r] = s /\ s \in Pending'
      BY <1>1, <2>1, <2>2 DEF Pending
    <2>6. Pending' \subseteq Pending \cup {s}
      BY <1>1, <2>1, <2>3 DEF Pending
    <2>7. Pending \subseteq Pending'
      BY <2>4 DEF Pending
    <2>8. QED
      BY <1>1, <2>1, <2>5, <2>6, <2>7
  <1>4. QED
    BY <1>2, <1>3

\* Deleting a slot in use removes its schedule and no other.
LEMMA DeletePending ==
    ASSUME TypeOK, QueueSorted, NEW i \in Slot, i < numberOfSchedules, DeleteSlot(i)
    PROVE  Pending' = Pending \ {scheduleQ[i]}
  <1>1. numberOfSchedules \in Nat /\ i \in 0 .. numberOfSchedules - 1
    BY ClockAssumption DEF TypeOK, Slot
  <1>2. \A k \in Slot : scheduleQ'[k] = IF k >= i /\ k < numberOfSchedules - 1
                                       THEN scheduleQ[k + 1] ELSE scheduleQ[k]
    BY DEF DeleteSlot, Removed
  <1>3. Pending' = {scheduleQ'[k] : k \in 0 .. numberOfSchedules - 2}
    BY <1>1 DEF Pending, DeleteSlot
  <1>4. \A k \in 0 .. numberOfSchedules - 1 : k \in Slot /\ scheduleQ[k] \in Nat
    <2>1. Schedule \cup {None} \subseteq Nat
      BY ClockAssumption DEF None
    <2>2. 0 .. numberOfSchedules - 1 \subseteq Slot
      BY ClockAssumption DEF TypeOK, Slot
    <2>3. QED
      BY <2>1, <2>2 DEF TypeOK
  <1>5. \A k \in 0 .. numberOfSchedules - 1 : k # i => scheduleQ[k] # scheduleQ[i]
    BY <1>1, <1>4 DEF QueueSorted
  <1>6. ASSUME NEW k \in 0 .. numberOfSchedules - 2
        PROVE  scheduleQ'[k] \in Pending \ {scheduleQ[i]}
    <2>1. CASE k < i
      BY <1>1, <1>2, <1>4, <1>5, <2>1 DEF Pending
    <2>2. CASE k >= i
      <3>1. scheduleQ'[k] = scheduleQ[k + 1] /\ k + 1 \in 0 .. numberOfSchedules - 1 /\ k + 1 # i
        BY <1>1, <1>2, <1>4, <2>2
      <3>2. QED
        BY <1>5, <3>1 DEF Pending
    <2>3. QED
      BY <1>1, <2>1, <2>2
  <1>7. ASSUME NEW k \in 0 .. numberOfSchedules - 1, scheduleQ[k] # scheduleQ[i]
        PROVE  scheduleQ[k] \in Pending'
    <2>1. CASE k < i
      <3>1. scheduleQ'[k] = scheduleQ[k] /\ k \in 0 .. numberOfSchedules - 2
        BY <1>1, <1>2, <1>4, <2>1
      <3>2. QED
        BY <1>3, <3>1
    <2>2. CASE k > i
      <3>1. scheduleQ'[k - 1] = scheduleQ[k] /\ k - 1 \in 0 .. numberOfSchedules - 2
        <4>1. k - 1 \in Slot
          BY <1>1, <1>4, <2>2
        <4>2. QED
          BY <1>1, <1>2, <2>2, <4>1
      <3>2. QED
        BY <1>3, <3>1
    <2>3. QED
      BY <1>1, <1>7, <2>1, <2>2
  <1>8. Pending' \subseteq Pending \ {scheduleQ[i]}
    BY <1>3, <1>6
  <1>9. Pending \ {scheduleQ[i]} \subseteq Pending'
    BY <1>7 DEF Pending
  <1>10. QED
    BY <1>8, <1>9

\* A command or an interrupt that leaves the queue, the alarm and the clock
\* alone is a step AlarmBook does not see.
LEMMA Unseen ==
    ASSUME UNCHANGED <<queue, alarm, clock>>
    PROVE  UNCHANGED Book!book
  BY DEF queue, alarm, Pending, Book!book

\* SetMeeting stores the meeting in the book, or is refused unseen.
LEMMA SetMeetingStores ==
    ASSUME IInv, IInv', NEW s \in Schedule, SetMeeting(s)
    PROVE  Book!Store(s) \/ UNCHANGED Book!book
  <1>1. PICK r \in Slot \cup {Full} :
          /\ AddSchedule(s, r)
          /\ IF r = 0 THEN RTC_SET_ALARM(s) ELSE UNCHANGED alarm
    BY DEF SetMeeting
  <1>2. UNCHANGED clock
    BY DEF SetMeeting
  <1>3. CASE numberOfSchedules = Size
    <2>1. UNCHANGED queue /\ r # 0
      BY <1>1, <1>3, ClockAssumption DEF AddSchedule, Slot, Full
    <2>2. QED
      BY <1>1, <1>2, <2>1, Unseen
  <1>4. CASE numberOfSchedules \in Slot
    <2>1. /\ Pending' = Pending \cup {s}
          /\ numberOfSchedules' > r
          /\ scheduleQ'[r] = s
      BY <1>1, <1>4, AddPending DEF IInv
    <2>2. numberOfSchedules' \in Nat /\ r \in Nat /\ s \in Nat
      BY ClockAssumption DEF IInv, CountInRange, Slot, Full
    <2>3. Book!Earliest(Pending)' = {scheduleQ'[0]}
      BY <2>1, <2>2, NextHeadIsEarliest DEF IInv
    <2>4. CASE r = 0
      <3>1. s \in Book!Earliest(Pending)'
        BY <2>1, <2>3, <2>4
      <3>2. alarmOn' /\ al' = s
        BY <1>1, <2>4 DEF RTC_SET_ALARM
      <3>3. QED
        BY <1>2, <2>1, <3>1, <3>2 DEF Book!Store, Book!Earliest
    <2>5. CASE r # 0
      <3>1. s # scheduleQ'[0]
        <4>1. 0 \in 0 .. numberOfSchedules' - 1 /\ r \in 0 .. numberOfSchedules' - 1 /\ 0 < r
          BY <2>1, <2>2, <2>5, FirstAndLater
        <4>2. scheduleQ'[0] < scheduleQ'[r]
          BY <4>1 DEF IInv, QueueSorted
        <4>3. QED
          BY <2>1, <2>2, <4>2
      <3>2. s \notin Book!Earliest(Pending)'
        BY <2>3, <3>1
      <3>3. UNCHANGED alarm
        BY <1>1, <2>5
      <3>4. QED
        BY <1>2, <2>1, <3>2, <3>3 DEF alarm, Book!Store, Book!Earliest
    <2>6. QED
      BY <2>4, <2>5
  <1>5. QED
    BY <1>3, <1>4, ClockAssumption DEF IInv, CountInRange, Slot

\* After slot 0 was deleted, an alarm that is set is set for the earliest
\* schedule left.
LEMMA NextArmed ==
    ASSUME IInv', numberOfSchedules' > 0, RTC_SET_ALARM(scheduleQ'[0])
    PROVE  (IF alarmOn THEN {al} ELSE {})' = Book!Earliest(Pending)'
  BY NextHeadIsEarliest DEF IInv, RTC_SET_ALARM

\* An empty queue has no earliest schedule.
LEMMA NextEmpty ==
    ASSUME numberOfSchedules' = 0
    PROVE  Book!Earliest(Pending)' = {}
  BY DEF Pending, Book!Earliest

\* DeleteMeeting cancels a pending meeting in the book.
LEMMA DeleteMeetingCancels ==
    ASSUME IInv, IInv', NEW s \in Pending, DeleteMeeting(s)
    PROVE  Book!Cancel(s)
  <1>1. PICK k \in 0 .. numberOfSchedules - 1 : scheduleQ[k] = s
    BY DEF Pending
  <1>2. numberOfSchedules \in Nat /\ k \in Slot
    BY ClockAssumption DEF IInv, CountInRange, Slot
  <1>3. UNCHANGED clock
    BY DEF DeleteMeeting
  <1>4. PICK i \in Slot :
          /\ FindSchedule(s, i)
          /\ DeleteSlot(i)
          /\ IF i = 0 THEN ArmAfterDelete ELSE UNCHANGED alarm
    BY <1>1, <1>2 DEF DeleteMeeting, Stored
  <1>5. i < numberOfSchedules /\ scheduleQ[i] = s
    BY <1>1, <1>2, <1>4 DEF FindSchedule, Slot
  <1>6. Pending' = Pending \ {s}
    BY <1>4, <1>5, DeletePending DEF IInv
  <1>7. numberOfSchedules > 0
    BY <1>1, <1>2
  <1>8. Book!Earliest(Pending) = {scheduleQ[0]}
    BY <1>7, HeadIsEarliest DEF IInv
  <1>9. CASE i = 0
    <2>1. s \in Book!Earliest(Pending)
      BY <1>5, <1>8, <1>9
    <2>2. (IF alarmOn THEN {al} ELSE {})' = Book!Earliest(Pending)'
      <3>1. CASE numberOfSchedules' = 0
        BY <1>4, <1>9, <3>1, NextEmpty DEF ArmAfterDelete, RTC_DISABLE_ALARM
      <3>2. CASE numberOfSchedules' > 0
        BY <1>4, <1>9, <3>2, NextArmed DEF ArmAfterDelete, IInv, CountInRange
      <3>3. QED
        BY <3>1, <3>2, ClockAssumption DEF IInv, CountInRange
    <2>3. QED
      BY <1>3, <1>6, <2>1, <2>2 DEF Book!Cancel, Book!Earliest
  <1>10. CASE i # 0
    <2>1. s # scheduleQ[0]
      BY <1>4, <1>10, ClockAssumption DEF FindSchedule, Slot
    <2>2. s \notin Book!Earliest(Pending)
      BY <1>8, <2>1
    <2>3. UNCHANGED alarm
      BY <1>4, <1>10
    <2>4. QED
      BY <1>3, <1>6, <2>2, <2>3 DEF alarm, Book!Cancel, Book!Earliest
  <1>11. QED
    BY <1>9, <1>10

\* The book does not see the deletion of a meeting that the array does not hold.
LEMMA DeleteMeetingUnseen ==
    ASSUME NEW s \in Schedule, DeleteMeeting(s), ~Stored(s)
    PROVE  UNCHANGED Book!book
  <1>1. UNCHANGED <<queue, alarm, clock>>
    BY DEF DeleteMeeting, FindSchedule, Stored
  <1>2. QED
    BY <1>1, Unseen

\* A second in which the alarm fires rings the armed schedule of the book; any
\* other second passes.
LEMMA SecondRingsOrPasses ==
    ASSUME IInv, IInv', rtc_func
    PROVE  Book!Ring \/ Book!Pass
  <1>1. clock' = clock + 1
    BY DEF rtc_func
  <1>2. CASE Rings
    <2>1. HandleAlarm /\ numberOfSchedules > 0 /\ alarmOn /\ al = scheduleQ[0]
      BY <1>2 DEF rtc_func, Rings, IInv, CountInRange, AlarmFollowsQueue
    <2>2. 0 \in Slot /\ 0 < numberOfSchedules
      BY <2>1, ClockAssumption DEF Slot, IInv, CountInRange
    <2>3. Pending' = Pending \ {al}
      BY <2>1, <2>2, DeletePending DEF IInv, HandleAlarm
    <2>4. al \in Book!Earliest(Pending)
      BY <2>1, HeadIsEarliest DEF IInv
    <2>5. (IF alarmOn THEN {al} ELSE {})' \in {{}, Book!Earliest(Pending)'}
      <3>1. CASE numberOfSchedules' > 1
        <4>1. numberOfSchedules' > 0
          BY <3>1, ClockAssumption DEF IInv, CountInRange
        <4>2. QED
          BY <2>1, <3>1, <4>1, NextArmed DEF HandleAlarm, ArmAfterRing
      <3>2. CASE ~(numberOfSchedules' > 1)
        BY <2>1, <3>2 DEF HandleAlarm, ArmAfterRing, RTC_DISABLE_ALARM
      <3>3. QED
        BY <3>1, <3>2
    <2>6. clock' = Book!Due(al)
      BY <1>1, <1>2 DEF Rings, Due, Book!Due
    <2>7. QED
      BY <1>1, <2>1, <2>3, <2>4, <2>5, <2>6 DEF Book!Ring, Book!Earliest
  <1>3. CASE ~Rings
    <2>1. UNCHANGED <<queue, alarm>>
      BY <1>3 DEF rtc_func
    <2>2. ~(alarmOn /\ clock' = Due(al))
      BY <1>1, <1>3 DEF Rings
    <2>3. QED
      BY <1>1, <2>1, <2>2 DEF Book!Pass, Book!Due, Due, queue, alarm, Pending
  <1>4. QED
    BY <1>2, <1>3

\* When only stored meetings are deleted, the array, the count and the alarm
\* registers implement the set of pending schedules: every command and every
\* interrupt is a step of AlarmBook or one it does not see.
THEOREM ImplementsBook ==
    ASSUME StoredOnly
    PROVE  Spec => BookSpec
<1>1. Init => Book!Init
  <2> SUFFICES ASSUME Init PROVE Book!Init
    OBVIOUS
  <2>1. Pending = {}
    BY DEF Init, Pending
  <2>2. QED
    BY <2>1 DEF Init, Book!Init
<1>2. IInv /\ IInv' /\ [Next]_vars => [Book!Next]_(Book!book)
  <2> SUFFICES ASSUME IInv, IInv', [Next]_vars
               PROVE  [Book!Next]_(Book!book)
    OBVIOUS
  <2>1. ASSUME NEW t \in SetTo, SetClock(t)
        PROVE  Book!Adjust
    BY <2>1, ClockAssumption DEF SetClock, Book!Adjust, queue, alarm, Pending
  <2>2. ASSUME NEW s \in Schedule, SetMeetingOverrun(s)
        PROVE  FALSE
    BY <2>2, ClockAssumption DEF SetMeetingOverrun, IInv, CountInRange
  <2>3. CASE button_intterupt
    BY <2>3, Unseen DEF button_intterupt
  <2>4. CASE UNCHANGED vars
    BY <2>4, Unseen DEF vars
  <2>5. ASSUME NEW s \in Schedule, DeleteMeeting(s)
        PROVE  Book!Cancel(s)
    <3>1. s \in Pending
      BY <2>5 DEF DeleteMeeting, MayDelete
    <3>2. QED
      BY <2>5, <3>1, DeleteMeetingCancels
  <2>6. QED
    BY <2>1, <2>2, <2>3, <2>4, <2>5, SetMeetingStores, SecondRingsOrPasses
       DEF Next, Command, Book!Next
<1>3. Spec => []IInv
  BY TypeCorrect, Sorted, FollowsQueue, CountStaysInRange, PTL DEF IInv
<1>4. QED
  BY <1>1, <1>2, <1>3, PTL DEF Spec, BookSpec, Book!Spec

-----------------------------------------------------------------------------
(* The searches of alarm-watch.c: StopsAt and FindSchedule say where a loop    *)
(* ends; each loop ends, and in one place.                                     *)

\* A set of numbers has a least one.
LEMMA LeastSlot ==
  ASSUME NEW S \in SUBSET Nat, S # {}
  PROVE  \E m \in S : \A k \in S : m <= k
<1>1. PICK m \in S : \A k \in S : <<k, m>> \notin OpToRel(<, Nat)
  BY NatLessThanWellFounded, WFMin
<1>2. \A k \in S : ~(k < m)
  BY <1>1 DEF OpToRel
<1> QED BY <1>2

\* There is one place for a meeting, below the end of the array, while there is room.
LEMMA PlaceIsOne ==
  ASSUME TypeOK, numberOfSchedules \in Slot, NEW s \in Schedule
  PROVE  \E r \in Slot : StopsAt(s, r) /\ \A q \in Slot : StopsAt(s, q) => q = r
<1> DEFINE Stops == {r \in 0 .. numberOfSchedules : r < numberOfSchedules => s <= scheduleQ[r]}
<1>1. numberOfSchedules \in Nat /\ numberOfSchedules < Size /\ Size \in Nat
  BY ClockAssumption DEF Slot
<1>2. \A j \in 0 .. numberOfSchedules - 1 : scheduleQ[j] \in Nat /\ j \in Slot
  <2>1. \A j \in Slot : scheduleQ[j] \in Schedule \cup {None}
    BY DEF TypeOK
  <2>2. Schedule \cup {None} \subseteq Nat
    BY ClockAssumption DEF None
  <2>3. 0 .. numberOfSchedules - 1 \subseteq Slot
    BY <1>1 DEF Slot
  <2> QED BY <2>1, <2>2, <2>3
<1>3. s \in Nat
  BY ClockAssumption
<1>4. Stops \in SUBSET Nat /\ numberOfSchedules \in Stops
  BY <1>1
<1>5. PICK r \in Stops : \A k \in Stops : r <= k
  <2> HIDE DEF Stops
  <2> QED BY <1>4, LeastSlot
<1>6. r \in Slot
  BY <1>1 DEF Slot
<1>7. StopsAt(s, r)
  <2>1. ASSUME NEW j \in 0 .. r - 1
        PROVE  s > scheduleQ[j]
    <3>1. j \in 0 .. numberOfSchedules - 1 /\ j < r
      BY <1>1
    <3>2. j \notin Stops
      BY <1>1, <1>5, <3>1
    <3> QED BY <1>1, <1>2, <1>3, <3>1, <3>2
  <2> QED BY <2>1 DEF StopsAt
<1>8. ASSUME NEW q \in Slot, StopsAt(s, q)
      PROVE  q = r
  <2>1. q \in Stops /\ r <= q
    BY <1>5, <1>8 DEF StopsAt
  <2>2. ~(r < q)
    <3> SUFFICES ASSUME r < q PROVE FALSE
      OBVIOUS
    <3>1. r \in 0 .. q - 1 /\ r < numberOfSchedules
      BY <1>1, <2>1
    <3>2. s > scheduleQ[r] /\ s <= scheduleQ[r]
      BY <1>8, <3>1 DEF StopsAt
    <3> QED BY <1>1, <1>2, <1>3, <3>1, <3>2
  <2> QED BY <1>1, <2>1, <2>2
<1> QED BY <1>6, <1>7, <1>8

\* One slot is found for a meeting that is in the array, below the count or beyond it.
LEMMA FoundIsOne ==
  ASSUME NEW s \in Schedule, Stored(s)
  PROVE  \E i \in Slot : FindSchedule(s, i) /\ \A k \in Slot : FindSchedule(s, k) => k = i
<1> DEFINE Holds == {i \in Slot : scheduleQ[i] = s}
<1>1. Slot \subseteq Nat /\ \A i \in Slot : 0 .. i - 1 \subseteq Slot
  BY ClockAssumption DEF Slot
<1>2. PICK i \in Holds : \A k \in Holds : i <= k
  <2>1. Holds \in SUBSET Nat /\ Holds # {}
    BY <1>1 DEF Stored
  <2> HIDE DEF Holds
  <2> QED BY <2>1, LeastSlot
<1>3. FindSchedule(s, i)
  BY <1>1, <1>2 DEF FindSchedule
<1>4. ASSUME NEW k \in Slot, FindSchedule(s, k)
      PROVE  k = i
  <2>1. i <= k /\ i \in Nat /\ k \in Nat
    BY <1>1, <1>2, <1>4 DEF FindSchedule
  <2>2. ~(i \in 0 .. k - 1)
    BY <1>2, <1>4 DEF FindSchedule
  <2> QED BY <2>1, <2>2
<1> QED BY <1>2, <1>3, <1>4

\* Every search ends, in one place: a meeting has one slot to go to while there is room, so
\* none is refused for want of a place (what RoomIsUsed says with ENABLED), and a meeting in
\* the array is found in one slot.  AddSchedule and DeleteSchedule, which the model states as
\* relations, have one outcome.
THEOREM SearchesEnd ==
  Spec => []( /\ numberOfSchedules \in Slot =>
                   \A s \in Schedule :
                      \E r \in Slot : StopsAt(s, r) /\ \A q \in Slot : StopsAt(s, q) => q = r
              /\ \A s \in Schedule :
                   Stored(s) => \E i \in Slot : FindSchedule(s, i)
                                                 /\ \A k \in Slot : FindSchedule(s, k) => k = i )
<1>1. TypeOK =>
        /\ numberOfSchedules \in Slot =>
             \A s \in Schedule :
                \E r \in Slot : StopsAt(s, r) /\ \A q \in Slot : StopsAt(s, q) => q = r
        /\ \A s \in Schedule :
             Stored(s) => \E i \in Slot : FindSchedule(s, i)
                                           /\ \A k \in Slot : FindSchedule(s, k) => k = i
  BY PlaceIsOne, FoundIsOne
<1> QED BY <1>1, TypeCorrect, PTL
=============================================================================
