\* A stored meeting is deleted while it rings.  The behaviour ends where
\* AddSchedule overruns, after such a delete left a negative count.
CONSTANTS
    Size = 3
    Schedule <- MCSchedule
    SecPerMinute = 1
    BuzzerTime = 2
    DisplayTime = 1
    SetTo <- MCSetTo
    LastSecond = 4
    Underflow = 1
    StoredOnly = TRUE
    Punctual = TRUE
    Deletable <- MCSchedule
    Preempt = TRUE
SPECIFICATION PSpec
INVARIANTS
    DeletesOnlyItsOwn
CHECK_DEADLOCK FALSE
