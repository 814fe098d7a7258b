\* A punctual environment in which any meeting may be deleted; the clock runs on.
\* The behaviour ends where AddSchedule overruns.
CONSTANTS
    Size = 3
    Schedule <- MCSchedule
    SecPerMinute = 2
    BuzzerTime = 2
    DisplayTime = 1
    SetTo <- MCSetTo
    LastSecond = 12
    Underflow = 2
    StoredOnly = FALSE
    Punctual = TRUE
SPECIFICATION FairSpec
INVARIANTS
    ClockInv
PROPERTIES
    ArmedAlarmComes
    BuzzerStops
CHECK_DEADLOCK FALSE
