\* The announced alarm after a ring.
CONSTANTS
    Size = 3
    Schedule <- MCSchedule
    SecPerMinute = 2
    BuzzerTime = 1
    DisplayTime = 1
    SetTo <- MCSetTo
    LastSecond = 9
    Underflow = 1
    StoredOnly = TRUE
    Punctual = TRUE
SPECIFICATION Spec
PROPERTIES
    NextAlarmIsSet
