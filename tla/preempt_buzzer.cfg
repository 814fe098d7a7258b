\* The Ethernet driver writes IOPIN0 back after the buzzer started.
CONSTANTS
    Size = 3
    Schedule <- MCSchedule
    SecPerMinute = 1
    BuzzerTime = 2
    DisplayTime = 1
    SetTo <- MCSetTo
    LastSecond = 4
    Underflow = 1
    StoredOnly = TRUE
    Punctual = TRUE
    Deletable <- NoSchedules
    Preempt = TRUE
SPECIFICATION PSpec
PROPERTIES
    BuzzerKeepsOn
