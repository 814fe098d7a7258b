\* Meetings are stored while alarms ring; or commands run whole; or any are cut into.
CONSTANTS
    Size = 3
    Schedule <- MCSchedule
    SecPerMinute = 1
    BuzzerTime = 2
    DisplayTime = 1
    SetTo <- MCSetTo
    LastSecond = 4
    Underflow = 1
    StoredOnly = TRUE
    Punctual = TRUE
    Deletable <- NoSchedules
    Preempt = TRUE
SPECIFICATION MCSpec
INVARIANTS
    AddInv
    
PROPERTIES
    WholeIsAtomic
    OnlyRingsDisturb
