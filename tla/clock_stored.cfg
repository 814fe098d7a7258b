\* Only stored meetings are deleted; meetings and clock settings may be late.
CONSTANTS
    Size = 3
    Schedule <- MCSchedule
    SecPerMinute = 2
    BuzzerTime = 1
    DisplayTime = 1
    SetTo <- MCSetTo
    LastSecond = 9
    Underflow = 1
    StoredOnly = TRUE
    Punctual = FALSE
SPECIFICATION Spec
INVARIANTS
    CountInRange
    RoomIsUsed
PROPERTIES
    BookSpec
