\* One environment in which nothing fails, and others.
CONSTANTS
    e1 = e1
    e2 = e2
    Event <- TwoEvents
    Start <- LateStart
    MaxSend = 1
    Environment <- MCEnvironment
    LastTime = 3
    Size = 2
SPECIFICATION MCSpec
INVARIANTS
    ListInv
    CountsSent
    Synced
    AlarmsMirrored
PROPERTIES
    ChangeArrives
    BookKept
