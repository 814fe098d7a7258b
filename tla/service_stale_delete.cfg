\* Nothing fails, and the clock executes what it is sent.
CONSTANTS
    e1 = e1
    e2 = e2
    Event <- TwoEvents
    Start <- LateStart
    MaxSend = 1
    Environment <- WithClock
    LastTime = 3
    Size = 2
SPECIFICATION ServiceSpec
PROPERTIES
    DeleteIfExists
