CONSTANTS
    maxExpandedDigits = 3
    IntBits = 4
    Second = 2
    DurationBits = 9
    Capacity = 3
    Readers = {r}
    Blank = Blank
    a = a
    b = b
    Workers = {a, b}
    Entries <- SomeEntries
    Scenarios <- SomeScenarios
SPECIFICATION Spec
CHECK_DEADLOCK FALSE
INVARIANTS
    TypeOK
    ReceivedIsCaptured
    CommittedIsAnswered
    WaitsAsDocumented
PROPERTIES
    FollowsLog
