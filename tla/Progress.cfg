CONSTANTS
    Clients = {a, b}
    NoOne = NoOne
    MaxOffset = 1
    Malformed = {}
    Excluded = {}
    Budgets <- ProgressFaults
    TruncateAnyTime = FALSE
SPECIFICATION LiveSpec
CHECK_DEADLOCK FALSE
PROPERTIES
    EventuallyCommitted
