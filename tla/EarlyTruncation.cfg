CONSTANTS
    Clients = {a, b}
    NoOne = NoOne
    MaxOffset = 2
    Malformed = {}
    Excluded = {}
    Budgets <- TruncateFaults
    TruncateAnyTime = TRUE
SPECIFICATION Spec
SYMMETRY Symmetric
CHECK_DEADLOCK FALSE
INVARIANTS
    CommittedIsSettled
