CONSTANTS
    Clients = {a, b}
    NoOne = NoOne
    MaxOffset = 1
    Malformed = {}
    Excluded = {}
    Budgets <- EvictionFaults
    TruncateAnyTime = FALSE
SPECIFICATION Spec
SYMMETRY Symmetric
CHECK_DEADLOCK FALSE
INVARIANTS
    BlockedForCause
