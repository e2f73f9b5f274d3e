CONSTANTS
    Clients = {a, b}
    NoOne = NoOne
    MaxOffset = 2
    Malformed = {}
    Excluded = {}
    Budgets <- EvictionFaults
    TruncateAnyTime = FALSE
SPECIFICATION Spec
SYMMETRY Symmetric
CHECK_DEADLOCK FALSE
INVARIANTS
    TypeOK
    CommittedIsSettled
    DeliveredInOrder
    PausedWhileBusy
PROPERTIES
    CommitMovesByOne
    ImplementsOrderedDelivery
